---------------------------- MODULE EngineProofs ----------------------------
(***************************************************************************)
(* Proofs about Policy, for every list of results, and about Engine, for   *)
(* any number of upstreams, any addresses and any asset bundles.           *)
(***************************************************************************)
EXTENDS Engine, NatFacts, SequenceTheorems, FiniteSetTheorems, TLAPS

-----------------------------------------------------------------------------
\* What Select collects: an address is in a list iff some answer of a server
\* of that class returned it.
LEMMA Collected ==
  ASSUME NEW rs \in Seq(PolicyResult)
  PROVE  /\ \A a : a \in AllIPs(rs) <=> \E i \in Answers(rs) : a \in rs[i].addrs
         /\ \A a : a \in CnIPs(rs) <=>
                     \E i \in Answers(rs) : rs[i].serverChina /\ a \in rs[i].addrs
         /\ \A a : a \in NonCnIPs(rs) <=>
                     \E i \in Answers(rs) : ~ rs[i].serverChina /\ a \in rs[i].addrs
BY Zenon DEF AllIPs, CnIPs, NonCnIPs

\* The indices of the answers, and what an answer holds.
LEMMA AnswerFacts ==
  ASSUME NEW rs \in Seq(PolicyResult), NEW i \in Answers(rs)
  PROVE  /\ i \in 1..Len(rs)
         /\ rs[i] \in PolicyResult
         /\ rs[i].serverChina \in BOOLEAN
         /\ rs[i].addrs # {}
         /\ rs[i].addrs \subseteq Addr
         /\ rs[i].minTTL \in Nat
<1>1. i \in 1..Len(rs) /\ rs[i].state = "answer"
  BY DEF Answers, InState
<1>2. rs[i] \in PolicyResult
  BY <1>1, ElementOfSeq
<1>3. QED
  BY <1>1, <1>2 DEF PolicyResult

\* The two lists by class make up the list of all addresses, which is empty
\* exactly when there is no answer.
LEMMA AllIPsSplit ==
  ASSUME NEW rs \in Seq(PolicyResult)
  PROVE  /\ AllIPs(rs) = CnIPs(rs) \cup NonCnIPs(rs)
         /\ AllIPs(rs) \subseteq Addr
         /\ Answers(rs) # {} <=> AllIPs(rs) # {}
<1>1. \A a : a \in AllIPs(rs) <=> a \in CnIPs(rs) \/ a \in NonCnIPs(rs)
  BY Collected, Zenon
<1>2. AllIPs(rs) = CnIPs(rs) \cup NonCnIPs(rs)
  BY <1>1, Zenon
<1>3. AllIPs(rs) \subseteq Addr
  BY Collected, AnswerFacts, Zenon
<1>4. Answers(rs) # {} => AllIPs(rs) # {}
  <2>1. SUFFICES ASSUME NEW i \in Answers(rs) PROVE AllIPs(rs) # {}
    BY Zenon
  <2>2. PICK a : a \in rs[i].addrs
    BY AnswerFacts, Zenon
  <2>3. QED
    BY <2>2, Collected, Zenon
<1>5. AllIPs(rs) # {} => Answers(rs) # {}
  BY Collected, Zenon
<1>6. QED
  BY <1>2, <1>3, <1>4, <1>5

\* policy.Select never returns an empty list when some upstream answered, and
\* invents no address.
THEOREM SelectNonempty ==
  ASSUME NEW rs \in Seq(PolicyResult), NEW china, NEW override \in BOOLEAN,
         Answers(rs) # {}
  PROVE  /\ Select(rs, china, override).policy \in Policies
         /\ Select(rs, china, override).addrs # {}
         /\ Select(rs, china, override).addrs \subseteq AllIPs(rs)
<1>1. AllIPs(rs) # {}
  BY AllIPsSplit
<1>2. CnIPs(rs) \subseteq AllIPs(rs) /\ NonCnIPs(rs) \subseteq AllIPs(rs)
  BY AllIPsSplit
<1>3. QED
  BY <1>1, <1>2 DEF Select, SelectResult, Rule1, Policies

\* The addresses policy.Select returns are all China or all non-China, as the
\* policy name says; the override branch is taken only for an overridden name.
THEOREM SelectClassified ==
  ASSUME NEW rs \in Seq(PolicyResult), NEW china, NEW override \in BOOLEAN
  PROVE  LET sel == Select(rs, china, override)
         IN  /\ sel.policy = PolicyOverride => override /\ sel.addrs \cap china = {}
             /\ sel.policy = PolicyPreferChina => ~ override /\ sel.addrs \subseteq china
             /\ sel.policy = PolicyAllNonChina => sel.addrs \cap china = {}
             /\ sel.policy = PolicyFallbackChina => sel.addrs \subseteq china
<1>1. CnIPs(rs) \subseteq AllIPs(rs) /\ NonCnIPs(rs) \subseteq AllIPs(rs)
  BY AllIPsSplit
<1>2. QED
  BY <1>1 DEF Select, SelectResult, Rule1, PolicyOverride, PolicyPreferChina,
              PolicyAllNonChina, PolicyFallbackChina

-----------------------------------------------------------------------------
\* More results only add to the lists Select collects.
LEMMA CollectedMonotone ==
  ASSUME NEW rs \in Seq(PolicyResult), NEW more \in Seq(PolicyResult)
  PROVE  /\ rs \o more \in Seq(PolicyResult)
         /\ CnIPs(rs) \subseteq CnIPs(rs \o more)
         /\ NonCnIPs(rs) \subseteq NonCnIPs(rs \o more)
<1>1. rs \o more \in Seq(PolicyResult)
  BY ConcatProperties
<1>2. ASSUME NEW i \in Answers(rs)
      PROVE  i \in Answers(rs \o more) /\ (rs \o more)[i] = rs[i]
  <2>1. i \in 1..Len(rs) /\ rs[i].state = "answer"
    BY DEF Answers, InState
  <2>2. i \in 1..Len(rs \o more) /\ (rs \o more)[i] = rs[i]
    BY <2>1, ConcatProperties, LenProperties
  <2>3. QED
    BY <2>1, <2>2, <1>1, LenProperties DEF Answers, InState
<1>3. ASSUME NEW a \in CnIPs(rs) PROVE a \in CnIPs(rs \o more)
  <2>1. PICK i \in Answers(rs) : rs[i].serverChina /\ a \in rs[i].addrs
    BY Collected, Zenon
  <2>2. i \in Answers(rs \o more) /\ (rs \o more)[i] = rs[i]
    BY <1>2
  <2>3. QED
    BY <1>1, <2>1, <2>2, Collected, Zenon
<1>4. ASSUME NEW a \in NonCnIPs(rs) PROVE a \in NonCnIPs(rs \o more)
  <2>1. PICK i \in Answers(rs) : ~ rs[i].serverChina /\ a \in rs[i].addrs
    BY Collected, Zenon
  <2>2. i \in Answers(rs \o more) /\ (rs \o more)[i] = rs[i]
    BY <1>2
  <2>3. QED
    BY <1>1, <2>1, <2>2, Collected, Zenon
<1>5. QED
  BY <1>1, <1>3, <1>4

\* The claim in earlyStable's comment: once rule 1 applies, later completions
\* can extend the chosen set but never change the branch.
THEOREM Rule1Stable ==
  ASSUME NEW rs \in Seq(PolicyResult), NEW more \in Seq(PolicyResult),
         NEW china, NEW override \in BOOLEAN, Rule1(rs, china)
  PROVE  /\ Rule1(rs \o more, china)
         /\ Select(rs \o more, china, override).policy = Select(rs, china, override).policy
         /\ Select(rs, china, override).addrs \subseteq Select(rs \o more, china, override).addrs
<1>1. Rule1(rs \o more, china)
  BY CollectedMonotone DEF Rule1
<1>2. QED
  BY <1>1, CollectedMonotone DEF Select, SelectResult

-----------------------------------------------------------------------------
\* The owner of an address is the first result, and an answer, that returned
\* it.
LEMMA OwnerFacts ==
  ASSUME NEW rs \in Seq(PolicyResult), NEW a \in AllIPs(rs)
  PROVE  /\ Owner(a, rs) \in Answers(rs)
         /\ a \in rs[Owner(a, rs)].addrs
         /\ \A j \in 1..(Owner(a, rs) - 1) : a \notin rs[j].addrs
<1> DEFINE having == { i \in Answers(rs) : a \in rs[i].addrs }
<1>1. having # {}
  BY Collected, Zenon
<1>2. having \subseteq 1..Len(rs) /\ Len(rs) \in Nat
  BY AnswerFacts, LenProperties
<1>3. \E i \in having : \A j \in having : i <= j
  <2> HIDE DEF having
  <2>1. having \subseteq Nat
    BY <1>2
  <2> QED BY <1>1, <2>1, NatMin
<1>4. Owner(a, rs) \in having /\ \A j \in having : Owner(a, rs) <= j
  BY <1>3, Zenon DEF Owner
<1>5. ASSUME NEW j \in 1..(Owner(a, rs) - 1) PROVE a \notin rs[j].addrs
  <2>1. j \in 1..Len(rs) /\ ~ (Owner(a, rs) <= j)
    <3> DEFINE o == Owner(a, rs)
    <3>1. o \in 1..Len(rs) /\ j \in 1..(o - 1)
      BY <1>2, <1>4, Zenon
    <3> HIDE DEF o
    <3>2. j \in 1..Len(rs) /\ ~ (o <= j)
      BY <1>2, <3>1
    <3>3. QED
      BY <3>2 DEF o
  <2>2. rs[j] \in PolicyResult /\ j \in DOMAIN rs
    BY <2>1, ElementOfSeq, LenProperties
  <2>3. a \in rs[j].addrs => j \in having
    BY <2>2 DEF PolicyResult, Answers, InState
  <2>4. QED
    BY <1>4, <2>1, <2>3
<1>6. QED
  BY <1>4, <1>5

\* SelectTTL returns the TTL of the first owner of a chosen address, and the
\* least of these TTLs; a TTL also when no result has any of the addresses.
THEOREM SelectTTLLeast ==
  ASSUME NEW rs \in Seq(PolicyResult), NEW addrs
  PROVE  /\ SelectTTL(addrs, rs) \in Nat
         /\ addrs \cap AllIPs(rs) # {} => SelectTTL(addrs, rs) \in OwnerTTLs(addrs, rs)
         /\ \A t \in OwnerTTLs(addrs, rs) : SelectTTL(addrs, rs) <= t
<1>1. OwnerTTLs(addrs, rs) \subseteq Nat
  BY OwnerFacts, AnswerFacts DEF OwnerTTLs
<1>2. CASE addrs \cap AllIPs(rs) = {}
  <2>1. OwnerTTLs(addrs, rs) = {}
    BY <1>2 DEF OwnerTTLs
  <2>2. QED
    BY <1>2, <2>1 DEF SelectTTL
<1>3. CASE addrs \cap AllIPs(rs) # {}
  <2>1. OwnerTTLs(addrs, rs) # {}
    BY <1>3 DEF OwnerTTLs
  <2>2. \E t \in OwnerTTLs(addrs, rs) : \A u \in OwnerTTLs(addrs, rs) : t <= u
    BY <1>1, <2>1, NatMin
  <2>3. /\ SelectTTL(addrs, rs) \in OwnerTTLs(addrs, rs)
        /\ \A u \in OwnerTTLs(addrs, rs) : SelectTTL(addrs, rs) <= u
    BY <2>1, <2>2, Zenon DEF SelectTTL
  <2>4. QED
    BY <1>1, <2>3
<1>4. QED
  BY <1>2, <1>3

\* firstSOA returns an SOA or nil.
LEMMA FirstSOAType ==
  ASSUME NEW rs \in Seq(PolicyResult), NEW I, I \subseteq 1..Len(rs)
  PROVE  FirstSOA(rs, I) \in SOA \cup {NoSOA}
<1> DEFINE with == { i \in I : rs[i].soa # NoSOA }
<1>1. CASE with = {}
  BY <1>1 DEF FirstSOA
<1>2. CASE with # {}
  <2>1. with \subseteq Nat /\ with \subseteq 1..Len(rs)
    <3>1. Len(rs) \in Nat
      BY LenProperties
    <3>2. with \subseteq I
      OBVIOUS
    <3> HIDE DEF with
    <3>3. QED
      BY <3>1, <3>2
  <2>2. \E i \in with : \A j \in with : i <= j
    <3> HIDE DEF with
    <3> QED BY <1>2, <2>1, NatMin
  <2>3. PICK i \in with : FirstSOA(rs, I) = rs[i].soa
    BY <1>2, <2>2, Zenon DEF FirstSOA
  <2>4. rs[i] \in PolicyResult
    BY <2>1, ElementOfSeq
  <2>5. QED
    BY <2>3, <2>4 DEF PolicyResult
<1>3. QED
  BY <1>1, <1>2

-----------------------------------------------------------------------------
\* What the channel and the result list hold together is one outcome for each
\* goroutine that has sent, and no other.
SaidOnce ==
  /\ \A i \in DOMAIN Said : chase[Said[i].server] = "sent"
  /\ \A i, j \in DOMAIN Said : Said[i].server = Said[j].server => i = j
  /\ pc = "start" => Said = <<>> /\ \A s \in Server : chase[s] = "idle"

\* The three ways Resolve returns.
ReturnInv ==
  pc = "done" =>
    \/ out = Finalize(snap, results, TRUE) /\ Len(results) = n
    \/ out = Finalize(snap, results, FALSE) /\ (EarlyStable(snap, results) \/ ctxDone)

-----------------------------------------------------------------------------
\* EngineContract speaks of the same results and policy names.
LEMMA ContractNames ==
  /\ Contract!EngineResult = EngineResult
  /\ Contract!ZeroResult = ZeroResult
  /\ Contract!NoPolicy = NoPolicy
  /\ Contract!PolicyOverride = PolicyOverride
  /\ Contract!PolicyPreferChina = PolicyPreferChina
  /\ Contract!PolicyAllNonChina = PolicyAllNonChina
  /\ Contract!PolicyFallbackChina = PolicyFallbackChina
<1>1. /\ Contract!NoPolicy = NoPolicy
      /\ Contract!PolicyOverride = PolicyOverride
      /\ Contract!PolicyPreferChina = PolicyPreferChina
      /\ Contract!PolicyAllNonChina = PolicyAllNonChina
      /\ Contract!PolicyFallbackChina = PolicyFallbackChina
  BY DEF NoPolicy, PolicyOverride, PolicyPreferChina, PolicyAllNonChina, PolicyFallbackChina,
         Contract!NoPolicy, Contract!PolicyOverride, Contract!PolicyPreferChina,
         Contract!PolicyAllNonChina, Contract!PolicyFallbackChina
<1>2. Contract!Policies = Policies /\ Contract!RCodes = RCodes
  BY <1>1 DEF Policies, Contract!Policies, RCodes, Contract!RCodes
<1>3. Contract!EngineResult = EngineResult /\ Contract!ZeroResult = ZeroResult
  BY <1>1, <1>2 DEF EngineResult, Contract!EngineResult, ZeroResult, Contract!ZeroResult
<1>4. QED
  BY <1>1, <1>3

\* finalize returns a well-formed result, classified under the bundle it is
\* given.
LEMMA FinalizeContract ==
  ASSUME NEW a \in Bundle, NEW rs \in Seq(PolicyResult), NEW c \in BOOLEAN
  PROVE  /\ Finalize(a, rs, c) \in EngineResult
         /\ Contract!Shape(Finalize(a, rs, c))
         /\ Contract!Classified(a, Finalize(a, rs, c))
<1> DEFINE sel == Select(rs, a.china, a.override)
           neg == FinalizeNegative(rs)
<1>1. a.override \in BOOLEAN
  BY DEF Bundle
<1>2. CASE Answers(rs) # {}
  <2>1. sel.policy \in Policies /\ sel.addrs # {} /\ sel.addrs \subseteq AllIPs(rs)
    BY <1>1, <1>2, SelectNonempty
  <2>2. sel.addrs \subseteq Addr
    BY <2>1, AllIPsSplit
  <2>3. SelectTTL(sel.addrs, rs) \in Nat
    BY SelectTTLLeast
  <2>4. Finalize(a, rs, c) =
          [complete |-> c, policy |-> sel.policy, addrs |-> sel.addrs,
           rcode |-> "success", soa |-> NoSOA, ttl |-> SelectTTL(sel.addrs, rs)]
    BY <1>2 DEF Finalize
  <2>5. /\ sel.policy = PolicyOverride => a.override /\ sel.addrs \cap a.china = {}
        /\ sel.policy = PolicyPreferChina => ~ a.override /\ sel.addrs \subseteq a.china
        /\ sel.policy = PolicyAllNonChina => sel.addrs \cap a.china = {}
        /\ sel.policy = PolicyFallbackChina => sel.addrs \subseteq a.china
    BY <1>1, SelectClassified
  <2> HIDE DEF sel
  <2>6. Finalize(a, rs, c) \in EngineResult
    BY <2>1, <2>2, <2>3, <2>4 DEF EngineResult, RCodes
  <2>7. sel.policy # NoPolicy
    BY <2>1 DEF Policies, NoPolicy, PolicyOverride, PolicyPreferChina,
                PolicyAllNonChina, PolicyFallbackChina
  <2>8. QED
    BY <2>1, <2>4, <2>5, <2>6, <2>7, ContractNames DEF Contract!Shape, Contract!Classified
<1>3. CASE Answers(rs) = {}
  <2>1. InState(rs, "nxdomain") \subseteq 1..Len(rs) /\ InState(rs, "nodata") \subseteq 1..Len(rs)
    BY LenProperties DEF InState
  <2>2. /\ neg.rcode \in RCodes /\ neg.ok \in BOOLEAN /\ neg.soa \in SOA \cup {NoSOA}
        /\ neg.ok => neg.rcode # "servfail"
    BY <2>1, FirstSOAType DEF FinalizeNegative, NegativeResult, RCodes
  <2>3. Finalize(a, rs, c) =
          [complete |-> c, policy |-> NoPolicy, addrs |-> {},
           rcode |-> IF neg.ok THEN neg.rcode ELSE "servfail",
           soa |-> IF neg.ok THEN neg.soa ELSE NoSOA, ttl |-> 0]
    BY <1>3 DEF Finalize
  <2> DEFINE rc == IF neg.ok THEN neg.rcode ELSE "servfail"
             so == IF neg.ok THEN neg.soa ELSE NoSOA
  <2>4. rc \in RCodes /\ so \in SOA \cup {NoSOA} /\ (rc = "servfail" => so = NoSOA)
    BY <2>2 DEF RCodes
  <2> HIDE DEF rc, so
  <2>5. Finalize(a, rs, c) = [complete |-> c, policy |-> NoPolicy, addrs |-> {},
                              rcode |-> rc, soa |-> so, ttl |-> 0]
    BY <2>3 DEF rc, so
  <2>6. Finalize(a, rs, c) \in EngineResult
    BY <2>4, <2>5 DEF EngineResult
  <2>7. Contract!Shape(Finalize(a, rs, c))
    BY <2>4, <2>5 DEF Contract!Shape
  <2>8. NoPolicy \notin Policies
    BY DEF Policies, NoPolicy, PolicyOverride, PolicyPreferChina,
           PolicyAllNonChina, PolicyFallbackChina
  <2>9. Contract!Classified(a, Finalize(a, rs, c))
    BY <2>5, <2>8, ContractNames DEF Contract!Classified, Policies
  <2>10. QED
    BY <2>6, <2>7, <2>9
<1>4. QED
  BY <1>2, <1>3

\* Every outcome a goroutine may send is a well-formed policy.Result.
LEMMA OutcomeType ==
  ASSUME NEW s \in Server, NEW c \in BOOLEAN, NEW r \in Outcome(s, c)
  PROVE  r \in PolicyResult /\ r.server = s /\ r.serverChina = c
<1>1. CASE r = ChaseResult(s, c, "failure", {}, NoSOA, 0)
  BY <1>1 DEF ChaseResult, PolicyResult, States
<1>2. ASSUME NEW state \in {"nodata", "nxdomain"}, NEW soa \in SOA \cup {NoSOA},
             r = ChaseResult(s, c, state, {}, soa, 0)
      PROVE  r \in PolicyResult /\ r.server = s /\ r.serverChina = c
  BY <1>2 DEF ChaseResult, PolicyResult, States
<1>3. ASSUME NEW addrs \in SUBSET Addr, addrs # {}, NEW ttl \in TTL,
             r = ChaseResult(s, c, "answer", addrs, NoSOA, ttl)
      PROVE  r \in PolicyResult /\ r.server = s /\ r.serverChina = c
  BY <1>3, EngineAssumption DEF ChaseResult, PolicyResult, States
<1>4. \/ r = ChaseResult(s, c, "failure", {}, NoSOA, 0)
      \/ \E state \in {"nodata", "nxdomain"}, soa \in SOA \cup {NoSOA} :
           r = ChaseResult(s, c, state, {}, soa, 0)
      \/ \E addrs \in (SUBSET Addr) \ {{}}, ttl \in TTL :
           r = ChaseResult(s, c, "answer", addrs, NoSOA, ttl)
  BY DEF Outcome, Negatives
<1>5. QED
  BY <1>1, <1>2, <1>3, <1>4

\* Type correctness of Engine.
THEOREM EngineTypeCorrect == Spec => []TypeOK
<1>1. Init => TypeOK
  <2>1. ZeroResult \in EngineResult
    BY DEF EngineResult, ZeroResult, RCodes
  <2>2. <<>> \in Seq(PolicyResult)
    BY EmptySeq
  <2>3. QED
    BY <2>1, <2>2 DEF Init, TypeOK
<1>2. TypeOK /\ [Next]_vars => TypeOK'
  <2> SUFFICES ASSUME TypeOK, [Next]_vars PROVE TypeOK'
    OBVIOUS
  <2>1. CASE UpdateAssets
    BY <2>1 DEF TypeOK, UpdateAssets
  <2>2. CASE Begin
    BY <2>2 DEF TypeOK, Begin
  <2>3. ASSUME NEW s \in Server, ChaseReturn(s) PROVE TypeOK'
    <3>1. PICK r \in Outcome(s, inChina[s]) : ch' = Append(ch, r)
      BY <2>3 DEF ChaseReturn
    <3>2. inChina[s] \in BOOLEAN
      BY EngineAssumption
    <3>3. ch' \in Seq(PolicyResult)
      BY <3>1, <3>2, OutcomeType, AppendProperties DEF TypeOK
    <3>4. QED
      BY <2>3, <3>3 DEF TypeOK, ChaseReturn
  <2>4. CASE Receive
    <3>1. ch' \in Seq(PolicyResult) /\ results' \in Seq(PolicyResult)
      BY <2>4, HeadTailProperties, AppendProperties DEF TypeOK, Receive
    <3>2. pc' \in {"start", "collect", "done"} /\ out' \in EngineResult
      BY <2>4, <3>1, FinalizeContract, BundlesAssumption DEF TypeOK, Receive, Return
    <3>3. QED
      BY <2>4, <3>1, <3>2 DEF TypeOK, Receive
  <2>5. CASE GiveUp
    <3>1. out' \in EngineResult
      BY <2>5, FinalizeContract, BundlesAssumption DEF TypeOK, GiveUp, Return
    <3>2. QED
      BY <2>5, <3>1 DEF TypeOK, GiveUp, Return
  <2>6. CASE Deadline
    BY <2>6 DEF TypeOK, Deadline
  <2>7. CASE UNCHANGED vars
    BY <2>7 DEF TypeOK, vars
  <2>8. QED
    BY <2>1, <2>2, <2>3, <2>4, <2>5, <2>6, <2>7 DEF Next
<1>3. QED
  BY <1>1, <1>2, PTL DEF Spec

-----------------------------------------------------------------------------
\* earlyStable tests exactly the condition of Select's rule 1.
LEMMA EarlyStableIsRule1 ==
  ASSUME NEW a \in Bundle, NEW rs \in Seq(PolicyResult)
  PROVE  EarlyStable(a, rs) <=> Rule1(rs, a.china)
<1>1. (CnIPs(rs) \cap a.china # {}) <=>
        \E i \in Answers(rs) : \E x \in rs[i].addrs : rs[i].serverChina /\ x \in a.china
  BY Collected, Zenon
<1>2. (NonCnIPs(rs) \ a.china # {}) <=>
        \E i \in Answers(rs) : \E x \in rs[i].addrs : ~ rs[i].serverChina /\ x \notin a.china
  BY Collected, Zenon
<1>3. QED
  BY <1>1, <1>2, Zenon DEF EarlyStable, Rule1

\* Resolve returns the finalized results it has: all of them, or those so far
\* once rule 1 is decided or the deadline has passed.
LEMMA ReturnInvariant == Spec => []ReturnInv
<1>1. Init => ReturnInv
  BY DEF Init, ReturnInv
<1>2. ReturnInv /\ [Next]_vars => ReturnInv'
  <2> SUFFICES ASSUME ReturnInv, [Next]_vars PROVE ReturnInv'
    OBVIOUS
  <2> USE DEF ReturnInv
  <2>1. CASE UpdateAssets
    BY <2>1 DEF UpdateAssets
  <2>2. CASE Begin
    BY <2>2 DEF Begin
  <2>3. ASSUME NEW s \in Server, ChaseReturn(s) PROVE ReturnInv'
    BY <2>3 DEF ChaseReturn
  <2>4. CASE Receive
    BY <2>4 DEF Receive, Return
  <2>5. CASE GiveUp
    BY <2>5 DEF GiveUp, Return
  <2>6. CASE Deadline
    BY <2>6 DEF Deadline
  <2>7. CASE UNCHANGED vars
    BY <2>7 DEF vars
  <2>8. QED
    BY <2>1, <2>2, <2>3, <2>4, <2>5, <2>6, <2>7 DEF Next
<1>3. QED
  BY <1>1, <1>2, PTL DEF Spec

\* Resolve's early return is stable: what it did not wait for cannot change
\* the branch, only extend the chosen addresses.
THEOREM EarlyReturnStable == Spec => []EarlyReturnIsStable
<1>1. TypeOK /\ ReturnInv => EarlyReturnIsStable
  <2> SUFFICES ASSUME TypeOK, ReturnInv, pc = "done", ~ out.complete,
                      ~ ctxDone \/ out.policy \in {PolicyOverride, PolicyPreferChina}
               PROVE  LET all == Select(Said, snap.china, snap.override)
                      IN  all.policy = out.policy /\ out.addrs \subseteq all.addrs
    BY DEF EarlyReturnIsStable
  <2> DEFINE sel == Select(results, snap.china, snap.override)
  <2>1. /\ snap \in Bundle /\ snap.override \in BOOLEAN
        /\ results \in Seq(PolicyResult) /\ ch \in Seq(PolicyResult)
    BY BundlesAssumption DEF TypeOK, Bundle
  <2>2. /\ out = Finalize(snap, results, FALSE)
        /\ EarlyStable(snap, results) \/ ctxDone
    <3>1. Finalize(snap, results, TRUE).complete
      BY DEF Finalize
    <3>2. QED
      BY <3>1 DEF ReturnInv
  <2>3. Rule1(results, snap.china)
    <3>1. CASE EarlyStable(snap, results)
      BY <2>1, <3>1, EarlyStableIsRule1
    <3>2. CASE out.policy \in {PolicyOverride, PolicyPreferChina}
      <4>1. out.policy = sel.policy
        BY <2>2, <3>2 DEF Finalize, NoPolicy, PolicyOverride, PolicyPreferChina
      <4>2. QED
        BY <3>2, <4>1 DEF Select, SelectResult, PolicyOverride, PolicyPreferChina,
                          PolicyAllNonChina, PolicyFallbackChina
    <3>3. QED
      BY <2>2, <3>1, <3>2
  <2>4. Answers(results) # {}
    <3>1. CnIPs(results) # {}
      BY <2>3 DEF Rule1
    <3>2. QED
      BY <2>1, <3>1, AllIPsSplit
  <2>5. out.policy = sel.policy /\ out.addrs = sel.addrs
    BY <2>2, <2>4 DEF Finalize
  <2>6. QED
    BY <2>1, <2>3, <2>5, Rule1Stable DEF Said
<1>2. QED
  BY <1>1, EngineTypeCorrect, ReturnInvariant, PTL

\* A partial success is never turned into SERVFAIL.
THEOREM PartialSuccess == Spec => []PartialSuccessSurvives
<1>1. TypeOK /\ ReturnInv => PartialSuccessSurvives
  <2> SUFFICES ASSUME TypeOK, ReturnInv, pc = "done"
               PROVE  /\ Answers(results) # {} <=> out.addrs # {}
                      /\ Answers(results) # {} => out.rcode = "success"
                      /\ out.rcode = "servfail" =>
                           (InState(results, "nxdomain") = {}) <=> (InState(results, "nodata") = {})
    BY DEF PartialSuccessSurvives
  <2> DEFINE sel == Select(results, snap.china, snap.override)
  <2>1. snap.override \in BOOLEAN /\ results \in Seq(PolicyResult)
    BY BundlesAssumption DEF TypeOK, Bundle
  <2>2. PICK c \in BOOLEAN : out = Finalize(snap, results, c)
    BY DEF ReturnInv
  <2>3. CASE Answers(results) # {}
    <3>1. out.addrs = sel.addrs /\ out.rcode = "success"
      BY <2>2, <2>3 DEF Finalize
    <3>2. QED
      BY <2>1, <2>3, <3>1, SelectNonempty
  <2>4. CASE Answers(results) = {}
    BY <2>2, <2>4 DEF Finalize, FinalizeNegative, NegativeResult
  <2>5. QED
    BY <2>3, <2>4
<1>2. QED
  BY <1>1, EngineTypeCorrect, ReturnInvariant, PTL

\* The fan-out implements EngineContract: the result of a call is classified
\* under the bundle that was current when the call began.
THEOREM ImplementsContract == Spec => MeetsContract
<1> DEFINE phase == CASE pc = "start" -> "waiting" [] pc = "collect" -> "running"
                      [] pc = "done" -> "returned"
           CStep == [Contract!CNext]_(Contract!cvars)
<1>1. Init => Contract!CInit
  BY ContractNames DEF Init, Contract!CInit
<1>2. TypeOK /\ [Next]_vars => CStep
  <2> SUFFICES ASSUME TypeOK, [Next]_vars PROVE CStep
    OBVIOUS
  <2>0. /\ pc = "start" => phase = "waiting"
        /\ pc = "collect" => phase = "running"
        /\ pc' = "collect" => phase' = "running"
        /\ pc' = "done" => phase' = "returned"
        /\ pc' = pc => phase' = phase
    OBVIOUS
  <2>1. CASE UpdateAssets
    BY <2>0, <2>1 DEF UpdateAssets, Contract!CNext, Contract!CReload
  <2>2. CASE Begin
    BY <2>0, <2>2 DEF Begin, Contract!CNext, Contract!CBegin
  <2>3. ASSUME UNCHANGED <<assets, pc, snap, out>> PROVE CStep
    BY <2>0, <2>3 DEF Contract!cvars
  <2>4. ASSUME NEW rs \in Seq(PolicyResult), NEW c \in BOOLEAN, pc = "collect",
               Return(snap, rs, c), UNCHANGED <<assets, snap>>
        PROVE  CStep
    <3>1. snap \in Bundle
      BY BundlesAssumption DEF TypeOK
    <3>2. /\ out' \in Contract!EngineResult
          /\ Contract!Shape(out')
          /\ Contract!Classified(snap, out')
      BY <2>4, <3>1, FinalizeContract, ContractNames DEF Return
    <3>3. QED
      BY <2>0, <2>4, <3>2 DEF Return, Contract!CNext, Contract!CReturn
  <2>5. CASE Receive
    <3>1. results' \in Seq(PolicyResult)
      BY <2>5, HeadTailProperties, AppendProperties DEF TypeOK, Receive
    <3>2. CASE UNCHANGED <<pc, out>>
      BY <2>3, <2>5, <3>2 DEF Receive
    <3>3. CASE \E c \in BOOLEAN : Return(snap, results', c)
      BY <2>4, <2>5, <3>1, <3>3 DEF Receive
    <3>4. QED
      BY <2>5, <3>2, <3>3 DEF Receive
  <2>6. CASE GiveUp
    BY <2>4, <2>6 DEF GiveUp, TypeOK
  <2>7. CASE (\E s \in Server : ChaseReturn(s)) \/ Deadline \/ UNCHANGED vars
    BY <2>3, <2>7 DEF ChaseReturn, Deadline, vars
  <2>8. QED
    BY <2>1, <2>2, <2>5, <2>6, <2>7 DEF Next
<1>3. QED
  BY <1>1, <1>2, EngineTypeCorrect, PTL DEF Spec, MeetsContract, Contract!CSpec

\* TTLOfAnOwner: the TTL served is the least of those of the first owners of
\* the addresses served, and one of them.
THEOREM OwnerTTL == Spec => []TTLOfAnOwner
<1> DEFINE Owns(i, x) == /\ x \in results[i].addrs
                         /\ \A j \in 1..(i - 1) : x \notin results[j].addrs
<1>1. TypeOK /\ ReturnInv => TTLOfAnOwner
  <2> SUFFICES ASSUME TypeOK, ReturnInv, pc = "done", out.addrs # {}
               PROVE  /\ \A x \in out.addrs : \E i \in DOMAIN results :
                           Owns(i, x) /\ out.ttl <= results[i].minTTL
                      /\ \E x \in out.addrs, i \in DOMAIN results :
                           Owns(i, x) /\ out.ttl = results[i].minTTL
    BY DEF TTLOfAnOwner
  <2> DEFINE sel == Select(results, snap.china, snap.override)
  <2>1. snap.override \in BOOLEAN /\ results \in Seq(PolicyResult)
    BY BundlesAssumption DEF TypeOK, Bundle
  <2>2. PICK c \in BOOLEAN : out = Finalize(snap, results, c)
    BY DEF ReturnInv
  <2>3. Answers(results) # {} /\ out.addrs = sel.addrs /\ out.ttl = SelectTTL(sel.addrs, results)
    BY <2>2 DEF Finalize
  <2>4. sel.addrs \subseteq AllIPs(results)
    BY <2>1, <2>3, SelectNonempty
  <2> HIDE DEF sel
  <2>5. \A x \in sel.addrs : /\ Owner(x, results) \in DOMAIN results
                             /\ Owns(Owner(x, results), x)
                             /\ results[Owner(x, results)].minTTL \in OwnerTTLs(sel.addrs, results)
    BY <2>1, <2>4, OwnerFacts DEF Answers, InState, OwnerTTLs
  <2>6. /\ out.ttl \in OwnerTTLs(sel.addrs, results)
        /\ \A t \in OwnerTTLs(sel.addrs, results) : out.ttl <= t
    BY <2>1, <2>3, <2>4, SelectTTLLeast
  <2>7. PICK x \in sel.addrs : out.ttl = results[Owner(x, results)].minTTL
    BY <2>6 DEF OwnerTTLs
  <2> HIDE DEF Owns
  <2>8. QED
    BY <2>3, <2>5, <2>6, <2>7
<1>2. QED
  BY <1>1, EngineTypeCorrect, ReturnInvariant, PTL

-----------------------------------------------------------------------------
\* Receiving an outcome moves it from the channel to the results and leaves
\* what the upstreams have said as it is; sending one appends it.
LEMMA SaidMoves ==
  ASSUME NEW S, NEW rs \in Seq(S), NEW c \in Seq(S)
  PROVE  /\ c # <<>> => Append(rs, Head(c)) \o Tail(c) = rs \o c
         /\ \A r \in S : rs \o Append(c, r) = Append(rs \o c, r)
<1>1. ASSUME c # <<>> PROVE Append(rs, Head(c)) \o Tail(c) = rs \o c
  <2>1. Head(c) \in S /\ Tail(c) \in Seq(S) /\ <<Head(c)>> \in Seq(S)
    BY <1>1, HeadTailProperties
  <2>2. <<Head(c)>> \o Tail(c) = c
    BY <1>1
  <2>3. Append(rs, Head(c)) = rs \o <<Head(c)>>
    BY <2>1, AppendIsConcat
  <2>4. QED
    BY <2>1, <2>2, <2>3, ConcatAssociative
<1>2. ASSUME NEW r \in S PROVE rs \o Append(c, r) = Append(rs \o c, r)
  <2>1. <<r>> \in Seq(S) /\ rs \o c \in Seq(S)
    BY ConcatProperties
  <2>2. Append(c, r) = c \o <<r>> /\ Append(rs \o c, r) = (rs \o c) \o <<r>>
    BY <2>1, AppendIsConcat
  <2>3. QED
    BY <2>1, <2>2, ConcatAssociative
<1>3. QED
  BY <1>1, <1>2

\* No goroutine sends twice.
LEMMA SaidOnceInvariant == Spec => []SaidOnce
<1>1. Init => SaidOnce
  <2> SUFFICES ASSUME Init PROVE SaidOnce
    OBVIOUS
  <2>1. Said = <<>>
    BY DEF Init, Said
  <2>2. \A s \in Server : chase[s] = "idle"
    BY DEF Init
  <2>3. QED
    BY <2>1, <2>2 DEF SaidOnce
<1>2. TypeOK /\ SaidOnce /\ [Next]_vars => SaidOnce'
  <2> SUFFICES ASSUME TypeOK, SaidOnce, [Next]_vars PROVE SaidOnce'
    OBVIOUS
  <2>1. results \in Seq(PolicyResult) /\ ch \in Seq(PolicyResult) /\ Said \in Seq(PolicyResult)
    BY ConcatProperties DEF TypeOK, Said
  <2>2. ASSUME UNCHANGED <<chase, results, ch>>, pc' = "start" => pc = "start"
        PROVE  SaidOnce'
    BY <2>2 DEF SaidOnce, Said
  <2>3. CASE Begin
    <3>1. Said = <<>> /\ Said' = Said /\ pc' # "start"
      BY <2>3 DEF Begin, SaidOnce, Said
    <3>2. QED
      BY <3>1 DEF SaidOnce
  <2>4. ASSUME NEW s \in Server, ChaseReturn(s) PROVE SaidOnce'
    <3>1. PICK r \in Outcome(s, inChina[s]) : ch' = Append(ch, r)
      BY <2>4 DEF ChaseReturn
    <3>2. r \in PolicyResult /\ r.server = s
      BY OutcomeType, EngineAssumption
    <3>3. Said' = Append(Said, r)
      BY <2>1, <2>4, <3>1, <3>2, SaidMoves DEF Said, ChaseReturn
    <3>4. /\ Len(Said) \in Nat
          /\ DOMAIN Said = 1..Len(Said)
          /\ DOMAIN Said' = 1..(Len(Said) + 1)
          /\ \A i \in DOMAIN Said : Said'[i] = Said[i]
          /\ Said'[Len(Said) + 1] = r
      BY <2>1, <3>2, <3>3, AppendProperties, LenProperties
    <3>5. \A i \in DOMAIN Said : chase[Said[i].server] = "sent" /\ Said[i].server \in Server
      <4>1. ASSUME NEW i \in DOMAIN Said PROVE Said[i] \in PolicyResult
        BY <2>1, <3>4, ElementOfSeq
      <4>2. QED
        BY <4>1 DEF SaidOnce, PolicyResult
    <3>6. chase[s] = "running" /\ chase' = [chase EXCEPT ![s] = "sent"] /\ pc' = pc
      BY <2>4 DEF ChaseReturn
    <3>7. pc' # "start"
      BY <3>6 DEF SaidOnce
    <3>8. \A i \in DOMAIN Said' : chase'[Said'[i].server] = "sent"
      BY <3>2, <3>4, <3>5, <3>6 DEF TypeOK
    <3>9. \A i, j \in DOMAIN Said' : Said'[i].server = Said'[j].server => i = j
      BY <3>2, <3>4, <3>5, <3>6 DEF SaidOnce
    <3>10. QED
      BY <3>7, <3>8, <3>9 DEF SaidOnce
  <2>5. CASE Receive
    <3>1. Said' = Said
      BY <2>1, <2>5, SaidMoves DEF Said, Receive
    <3>2. pc' # "start" /\ chase' = chase
      BY <2>5 DEF Receive, Return
    <3>3. QED
      BY <3>1, <3>2 DEF SaidOnce
  <2>6. CASE UpdateAssets \/ GiveUp \/ Deadline \/ UNCHANGED vars
    BY <2>2, <2>6 DEF UpdateAssets, GiveUp, Return, Deadline, vars
  <2>7. QED
    BY <2>3, <2>4, <2>5, <2>6 DEF Next
<1>3. QED
  BY <1>1, <1>2, EngineTypeCorrect, PTL DEF Spec

\* The server of each outcome: an injection from the outcomes said.
LEMMA SaidInjection ==
  ASSUME TypeOK, SaidOnce, NEW T, \A i \in DOMAIN Said : Said[i].server \in T, IsFiniteSet(T)
  PROVE  /\ Len(Said) \in Nat /\ Len(Said) <= Cardinality(T)
         /\ Len(Said) = Cardinality(T) => { Said[i].server : i \in DOMAIN Said } = T
<1> DEFINE f == [i \in 1..Len(Said) |-> Said[i].server]
<1>1. Said \in Seq(PolicyResult)
  BY ConcatProperties DEF TypeOK, Said
<1>2. Len(Said) \in Nat /\ DOMAIN Said = 1..Len(Said)
  BY <1>1, LenProperties
<1>3. f \in Injection(1..Len(Said), T)
  <2>1. f \in [1..Len(Said) -> T]
    BY <1>2
  <2>2. \A i, j \in 1..Len(Said) : Said[i].server = Said[j].server => i = j
    BY <1>2 DEF SaidOnce
  <2>3. \A i, j \in 1..Len(Said) : f[i] = f[j] => i = j
    BY <2>2
  <2> HIDE DEF f
  <2>4. QED
    BY <2>1, <2>3 DEF Injection, IsInjective
<1>4. Cardinality(1..Len(Said)) = Len(Said)
  BY <1>2, FS_Interval
<1>5. /\ Len(Said) <= Cardinality(T)
      /\ Len(Said) = Cardinality(T) => f \in Surjection(1..Len(Said), T)
  <2> HIDE DEF f
  <2> QED BY <1>3, <1>4, FS_Injection
<1>6. ASSUME f \in Surjection(1..Len(Said), T)
      PROVE  { Said[i].server : i \in DOMAIN Said } = T
  BY <1>2, <1>6 DEF Surjection
<1>7. QED
  BY <1>2, <1>5, <1>6

\* No goroutine of the fan-out ever blocks on the channel, also when Resolve
\* has already returned: none is leaked.
THEOREM NoBlockedSend == Spec => []SendNeverBlocks
<1>1. TypeOK /\ SaidOnce => SendNeverBlocks
  <2> SUFFICES ASSUME TypeOK, SaidOnce, NEW s \in Server, chase[s] = "running"
               PROVE  Len(ch) < ChanCap
    BY DEF SendNeverBlocks
  <2>1. IsFiniteSet(Server \ {s}) /\ Cardinality(Server \ {s}) = n - 1 /\ n \in Nat
    BY EngineAssumption, FS_RemoveElement, FS_CardinalityType DEF n
  <2>2. Said \in Seq(PolicyResult)
    BY ConcatProperties DEF TypeOK, Said
  <2>3. ASSUME NEW i \in DOMAIN Said PROVE Said[i].server \in Server \ {s}
    <3>1. Said[i] \in PolicyResult
      BY <2>2, LenProperties, ElementOfSeq
    <3>2. QED
      BY <3>1 DEF SaidOnce, PolicyResult
  <2>4. Len(Said) \in Nat /\ Len(Said) <= n - 1
    BY <2>1, <2>3, SaidInjection
  <2>5. Len(Said) = Len(results) + Len(ch) /\ Len(results) \in Nat /\ Len(ch) \in Nat
    BY ConcatProperties, LenProperties DEF TypeOK, Said
  <2>6. QED
    BY <2>1, <2>4, <2>5 DEF ChanCap
<1>2. QED
  BY <1>1, EngineTypeCorrect, SaidOnceInvariant, PTL

\* A complete result accounts for every upstream, and is negative only on
\* their consensus.
THEOREM CompleteConsensus == Spec => []CompleteIsConsensus
<1>1. TypeOK /\ SaidOnce /\ ReturnInv => CompleteIsConsensus
  <2> SUFFICES ASSUME TypeOK, SaidOnce, ReturnInv, pc = "done", out.complete
               PROVE  CompleteIsConsensus
    BY DEF CompleteIsConsensus
  <2>1. out = Finalize(snap, results, TRUE) /\ Len(results) = n
    <3>1. Finalize(snap, results, FALSE).complete = FALSE
      BY DEF Finalize
    <3>2. QED
      BY <3>1 DEF ReturnInv
  <2>2. results \in Seq(PolicyResult) /\ ch \in Seq(PolicyResult) /\ Said \in Seq(PolicyResult)
    BY ConcatProperties DEF TypeOK, Said
  <2>3. ASSUME NEW i \in DOMAIN Said PROVE Said[i].server \in Server
    <3>1. Said[i] \in PolicyResult
      BY <2>2, LenProperties, ElementOfSeq
    <3>2. QED
      BY <3>1 DEF PolicyResult
  <2>4. /\ Len(Said) <= n
        /\ Len(Said) = n => { Said[i].server : i \in DOMAIN Said } = Server
    BY <2>3, EngineAssumption, SaidInjection DEF n
  <2>5. Said = results
    <3>1. Len(Said) = Len(results) + Len(ch) /\ Len(results) \in Nat /\ Len(ch) \in Nat
      BY <2>2, ConcatProperties, LenProperties DEF Said
    <3>2. n \in Nat
      BY EngineAssumption, FS_CardinalityType DEF n
    <3>3. ch = <<>>
      BY <2>1, <2>2, <2>4, <3>1, <3>2, EmptySeq
    <3>4. QED
      BY <2>2, <3>3, ConcatEmptySeq DEF Said
  <2>6. { results[i].server : i \in DOMAIN results } = Server
    BY <2>1, <2>4, <2>5
  <2>7. ASSUME out.addrs = {}, out.rcode # "servfail"
        PROVE  \E state \in {"nxdomain", "nodata"} :
                 /\ \A i \in DOMAIN results : results[i].state \in {"failure", state}
                 /\ InState(results, state) # {}
                 /\ out.rcode = IF state = "nxdomain" THEN "nxdomain" ELSE "success"
    <3>1. Answers(results) = {}
      <4>1. snap.override \in BOOLEAN
        BY BundlesAssumption DEF TypeOK, Bundle
      <4>2. Answers(results) # {} => out.addrs # {}
        BY <2>1, <2>2, <4>1, SelectNonempty DEF Finalize
      <4>3. QED
        BY <2>7, <4>2
    <3>2. \A i \in DOMAIN results : results[i].state \in States \ {"answer"}
      <4>1. ASSUME NEW i \in DOMAIN results PROVE results[i] \in PolicyResult
        BY <2>2, LenProperties, ElementOfSeq
      <4>2. QED
        BY <3>1, <4>1 DEF PolicyResult, Answers, InState
    <3>3. CASE InState(results, "nxdomain") # {} /\ InState(results, "nodata") = {}
      <4>1. out.rcode = "nxdomain"
        BY <2>1, <3>1, <3>3 DEF Finalize, FinalizeNegative, NegativeResult
      <4>2. \A i \in DOMAIN results : results[i].state \in {"failure", "nxdomain"}
        BY <3>2, <3>3 DEF States, InState
      <4>3. QED
        BY <3>3, <4>1, <4>2
    <3>4. CASE InState(results, "nxdomain") = {} /\ InState(results, "nodata") # {}
      <4>1. out.rcode = "success"
        BY <2>1, <3>1, <3>4 DEF Finalize, FinalizeNegative, NegativeResult
      <4>2. \A i \in DOMAIN results : results[i].state \in {"failure", "nodata"}
        BY <3>2, <3>4 DEF States, InState
      <4>3. QED
        BY <3>4, <4>1, <4>2
    <3>5. QED
      BY <2>1, <2>7, <3>1, <3>3, <3>4 DEF Finalize, FinalizeNegative, NegativeResult
  <2>8. QED
    BY <2>6, <2>7 DEF CompleteIsConsensus
<1>2. QED
  BY <1>1, EngineTypeCorrect, SaidOnceInvariant, ReturnInvariant, PTL

-----------------------------------------------------------------------------
\* What the upstreams' outcomes look like to Select does not depend on the order
\* they are in.
LEMMA SameCollected ==
  ASSUME NEW rs \in Seq(PolicyResult), NEW ts \in Seq(PolicyResult),
         \A i \in DOMAIN rs : \E j \in DOMAIN ts : ts[j] = rs[i]
  PROVE  /\ AllIPs(rs) \subseteq AllIPs(ts) /\ CnIPs(rs) \subseteq CnIPs(ts) /\ NonCnIPs(rs) \subseteq NonCnIPs(ts)
         /\ \A state : InState(ts, state) = {} => InState(rs, state) = {}
<1>1. ASSUME NEW i \in Answers(rs) PROVE \E j \in Answers(ts) : ts[j] = rs[i]
  BY DEF Answers, InState
<1>2. ASSUME NEW a \in AllIPs(rs) PROVE a \in AllIPs(ts)
  BY <1>1, Collected
<1>3. ASSUME NEW a \in CnIPs(rs) PROVE a \in CnIPs(ts)
  BY <1>1, Collected
<1>4. ASSUME NEW a \in NonCnIPs(rs) PROVE a \in NonCnIPs(ts)
  BY <1>1, Collected
<1>5. ASSUME NEW state, InState(ts, state) = {} PROVE InState(rs, state) = {}
  BY <1>5 DEF InState
<1> QED BY <1>2, <1>3, <1>4, <1>5

\* The order in which the outcomes of the upstreams arrive does not matter: the
\* same outcomes give the same branch, the same addresses and the same rcode.
\* (The SOA and the TTL are those of the first that has one.)
THEOREM ArrivalOrderFree ==
  ASSUME NEW rs \in Seq(PolicyResult), NEW ts \in Seq(PolicyResult),
         \A i \in DOMAIN rs : \E j \in DOMAIN ts : ts[j] = rs[i],
         \A j \in DOMAIN ts : \E i \in DOMAIN rs : rs[i] = ts[j],
         NEW a \in Bundle, NEW c \in BOOLEAN
  PROVE  /\ Finalize(a, rs, c).policy = Finalize(a, ts, c).policy
         /\ Finalize(a, rs, c).addrs = Finalize(a, ts, c).addrs
         /\ Finalize(a, rs, c).rcode = Finalize(a, ts, c).rcode
<1>1. /\ AllIPs(rs) \subseteq AllIPs(ts) /\ CnIPs(rs) \subseteq CnIPs(ts) /\ NonCnIPs(rs) \subseteq NonCnIPs(ts)
      /\ \A state : InState(ts, state) = {} => InState(rs, state) = {}
  BY SameCollected
<1>2. /\ AllIPs(ts) \subseteq AllIPs(rs) /\ CnIPs(ts) \subseteq CnIPs(rs) /\ NonCnIPs(ts) \subseteq NonCnIPs(rs)
      /\ \A state : InState(rs, state) = {} => InState(ts, state) = {}
  BY SameCollected
<1>3. AllIPs(rs) = AllIPs(ts) /\ CnIPs(rs) = CnIPs(ts) /\ NonCnIPs(rs) = NonCnIPs(ts)
  BY <1>1, <1>2
<1>4. Select(rs, a.china, a.override) = Select(ts, a.china, a.override)
  BY <1>3 DEF Select, Rule1
<1>5. (Answers(rs) = {}) <=> (Answers(ts) = {})
  BY <1>1, <1>2 DEF Answers
<1>6. /\ FinalizeNegative(rs).ok = FinalizeNegative(ts).ok
      /\ FinalizeNegative(rs).rcode = FinalizeNegative(ts).rcode
  BY <1>1, <1>2 DEF FinalizeNegative, NegativeResult
<1> QED BY <1>4, <1>5, <1>6 DEF Finalize

-----------------------------------------------------------------------------
\* The answers said have a TTL of an upstream.
SaidTTL == \A i \in DOMAIN Said : Said[i].state = "answer" => Said[i].minTTL \in TTL

\* What is said comes from the chases.
LEMMA SaidTTLInvariant == Spec => []SaidTTL
<1>1. Init => SaidTTL
  BY DEF Init, Said, SaidTTL
<1>2. TypeOK /\ SaidTTL /\ [Next]_vars => SaidTTL'
  <2> SUFFICES ASSUME TypeOK, SaidTTL, [Next]_vars PROVE SaidTTL'
    OBVIOUS
  <2>1. results \in Seq(PolicyResult) /\ ch \in Seq(PolicyResult) /\ Said \in Seq(PolicyResult)
    BY ConcatProperties DEF TypeOK, Said
  <2>2. ASSUME Said' = Said PROVE SaidTTL'
    BY <2>2 DEF SaidTTL
  <2>3. ASSUME NEW s \in Server, ChaseReturn(s) PROVE SaidTTL'
    <3>1. PICK r \in Outcome(s, inChina[s]) : ch' = Append(ch, r)
      BY <2>3 DEF ChaseReturn
    <3>2. r \in PolicyResult
      BY OutcomeType, EngineAssumption
    <3>3. r.state = "answer" => r.minTTL \in TTL
      BY DEF Outcome, Negatives, ChaseResult
    <3>4. Said' = Append(Said, r)
      BY <2>1, <2>3, <3>1, <3>2, SaidMoves DEF Said, ChaseReturn
    <3>5. /\ DOMAIN Said = 1..Len(Said) /\ DOMAIN Said' = 1..(Len(Said) + 1) /\ Len(Said) \in Nat
          /\ \A i \in DOMAIN Said : Said'[i] = Said[i]
          /\ Said'[Len(Said) + 1] = r
      BY <2>1, <3>2, <3>4, AppendProperties, LenProperties
    <3>6. \A i \in DOMAIN Said' : i \in DOMAIN Said \/ i = Len(Said) + 1
      BY <3>5
    <3> QED BY <3>3, <3>5, <3>6 DEF SaidTTL
  <2>4. CASE Receive
    <3>1. Said' = Said
      BY <2>1, <2>4, SaidMoves DEF Said, Receive
    <3> QED BY <2>2, <3>1
  <2>5. CASE UpdateAssets \/ Begin \/ GiveUp \/ Deadline \/ UNCHANGED vars
    <3>1. Said' = Said
      BY <2>5 DEF UpdateAssets, Begin, GiveUp, Deadline, vars, Said
    <3> QED BY <2>2, <3>1
  <2> QED BY <2>3, <2>4, <2>5 DEF Next
<1> QED BY <1>1, <1>2, EngineTypeCorrect, PTL DEF Spec

\* Service's view of the engine.
V == INSTANCE ServiceTypes

\* What Resolve returns is a result that Resolver expects of the engine.
FitsService == pc = "done" => V!Seen(out) \in V!EngineResults

\* Resolver's assumption on the engine is what Engine guarantees: however the
\* call ends, addresses come with the TTL of an answer and without an SOA, and
\* SERVFAIL and negative results come without a TTL.
THEOREM EngineFitsService == Spec => []FitsService
<1>1. TypeOK /\ ReturnInv /\ SaidTTL => FitsService
  <2> SUFFICES ASSUME TypeOK, ReturnInv, SaidTTL, pc = "done" PROVE V!Seen(out) \in V!EngineResults
    BY DEF FitsService
  <2> DEFINE sel == Select(results, snap.china, snap.override)
  <2>1. snap \in Bundle /\ snap.override \in BOOLEAN /\ results \in Seq(PolicyResult) /\ ch \in Seq(PolicyResult)
    BY BundlesAssumption DEF TypeOK, Bundle
  <2>2. PICK c \in BOOLEAN : out = Finalize(snap, results, c)
    BY DEF ReturnInv
  <2>3. out \in EngineResult /\ Contract!Shape(out)
    BY <2>1, <2>2, FinalizeContract
  <2>4. /\ out.addrs # {} => out.rcode = "success" /\ out.soa = NoSOA
        /\ out.addrs = {} => out.ttl = 0
        /\ out.rcode = "servfail" => out.soa = NoSOA
    BY <2>3 DEF Contract!Shape
  <2>5. ASSUME out.addrs # {} PROVE out.ttl \in TTL
    <3>1. Answers(results) # {} /\ out.addrs = sel.addrs /\ out.ttl = SelectTTL(sel.addrs, results)
      BY <2>2, <2>5 DEF Finalize
    <3>2. sel.addrs \subseteq AllIPs(results)
      BY <2>1, <3>1, SelectNonempty
    <3> HIDE DEF sel
    <3>3. sel.addrs \cap AllIPs(results) # {}
      BY <2>5, <3>1, <3>2
    <3>4. out.ttl \in OwnerTTLs(sel.addrs, results)
      BY <2>1, <3>1, <3>3, SelectTTLLeast
    <3>5. PICK i \in Answers(results) : out.ttl = results[i].minTTL
      BY <2>1, <3>4, OwnerFacts DEF OwnerTTLs
    <3>6. i \in 1..Len(results) /\ results[i].state = "answer"
      BY <2>1, AnswerFacts DEF Answers, InState
    <3>7. i \in DOMAIN Said /\ Said[i] = results[i]
      BY <2>1, <3>6, ConcatProperties, LenProperties DEF Said
    <3> QED BY <3>5, <3>6, <3>7 DEF SaidTTL
  <2>6. out.complete \in BOOLEAN /\ out.rcode \in RCodes /\ out.soa \in SOA \cup {NoSOA}
    BY <2>3 DEF EngineResult
  <2> DEFINE k == IF out.rcode = "servfail" THEN "servfail" ELSE IF out.addrs # {} THEN "addrs" ELSE "negative"
  <2>7. /\ k \in {"addrs", "negative", "servfail"} /\ out.ttl \in TTL \cup {0}
        /\ k = "addrs" => out.ttl \in TTL
        /\ k # "addrs" => out.ttl = 0
        /\ out.soa # NoSOA => k = "negative"
    BY <2>4, <2>5
  <2>8. V!Seen(out) = [complete |-> out.complete, kind |-> k, ttl |-> out.ttl, soa |-> out.soa]
    BY DEF V!Seen
  <2> HIDE DEF k
  <2> QED BY <2>6, <2>7, <2>8 DEF V!EngineResults, V!Kinds
<1> QED BY <1>1, EngineTypeCorrect, ReturnInvariant, SaidTTLInvariant, PTL
=============================================================================
