--------------------------- MODULE ResolverProofs ---------------------------
(***************************************************************************)
(* Proofs about Resolver, for any number of concurrent lookups, keys and   *)
(* reloads, any capacity, any clamps and any clock resolution.             *)
(***************************************************************************)
EXTENDS Resolver, CacheProofs

-----------------------------------------------------------------------------
\* What the constants make of an engine result is a value of the cache.
LEMMA ValueOfType ==
  ASSUME NEW r \in EngineResults, NEW l \in Lookup
  PROVE  /\ ValueOf(r, l) \in Value
         /\ ZeroValue(l) \in Value
         /\ ValueOf(r, l).by = l
         /\ ValueOf(r, l).kind = r.kind
BY ValueAssumption DEF ValueOf

\* Type correctness of Resolver.
THEOREM ResolverTypeCorrect == Spec => []TypeOK
<1>1. Init => TypeOK
  <2> SUFFICES ASSUME Init PROVE TypeOK
    OBVIOUS
  <2>1. CacheTypeOK
    BY DEF Init, CacheInit, CacheTypeOK, EmptyMap
  <2>2. NoResult \in EngineResults
    BY DEF NoResult, EngineResults, Kinds
  <2>3. \A l \in Lookup :
          ZeroValue(l) \in Value /\ ZeroValue(l) \in [kind : Kinds, ttl : Nat, by : Lookup]
    BY ValueAssumption
  <2>4. 0 \in 0..MaxReloads
    BY ResolverAssumption
  <2>5. QED
    BY <2>1, <2>2, <2>3, <2>4 DEF Init, TypeOK, Labels, Ret
<1>2. TypeOK /\ [Next]_vars => TypeOK'
  <2> SUFFICES ASSUME TypeOK, [Next]_vars PROVE TypeOK'
    OBVIOUS
  <2> USE DEF flightVars, callVars, reloadVars
  <2>1. ASSUME NEW l \in Lookup, Arrive(l) PROVE TypeOK'
    BY <2>1, ShrinkingSteps DEF TypeOK, Arrive, Goto, Labels
  <2>2. ASSUME NEW l \in Lookup, LookupGet(l) PROVE TypeOK'
    <3>1. key[l] \in Key
      BY DEF TypeOK
    <3>2. CacheTypeOK'
      BY <2>2, <3>1, ShrinkingSteps DEF TypeOK, LookupGet
    <3> DEFINE e == items[key[l]]
               v == [e.value EXCEPT !.ttl = RemainingTTL(e)]
    <3>3. CASE Serve(l, e) /\ Present(key[l])
      <4>1. e \in Entry
        BY <3>3 DEF TypeOK, CacheTypeOK, Present
      <4>2. e.value \in [kind : Kinds, ttl : Nat, by : Lookup]
        BY <4>1, ValueAssumption DEF Entry
      <4>3. RemainingTTL(e) \in Nat
        BY <4>1, CacheAssumption, RemainingTTLRounds, Zenon DEF Entry, RemainingTTL
      <4>4. v \in [kind : Kinds, ttl : Nat, by : Lookup]
        BY <4>2, <4>3
      <4> HIDE DEF v
      <4>5. pc' = [pc EXCEPT ![l] = "done"] /\ ret' = [ret EXCEPT ![l] = [src |-> "cache", v |-> v]]
        BY <3>3 DEF Serve, ReturnValue, Goto, Ret, v
      <4>6. QED
        BY <2>2, <3>2, <4>4, <4>5 DEF TypeOK, LookupGet, Labels
    <3>4. CASE Goto(l, "do") /\ ret' = ret
      BY <2>2, <3>2, <3>4 DEF TypeOK, LookupGet, Goto, Labels
    <3>5. QED
      BY <2>2, <3>3, <3>4 DEF LookupGet
  <2>3. ASSUME NEW l \in Lookup, DoJoin(l) PROVE TypeOK'
    BY <2>3, ShrinkingSteps DEF TypeOK, DoJoin, Goto, Labels
  <2>4. ASSUME NEW l \in Lookup, DoLead(l) PROVE TypeOK'
    BY <2>4, ShrinkingSteps DEF TypeOK, DoLead, Goto, Labels
  <2>5. ASSUME NEW l \in Lookup, EngineBegin(l) PROVE TypeOK'
    BY <2>5, ShrinkingSteps DEF TypeOK, EngineBegin, Goto, Labels
  <2>6. ASSUME NEW l \in Lookup, EngineReturn(l) PROVE TypeOK'
    <3>1. PICK r \in EngineResults :
            /\ result' = [result EXCEPT ![l] = r]
            /\ \/ cacheOn /\ Goto(l, "store") /\ ret' = ret
               \/ ~ cacheOn /\ ReturnValue(l, "own", ValueOf(r, l))
      BY <2>6, Zenon DEF EngineReturn
    <3>2. ValueOf(r, l) \in [kind : Kinds, ttl : Nat, by : Lookup]
      BY ValueOfType, ValueAssumption
    <3>3. CacheTypeOK'
      BY <2>6, ShrinkingSteps DEF TypeOK, EngineReturn
    <3>4. result' \in [Lookup -> EngineResults]
      BY <3>1 DEF TypeOK
    <3>5. pc' \in [Lookup -> Labels]
      BY <3>1 DEF TypeOK, Goto, ReturnValue, Labels
    <3>6. ret' \in [Lookup -> [src : {"none", "cache", "own", "flight", "error"},
                               v : [kind : Kinds, ttl : Nat, by : Lookup]]]
      BY <3>1, <3>2 DEF TypeOK, ReturnValue, Ret
    <3>7. QED
      BY <2>6, <3>3, <3>4, <3>5, <3>6 DEF TypeOK, EngineReturn, flightVars, reloadVars
  <2>7. ASSUME NEW l \in Lookup, DoStore(l) PROVE TypeOK'
    <3>1. key[l] \in Key /\ ValueOf(result[l], l) \in Value
      BY ValueOfType DEF TypeOK
    <3>2. CacheTypeOK'
      BY <2>7, <3>1, ShrinkingSteps, SetLockedEffect DEF TypeOK, DoStore
    <3>3. QED
      BY <2>7, <3>1, <3>2 DEF TypeOK, DoStore, Goto, Labels
  <2>8. ASSUME NEW l \in Lookup, DoClose(l) PROVE TypeOK'
    <3>1. ValueOf(result[l], l) \in [kind : Kinds, ttl : Nat, by : Lookup]
      BY ValueOfType, ValueAssumption DEF TypeOK
    <3>2. QED
      BY <2>8, <3>1, ShrinkingSteps DEF TypeOK, DoClose, Goto, ReturnValue, Ret, Labels
  <2>9. ASSUME NEW l \in Lookup, WaitDone(l) PROVE TypeOK'
    BY <2>9, ShrinkingSteps, ValueAssumption, Zenon DEF TypeOK, WaitDone, Goto, ReturnValue, Ret, Labels
  <2>10. ASSUME NEW l \in Lookup, WaitTimeout(l) PROVE TypeOK'
    BY <2>10, ShrinkingSteps, ValueAssumption, Zenon
       DEF TypeOK, WaitTimeout, Goto, ReturnValue, Ret, Labels
  <2>11. CASE ReloadSwap
    BY <2>11, ShrinkingSteps, ResolverAssumption DEF TypeOK, ReloadSwap
  <2>12. CASE ReloadFlush
    BY <2>12, ShrinkingSteps DEF TypeOK, ReloadFlush, Unfinished
  <2>13. CASE Janitor
    BY <2>13, ShrinkingSteps DEF TypeOK, Janitor
  <2>14. CASE Clock
    BY <2>14, ShrinkingSteps DEF TypeOK, Clock
  <2>15. CASE UNCHANGED vars
    BY <2>15, ShrinkingSteps DEF TypeOK, vars, cacheVars
  <2>16. QED
    BY <2>1, <2>2, <2>3, <2>4, <2>5, <2>6, <2>7, <2>8, <2>9, <2>10, <2>11, <2>12,
       <2>13, <2>14, <2>15 DEF Next, Step
<1>3. QED
  BY <1>1, <1>2, PTL DEF Spec

-----------------------------------------------------------------------------
\* Without a cache no call enters Do; with one none bypasses it.
ModeInv ==
  /\ cacheOn => \A l \in Lookup : pc[l] # "direct"
  /\ ~ cacheOn => /\ \A l \in Lookup : pc[l] \in {"idle", "direct", "engine", "done"}
                  /\ \A k \in Key : flights[k] = NoLookup

\* The flight table and the program counters agree.
LEMMA FlightInvariant == Spec => [](ModeInv /\ OneFlightPerKey)
<1> DEFINE Inv == ModeInv /\ OneFlightPerKey
<1>1. Init => Inv
  BY DEF Init, ModeInv, OneFlightPerKey, Leading
<1>2. TypeOK /\ Inv /\ [Next]_vars => Inv'
  <2> SUFFICES ASSUME TypeOK, Inv, [Next]_vars PROVE Inv'
    OBVIOUS
  <2> USE ResolverAssumption
      DEF flightVars, callVars, reloadVars, ModeInv, OneFlightPerKey, Leading, Goto
  <2>0. /\ pc \in [Lookup -> Labels] /\ key \in [Lookup -> Key]
        /\ flights \in [Key -> Lookup \cup {NoLookup}] /\ cacheOn \in BOOLEAN
    BY DEF TypeOK
  <2>a. ASSUME NEW l \in Lookup, NEW label \in {"do", "done"}, pc[l] \in {"get", "close", "wait"},
               Goto(l, label), UNCHANGED <<flights, key, cacheOn>>
        PROVE  Inv'
    BY <2>0, <2>a
  <2>1. ASSUME NEW l \in Lookup, Arrive(l) PROVE Inv'
    BY <2>0, <2>1 DEF Arrive
  <2>2. ASSUME NEW l \in Lookup, LookupGet(l) PROVE Inv'
    BY <2>a, <2>2 DEF LookupGet, Serve, ReturnValue
  <2>3. ASSUME NEW l \in Lookup, DoJoin(l) PROVE Inv'
    BY <2>0, <2>3 DEF DoJoin
  <2>4. ASSUME NEW l \in Lookup, DoLead(l) PROVE Inv'
    BY <2>0, <2>4 DEF DoLead
  <2>5. ASSUME NEW l \in Lookup, EngineBegin(l) PROVE Inv'
    BY <2>0, <2>5 DEF EngineBegin
  <2>6. ASSUME NEW l \in Lookup, EngineReturn(l) PROVE Inv'
    <3>1. CASE cacheOn /\ Goto(l, "store")
      BY <2>0, <2>6, <3>1 DEF EngineReturn
    <3>2. CASE ~ cacheOn /\ Goto(l, "done")
      BY <2>0, <2>6, <3>2 DEF EngineReturn
    <3>3. QED
      BY <2>6, <3>1, <3>2 DEF EngineReturn, ReturnValue
  <2>7. ASSUME NEW l \in Lookup, DoStore(l) PROVE Inv'
    <3>1. /\ pc[l] = "store" /\ pc' = [pc EXCEPT ![l] = "close"]
          /\ flights' = [flights EXCEPT ![key[l]] = NoLookup]
          /\ key' = key /\ cacheOn' = cacheOn
      BY <2>7 DEF DoStore
    <3>2. cacheOn /\ flights[key[l]] = l
      BY <2>0, <3>1
    <3>3. ModeInv'
      BY <2>0, <3>1, <3>2
    <3>4. OneFlightPerKey'
      <4>1. \A k \in Key : flights'[k] # NoLookup =>
              k # key[l] /\ flights'[k] = flights[k] /\ key[flights[k]] = k /\ flights[k] # l
        BY <2>0, <3>1
      <4>2. \A m \in Lookup : m # l => pc'[m] = pc[m]
        BY <2>0, <3>1
      <4>3. QED
        BY <2>0, <3>1, <3>2, <4>1, <4>2
    <3>5. QED
      BY <3>3, <3>4
  <2>8. ASSUME NEW l \in Lookup, DoClose(l) PROVE Inv'
    BY <2>a, <2>8 DEF DoClose, ReturnValue
  <2>9. ASSUME NEW l \in Lookup, WaitDone(l) \/ WaitTimeout(l) PROVE Inv'
    <3>1. pc[l] = "wait" /\ Goto(l, "done") /\ UNCHANGED <<flights, key, cacheOn>>
      BY <2>9 DEF WaitDone, WaitTimeout, ReturnValue
    <3> HIDE DEF Inv, Goto
    <3>2. QED
      BY <2>a, <3>1
  <2>10. CASE ReloadSwap \/ ReloadFlush \/ Janitor \/ Clock \/ UNCHANGED vars
    <3>1. UNCHANGED <<pc, flights, key, cacheOn>>
      BY <2>10 DEF ReloadSwap, ReloadFlush, Janitor, Clock, vars
    <3>2. QED
      BY <3>1
  <2>11. QED
    BY <2>1, <2>2, <2>3, <2>4, <2>5, <2>6, <2>7, <2>8, <2>9, <2>10, Zenon DEF Next, Step
<1>3. QED
  BY <1>1, <1>2, ResolverTypeCorrect, PTL DEF Spec

\* The singleflight: at most one engine run per key goes through Do.
THEOREM Singleflight == Spec => []OneFlightPerKey
BY FlightInvariant, PTL

-----------------------------------------------------------------------------
\* What no step changes: keys, and what a call that has stored its result or
\* has returned leaves behind.
Frame ==
  /\ key' = key /\ cacheOn' = cacheOn
  /\ closed \subseteq closed'
  /\ \A l \in Lookup : pc[l] \in {"close", "done"} =>
       /\ pc'[l] \in {"close", "done"}
       /\ result'[l] = result[l] /\ loaded'[l] = loaded[l] /\ flightV'[l] = flightV[l]
  /\ \A l \in Lookup : pc[l] = "done" =>
       pc'[l] = "done" /\ ret'[l] = ret[l] /\ joined'[l] = joined[l]

\* Every step respects the frame.
LEMMA CallFrame == TypeOK /\ [Next]_vars => Frame
<1> SUFFICES ASSUME TypeOK, [Next]_vars PROVE Frame
  OBVIOUS
<1> USE DEF Frame, flightVars, callVars, reloadVars, Goto, ReturnValue
<1>0. /\ pc \in [Lookup -> Labels] /\ result \in [Lookup -> EngineResults]
      /\ loaded \in [Lookup -> 0..MaxReloads] /\ flightV \in [Lookup -> Value]
      /\ DOMAIN ret = Lookup /\ joined \in [Lookup -> Lookup \cup {NoLookup}]
  BY DEF TypeOK
<1>1. ASSUME NEW l \in Lookup, Arrive(l) \/ LookupGet(l) \/ DoJoin(l) \/ DoLead(l)
      PROVE  Frame
  BY <1>0, <1>1 DEF Arrive, LookupGet, Serve, DoJoin, DoLead
<1>2. ASSUME NEW l \in Lookup, EngineBegin(l) \/ EngineReturn(l) \/ DoStore(l)
      PROVE  Frame
  BY <1>0, <1>2 DEF EngineBegin, EngineReturn, DoStore
<1>3. ASSUME NEW l \in Lookup, DoClose(l) \/ WaitDone(l) \/ WaitTimeout(l)
      PROVE  Frame
  BY <1>0, <1>3 DEF DoClose, WaitDone, WaitTimeout
<1>4. CASE ReloadSwap \/ ReloadFlush \/ Janitor \/ Clock \/ UNCHANGED vars
  BY <1>4 DEF ReloadSwap, ReloadFlush, Janitor, Clock, vars
<1>5. QED
  BY <1>1, <1>2, <1>3, <1>4 DEF Next, Step

\* What a flight's channel, once closed, guarantees to those who wait for it.
ClosedReturned == \A l \in closed : pc[l] = "done" /\ ret[l].v = flightV[l]

FlightValue ==
  \A l \in Lookup : pc[l] = "close" \/ l \in closed => flightV[l] = ValueOf(result[l], l)

WaitsForKey ==
  \A l \in Lookup : pc[l] = "wait" => joined[l] \in Lookup /\ key[joined[l]] = key[l]

TookFlight ==
  \A l \in Lookup : ret[l].src = "flight" =>
    /\ pc[l] = "done" /\ joined[l] \in closed
    /\ key[joined[l]] = key[l] /\ ret[l].v = flightV[joined[l]]

SharedInv == ClosedReturned /\ FlightValue /\ WaitsForKey /\ TookFlight

\* A waiter returns the value of the call it waited for.
THEOREM WaitersShare == Spec => []WaiterSharesResult
<1>1. Init => SharedInv
  BY DEF Init, SharedInv, ClosedReturned, FlightValue, WaitsForKey, TookFlight, Ret
<1>2. TypeOK /\ OneFlightPerKey /\ SharedInv /\ [Next]_vars => SharedInv'
  <2> SUFFICES ASSUME TypeOK, OneFlightPerKey, SharedInv, [Next]_vars PROVE SharedInv'
    OBVIOUS
  <2> USE DEF flightVars, callVars, reloadVars, Goto, ReturnValue, Ret
  <2>0. /\ pc \in [Lookup -> Labels] /\ key \in [Lookup -> Key]
        /\ flightV \in [Lookup -> Value] /\ closed \subseteq Lookup
        /\ DOMAIN ret = Lookup /\ joined \in [Lookup -> Lookup \cup {NoLookup}]
        /\ flights \in [Key -> Lookup \cup {NoLookup}] /\ DOMAIN result = Lookup
    BY DEF TypeOK
  <2>1. ClosedReturned /\ FlightValue /\ WaitsForKey /\ TookFlight
    BY DEF SharedInv
  <2>2. /\ key' = key /\ closed \subseteq closed'
        /\ \A m \in Lookup : pc[m] \in {"close", "done"} =>
             result'[m] = result[m] /\ flightV'[m] = flightV[m]
        /\ \A m \in Lookup : pc[m] = "done" =>
             pc'[m] = "done" /\ ret'[m] = ret[m] /\ joined'[m] = joined[m]
    BY CallFrame DEF Frame
  \* The parts of the invariant, from what a step leaves alone.
  <2>3. ASSUME closed' = closed PROVE ClosedReturned'
    BY <2>0, <2>1, <2>2, <2>3 DEF ClosedReturned
  <2>4. ASSUME closed' = closed, \A m \in Lookup : pc'[m] = "close" => pc[m] = "close"
        PROVE  FlightValue'
    BY <2>0, <2>1, <2>2, <2>4 DEF FlightValue, ClosedReturned
  <2>5. ASSUME joined' = joined, \A m \in Lookup : pc'[m] = "wait" => pc[m] = "wait"
        PROVE  WaitsForKey'
    BY <2>1, <2>2, <2>5 DEF WaitsForKey
  <2>6. ASSUME NEW m \in Lookup, ret[m].src = "flight"
        PROVE  /\ pc'[m] = "done" /\ joined'[m] \in closed'
               /\ key'[joined'[m]] = key'[m] /\ ret'[m].v = flightV'[joined'[m]]
    <3>1. /\ pc[m] = "done" /\ joined[m] \in closed
          /\ key[joined[m]] = key[m] /\ ret[m].v = flightV[joined[m]]
      BY <2>1, <2>6 DEF TookFlight
    <3>2. joined[m] \in Lookup /\ pc[joined[m]] = "done"
      BY <2>0, <2>1, <3>1 DEF ClosedReturned
    <3>3. QED
      BY <2>2, <3>1, <3>2
  <2>7. ASSUME \A m \in Lookup : ret'[m].src = "flight" => ret[m].src = "flight"
        PROVE  TookFlight'
    BY <2>6, <2>7 DEF TookFlight
  <2>8. ASSUME NEW l \in Lookup, NEW label \in Labels \ {"wait", "close"}, pc' = [pc EXCEPT ![l] = label],
               \/ ret' = ret
               \/ \E v : \E src \in {"cache", "own", "error"} : ret' = [ret EXCEPT ![l] = [src |-> src, v |-> v]],
               closed' = closed, joined' = joined
        PROVE  SharedInv'
    <3>1. \A m \in Lookup : pc'[m] \in {"wait", "close"} => pc'[m] = pc[m]
      BY <2>0, <2>8
    <3>2. \A m \in Lookup : ret'[m].src = "flight" => ret[m].src = "flight"
      BY <2>0, <2>8
    <3>3. QED
      BY <2>3, <2>4, <2>5, <2>7, <2>8, <3>1, <3>2 DEF SharedInv
  <2>9. ASSUME NEW l \in Lookup, Arrive(l) \/ DoLead(l) \/ EngineBegin(l) PROVE SharedInv'
    <3>1. /\ \E label \in Labels \ {"wait", "close"} : pc' = [pc EXCEPT ![l] = label]
          /\ ret' = ret /\ closed' = closed /\ joined' = joined
      BY <2>9 DEF Arrive, DoLead, EngineBegin, Labels
    <3>2. QED
      BY <2>8, <3>1, Zenon
  <2>10. ASSUME NEW l \in Lookup, LookupGet(l) PROVE SharedInv'
    <3>1. /\ \E label \in Labels \ {"wait", "close"} : pc' = [pc EXCEPT ![l] = label]
          /\ closed' = closed /\ joined' = joined
      BY <2>10 DEF LookupGet, Serve, Labels
    <3>2. \/ ret' = ret
          \/ \E v : \E src \in {"cache", "own", "error"} : ret' = [ret EXCEPT ![l] = [src |-> src, v |-> v]]
      BY <2>10 DEF LookupGet, Serve
    <3>3. QED
      BY <2>8, <3>1, <3>2, Zenon
  <2>11. ASSUME NEW l \in Lookup, DoJoin(l) PROVE SharedInv'
    <3>1. /\ pc' = [pc EXCEPT ![l] = "wait"] /\ ret' = ret /\ closed' = closed
          /\ joined' = [joined EXCEPT ![l] = flights[key[l]]] /\ flights[key[l]] \in Lookup
      BY <2>0, <2>11 DEF DoJoin
    <3>2. key[flights[key[l]]] = key[l]
      <4>1. key[l] \in Key /\ flights[key[l]] # NoLookup
        BY <2>0, <3>1, ResolverAssumption
      <4>2. QED
        BY <4>1 DEF OneFlightPerKey
    <3>3. WaitsForKey'
      BY <2>0, <2>1, <2>2, <3>1, <3>2 DEF WaitsForKey
    <3>4. \A m \in Lookup : pc'[m] = "close" => pc[m] = "close"
      BY <2>0, <3>1
    <3>5. QED
      BY <2>3, <2>4, <2>7, <3>1, <3>3, <3>4 DEF SharedInv
  <2>12. ASSUME NEW l \in Lookup, EngineReturn(l) PROVE SharedInv'
    <3>1. /\ \E label \in Labels \ {"wait", "close"} : pc' = [pc EXCEPT ![l] = label]
          /\ closed' = closed /\ joined' = joined
      BY <2>12 DEF EngineReturn, Labels
    <3>2. \/ ret' = ret
          \/ \E v : \E src \in {"cache", "own", "error"} : ret' = [ret EXCEPT ![l] = [src |-> src, v |-> v]]
      BY <2>12, Zenon DEF EngineReturn
    <3>3. QED
      BY <2>8, <3>1, <3>2, Zenon
  <2>13. ASSUME NEW l \in Lookup, DoStore(l) PROVE SharedInv'
    <3>1. /\ pc[l] = "store" /\ pc' = [pc EXCEPT ![l] = "close"] /\ ret' = ret /\ closed' = closed
          /\ joined' = joined /\ result' = result
          /\ flightV' = [flightV EXCEPT ![l] = ValueOf(result[l], l)]
      BY <2>13 DEF DoStore
    <3>2. \A m \in Lookup : pc'[m] = "wait" => pc[m] = "wait"
      BY <2>0, <3>1
    <3>3. ASSUME NEW m \in Lookup, pc'[m] = "close" \/ m \in closed'
          PROVE  flightV'[m] = ValueOf(result'[m], m)
      <4>1. CASE m = l
        BY <2>0, <3>1, <4>1
      <4>2. CASE m # l
        <5>1. flightV'[m] = flightV[m] /\ pc'[m] = pc[m]
          BY <2>0, <3>1, <4>2
        <5>2. QED
          BY <2>1, <3>1, <3>3, <5>1 DEF FlightValue
      <4>3. QED
        BY <4>1, <4>2
    <3>4. FlightValue'
      BY <3>3 DEF FlightValue
    <3>5. QED
      BY <2>3, <2>5, <2>7, <3>1, <3>2, <3>4 DEF SharedInv
  <2>14. ASSUME NEW l \in Lookup, DoClose(l) PROVE SharedInv'
    <3>1. /\ pc[l] = "close" /\ pc' = [pc EXCEPT ![l] = "done"] /\ closed' = closed \cup {l}
          /\ ret' = [ret EXCEPT ![l] = [src |-> "own", v |-> ValueOf(result[l], l)]]
          /\ joined' = joined /\ result' = result /\ flightV' = flightV
      BY <2>14 DEF DoClose
    <3>2. flightV[l] = ValueOf(result[l], l)
      BY <2>1, <3>1 DEF FlightValue
    <3>3. \A m \in Lookup : m # l => pc'[m] = pc[m] /\ ret'[m] = ret[m]
      BY <2>0, <3>1
    <3>4. pc'[l] = "done" /\ ret'[l].v = flightV[l] /\ ret'[l].src = "own"
      BY <2>0, <3>1, <3>2
    <3>5. ClosedReturned'
      BY <2>0, <2>1, <3>1, <3>3, <3>4 DEF ClosedReturned
    <3>6. FlightValue'
      BY <2>0, <2>1, <3>1, <3>2, <3>3 DEF FlightValue
    <3>7. WaitsForKey' /\ TookFlight'
      BY <2>5, <2>7, <3>1, <3>3, <3>4
    <3>8. QED
      BY <3>5, <3>6, <3>7 DEF SharedInv
  <2>15. ASSUME NEW l \in Lookup, WaitDone(l) PROVE SharedInv'
    <3>1. /\ pc[l] = "wait" /\ joined[l] \in closed /\ pc' = [pc EXCEPT ![l] = "done"]
          /\ ret' = [ret EXCEPT ![l] = [src |-> "flight", v |-> flightV[joined[l]]]]
          /\ joined' = joined /\ closed' = closed /\ flightV' = flightV
      BY <2>15 DEF WaitDone
    <3>2. key[joined[l]] = key[l]
      BY <2>1, <3>1 DEF WaitsForKey
    <3>3. pc'[l] = "done" /\ ret'[l].v = flightV'[joined'[l]]
      BY <2>0, <3>1
    <3>4. \A m \in Lookup : m # l => pc'[m] = pc[m] /\ ret'[m] = ret[m]
      BY <2>0, <3>1
    <3>5. TookFlight'
      <4>1. ASSUME NEW m \in Lookup, m # l, ret'[m].src = "flight" PROVE ret[m].src = "flight"
        BY <3>4, <4>1
      <4>2. /\ pc'[l] = "done" /\ joined'[l] \in closed'
            /\ key'[joined'[l]] = key'[l] /\ ret'[l].v = flightV'[joined'[l]]
        BY <2>2, <3>1, <3>2, <3>3
      <4>3. QED
        BY <2>6, <4>1, <4>2 DEF TookFlight
    <3>6. ClosedReturned' /\ FlightValue' /\ WaitsForKey'
      BY <2>3, <2>4, <2>5, <3>1, <3>3, <3>4
    <3>7. QED
      BY <3>5, <3>6 DEF SharedInv
  <2>16. ASSUME NEW l \in Lookup, WaitTimeout(l) PROVE SharedInv'
    <3>1. /\ pc' = [pc EXCEPT ![l] = "done"] /\ closed' = closed /\ joined' = joined
          /\ ret' = [ret EXCEPT ![l] = [src |-> "error", v |-> ZeroValue(l)]]
      BY <2>16 DEF WaitTimeout
    <3>2. QED
      BY <2>8, <3>1, Zenon DEF Labels
  <2>17. CASE ReloadSwap \/ ReloadFlush \/ Janitor \/ Clock \/ UNCHANGED vars
    <3>1. UNCHANGED <<pc, ret, closed, joined>>
      BY <2>17 DEF ReloadSwap, ReloadFlush, Janitor, Clock, vars
    <3>2. QED
      BY <2>3, <2>4, <2>5, <2>7, <3>1 DEF SharedInv
  <2>18. QED
    BY <2>9, <2>10, <2>11, <2>12, <2>13, <2>14, <2>15, <2>16, <2>17 DEF Next, Step
<1>3. TypeOK /\ SharedInv => WaiterSharesResult
  <2> SUFFICES ASSUME TypeOK, SharedInv, NEW l \in Lookup
               PROVE  /\ pc[l] = "wait" => key[joined[l]] = key[l]
                      /\ ret[l].src = "flight" =>
                           /\ key[joined[l]] = key[l]
                           /\ ret[l].v = ValueOf(result[joined[l]], joined[l])
                           /\ ret[l].v = ret[joined[l]].v
    BY DEF WaiterSharesResult
  <2>1. pc[l] = "wait" => key[joined[l]] = key[l]
    BY DEF SharedInv, WaitsForKey
  <2>2. ASSUME ret[l].src = "flight"
        PROVE  /\ joined[l] \in closed /\ key[joined[l]] = key[l]
               /\ ret[l].v = flightV[joined[l]]
    BY <2>2 DEF SharedInv, TookFlight
  <2>3. \A m \in closed : flightV[m] = ValueOf(result[m], m) /\ ret[m].v = flightV[m]
    BY DEF TypeOK, SharedInv, ClosedReturned, FlightValue
  <2>4. QED
    BY <2>1, <2>2, <2>3
<1>4. QED
  BY <1>1, <1>2, <1>3, ResolverTypeCorrect, Singleflight, PTL DEF Spec

-----------------------------------------------------------------------------
\* A waiter's flight is in the hands of a call that runs the engine or is about
\* to close it, or it is closed.
WaiterHasLeader ==
  \A l \in Lookup : pc[l] = "wait" =>
    /\ joined[l] \in Lookup
    /\ pc[joined[l]] \in Leading \cup {"close"} \/ joined[l] \in closed

\* No waiter is forgotten: whoever waits for a flight waits for a call that does
\* not wait itself and has not left Do without closing the channel, so that no
\* calls can wait for each other.
THEOREM NoOrphanedWaiter == Spec => []WaiterHasLeader
<1>1. Init => WaiterHasLeader
  BY DEF Init, WaiterHasLeader
<1>2. TypeOK /\ ModeInv /\ OneFlightPerKey /\ WaiterHasLeader /\ [Next]_vars => WaiterHasLeader'
  <2> SUFFICES ASSUME TypeOK, ModeInv, OneFlightPerKey, WaiterHasLeader, [Next]_vars,
                      NEW w \in Lookup, pc'[w] = "wait"
               PROVE  /\ joined'[w] \in Lookup
                      /\ pc'[joined'[w]] \in Leading \cup {"close"} \/ joined'[w] \in closed'
    BY DEF WaiterHasLeader
  <2> USE DEF flightVars, callVars, reloadVars, Goto, ReturnValue, Leading
  <2>1. /\ pc \in [Lookup -> Labels] /\ key \in [Lookup -> Key] /\ cacheOn \in BOOLEAN
        /\ flights \in [Key -> Lookup \cup {NoLookup}]
        /\ joined \in [Lookup -> Lookup \cup {NoLookup}]
    BY DEF TypeOK
  <2>2. ASSUME NEW l \in Lookup, DoJoin(l), w = l
        PROVE  joined'[w] \in Lookup /\ pc'[joined'[w]] \in Leading
    <3>1. /\ key[l] \in Key /\ flights[key[l]] # NoLookup /\ pc[l] = "do" /\ pc' = [pc EXCEPT ![l] = "wait"]
          /\ joined' = [joined EXCEPT ![l] = flights[key[l]]]
      BY <2>1, <2>2 DEF DoJoin
    <3>2. flights[key[l]] \in Lookup /\ pc[flights[key[l]]] \in Leading
      BY <2>1, <3>1 DEF OneFlightPerKey
    <3> QED BY <2>1, <2>2, <3>1, <3>2
  <2>3. ASSUME \A l \in Lookup : ~ (DoJoin(l) /\ w = l)
        PROVE  pc[w] = "wait" /\ joined'[w] = joined[w]
    <3>1. CASE \E l \in Lookup : DoJoin(l)
      BY <2>1, <2>3, <3>1 DEF DoJoin
    <3>2. CASE ~ \E l \in Lookup : DoJoin(l)
      <4>1. joined' = joined
        BY <3>2 DEF Next, Step, Arrive, LookupGet, DoLead, EngineBegin, EngineReturn, DoStore, DoClose,
                    WaitDone, WaitTimeout, ReloadSwap, ReloadFlush, Janitor, Clock, vars
      <4>2. pc' = pc \/ \E l \in Lookup : \E label \in Labels \ {"wait"} : pc' = [pc EXCEPT ![l] = label]
        BY <3>2 DEF Next, Step, Arrive, LookupGet, Serve, DoLead, EngineBegin, EngineReturn, DoStore, DoClose,
                    WaitDone, WaitTimeout, ReloadSwap, ReloadFlush, Janitor, Clock, vars, Labels
      <4> QED BY <2>1, <4>1, <4>2
    <3> QED BY <3>1, <3>2
  <2>4. ASSUME pc[w] = "wait", NEW m \in Lookup, pc[m] \in Leading \cup {"close"} \/ m \in closed
        PROVE  pc'[m] \in Leading \cup {"close"} \/ m \in closed'
    <3>1. cacheOn /\ closed \subseteq closed'
      BY <2>1, <2>4, CallFrame DEF ModeInv, Frame
    <3>2. CASE pc'[m] = pc[m]
      BY <2>4, <3>1, <3>2
    <3>3. CASE m \in closed
      BY <3>1, <3>3
    <3>4. CASE pc[m] \in Leading \cup {"close"} /\ pc'[m] # pc[m]
      <4>1. ASSUME NEW l \in Lookup, Arrive(l) \/ Step(l) \/ WaitTimeout(l) PROVE l = m
        <5>1. \E label : pc' = [pc EXCEPT ![l] = label]
          BY <4>1 DEF Step, Arrive, LookupGet, Serve, DoJoin, DoLead, EngineBegin, EngineReturn,
                      DoStore, DoClose, WaitDone, WaitTimeout
        <5> QED BY <2>1, <3>4, <5>1
      <4>2. Arrive(m) \/ Step(m) \/ WaitTimeout(m)
        BY <3>4, <4>1 DEF Next, ReloadSwap, ReloadFlush, Janitor, Clock, vars
      <4>3. EngineBegin(m) \/ EngineReturn(m) \/ DoStore(m) \/ DoClose(m)
        BY <3>4, <4>2 DEF Step, Arrive, LookupGet, DoJoin, DoLead, WaitDone, WaitTimeout
      <4> QED BY <2>1, <3>1, <4>3 DEF EngineBegin, EngineReturn, DoStore, DoClose
    <3> QED BY <2>4, <3>2, <3>3, <3>4
  <2>5. CASE \E l \in Lookup : DoJoin(l) /\ w = l
    BY <2>2, <2>5
  <2>6. CASE \A l \in Lookup : ~ (DoJoin(l) /\ w = l)
    <3>1. pc[w] = "wait" /\ joined'[w] = joined[w]
      BY <2>3, <2>6
    <3> QED BY <2>4, <3>1 DEF WaiterHasLeader
  <2> QED BY <2>5, <2>6
<1> QED BY <1>1, <1>2, ResolverTypeCorrect, FlightInvariant, PTL DEF Spec

-----------------------------------------------------------------------------
\* Where an entry of the cache comes from: a call that has stored its
\* cacheable result under its own key.
Sourced(k, e) ==
  LET by == e.value.by
  IN  /\ by \in Lookup /\ key[by] = k
      /\ pc[by] \in {"close", "done"}
      /\ Cacheable(result[by])
      /\ e.value = ValueOf(result[by], by)
      /\ e.left <= Life(e.value)

CachedInv == \A k \in DOMAIN items : Sourced(k, items[k])

\* The steps of Resolver either shrink the cache or store one result.
LEMMA CacheSteps ==
  ASSUME TypeOK, [Next]_vars
  PROVE  \/ OnlyShrinks
         \/ \E l \in Lookup : DoStore(l) /\ Cacheable(result[l])
                              /\ SetLocked(key[l], ValueOf(result[l], l))
<1> USE DEF flightVars, callVars, reloadVars
<1>0. CacheTypeOK /\ \A l \in Lookup : key[l] \in Key
  BY DEF TypeOK
<1>1. ASSUME NEW l \in Lookup, LookupGet(l) PROVE OnlyShrinks
  BY <1>0, <1>1, ShrinkingSteps DEF LookupGet
<1>2. ASSUME NEW l \in Lookup, DoStore(l), ~ Cacheable(result[l]) PROVE OnlyShrinks
  BY <1>0, <1>2, ShrinkingSteps, Zenon DEF DoStore
<1>3. ASSUME UNCHANGED cacheVars PROVE OnlyShrinks
  BY <1>0, <1>3, ShrinkingSteps
<1>4. CASE ReloadFlush \/ Janitor \/ Clock
  BY <1>0, <1>4, ShrinkingSteps DEF ReloadFlush, Janitor, Clock
<1>5. QED
  BY <1>1, <1>2, <1>3, <1>4, Zenon
     DEF Next, Step, Arrive, DoJoin, DoLead, EngineBegin, EngineReturn, DoStore, DoClose,
         WaitDone, WaitTimeout, ReloadSwap, vars, cacheVars

\* CachedInv is an invariant.
LEMMA CachedInvariant == Spec => []CachedInv
<1>1. Init => CachedInv
  BY DEF Init, CacheInit, EmptyMap, CachedInv
<1>2. TypeOK /\ TypeOK' /\ CachedInv /\ [Next]_vars => CachedInv'
  <2> SUFFICES ASSUME TypeOK, TypeOK', CachedInv, [Next]_vars, NEW k \in DOMAIN items'
               PROVE  Sourced(k, items[k])'
    BY DEF CachedInv
  <2>1. Frame
    BY CallFrame
  <2>2. ASSUME NEW x \in DOMAIN items PROVE items[x].left \in Nat /\ Life(items[x].value) \in Nat
    <3>1. items[x].left \in Nat /\ items[x].value \in Value
      BY DEF TypeOK, CacheTypeOK, Entry
    <3>2. QED
      BY <3>1, CacheAssumption DEF Life
  <2>3. items'[k].left \in Nat
    BY DEF TypeOK, CacheTypeOK, Entry
  <2>4. ASSUME k \in DOMAIN items, items'[k].value = items[k].value,
               items'[k].left <= items[k].left
        PROVE  Sourced(k, items[k])'
    <3> DEFINE by == items[k].value.by
    <3>1. Sourced(k, items[k])
      BY <2>4 DEF CachedInv
    <3>2. items'[k].left <= Life(items'[k].value)
      <4> DEFINE old  == items[k].left
                 new  == items'[k].left
                 life == Life(items[k].value)
      <4>1. old <= life
        BY <3>1, Zenon DEF Sourced
      <4>2. old \in Nat /\ new \in Nat /\ life \in Nat /\ new <= old
        BY <2>2, <2>3, <2>4
      <4>3. Life(items'[k].value) = life
        BY <2>4
      <4> HIDE DEF old, new, life
      <4>4. new <= life
        BY <4>1, <4>2
      <4>5. QED
        BY <4>3, <4>4 DEF new
    <3>3. /\ by \in Lookup /\ key[by] = k /\ pc[by] \in {"close", "done"}
          /\ Cacheable(result[by]) /\ items[k].value = ValueOf(result[by], by)
      BY <3>1, Zenon DEF Sourced
    <3>4. key' = key /\ pc'[by] \in {"close", "done"} /\ result'[by] = result[by]
      BY <2>1, <3>3, Zenon DEF Frame
    <3>5. Cacheable(result'[by]) /\ ValueOf(result'[by], by) = ValueOf(result[by], by)
      BY <3>3, <3>4, Zenon
    <3>6. QED
      BY <2>4, <3>2, <3>3, <3>4, <3>5 DEF Sourced
  <2>5. ASSUME NEW l \in Lookup, DoStore(l), Cacheable(result[l]),
               SetLocked(key[l], ValueOf(result[l], l))
        PROVE  Sourced(k, items[k])'
    <3> DEFINE v == ValueOf(result[l], l)
    <3>1. key[l] \in Key /\ v \in Value /\ v.by = l /\ CacheTypeOK
      BY ValueOfType DEF TypeOK
    <3>2. /\ Life(v) \in Nat
          /\ \/ k = key[l] /\ items'[k].value = v /\ items'[k].left = Life(v)
             \/ k # key[l] /\ k \in DOMAIN items /\ items'[k] = items[k]
      BY <2>5, <3>1, SetLockedEffect
    <3>3. CASE k # key[l] /\ k \in DOMAIN items /\ items'[k] = items[k]
      <4>1. items'[k].left <= items[k].left
        <5> DEFINE old == items[k].left
                   new == items'[k].left
        <5>1. old = new /\ new \in Nat
          BY <2>3, <3>3
        <5> HIDE DEF old, new
        <5>2. new <= old
          BY <5>1
        <5>3. QED
          BY <5>2 DEF old, new
      <4>2. QED
        BY <2>4, <3>3, <4>1
    <3>4. CASE k = key[l] /\ items'[k].value = v /\ items'[k].left = Life(v)
      <4>1. pc'[l] = "close" /\ result' = result /\ key' = key
        BY <2>5 DEF DoStore, Goto, TypeOK
      <4>2. items'[k].left <= Life(v)
        <5> DEFINE life == Life(v)
                   new  == items'[k].left
        <5>1. life \in Nat /\ new = life
          BY <3>2, <3>4
        <5> HIDE DEF life, new
        <5>2. new <= life
          BY <5>1
        <5>3. QED
          BY <5>2 DEF life, new
      <4>3. ValueOf(result'[l], l) = v /\ Cacheable(result'[l])
        BY <2>5, <4>1
      <4> HIDE DEF v
      <4>4. QED
        BY <3>1, <3>4, <4>1, <4>2, <4>3 DEF Sourced
    <3>5. QED
      BY <3>2, <3>3, <3>4
  <2>6. QED
    BY <2>4, <2>5, CacheSteps DEF OnlyShrinks
<1>3. QED
  BY <1>1, <1>2, ResolverTypeCorrect, PTL DEF Spec

\* The clamp lands between its bounds.
LEMMA ClampBounds ==
  ASSUME NEW v \in Nat, NEW lo \in Nat, NEW hi \in Nat, lo <= hi
  PROVE  Clamp(v, lo, hi) \in lo..hi
BY DEF Clamp

\* The cache holds only complete results, never SERVFAIL, inside the clamps.
THEOREM CompleteCached == Spec => []OnlyCompleteCached
<1>1. TypeOK /\ CachedInv => OnlyCompleteCached
  <2> SUFFICES ASSUME TypeOK, CachedInv, NEW k \in DOMAIN items
               PROVE  LET v == items[k].value
                          r == result[v.by]
                      IN  /\ key[v.by] = k
                          /\ r.complete /\ r.kind # "servfail" /\ v.kind = r.kind
                          /\ v.kind = "addrs" => v.ttl \in MinTTL..MaxTTL
                          /\ v.kind = "negative" => r.soa # NoSOA /\ v.ttl \in NegMinTTL..NegMaxTTL
                          /\ items[k].left <= v.ttl * Second
    BY DEF OnlyCompleteCached
  <2> DEFINE v == items[k].value
             r == result[v.by]
  <2>1. Sourced(k, items[k])
    BY DEF CachedInv
  <2>2. /\ key[v.by] = k /\ Cacheable(r) /\ v = ValueOf(r, v.by)
        /\ items[k].left <= v.ttl * Second /\ r \in EngineResults
    BY <2>1 DEF Sourced, TypeOK, Life
  <2> HIDE DEF v, r
  <2>3. r.complete /\ r.kind # "servfail" /\ v.kind = r.kind
    BY <2>2 DEF Cacheable, ValueOf
  <2>4. ASSUME v.kind = "addrs" PROVE v.ttl \in MinTTL..MaxTTL
    <3>1. v.ttl = Clamp(r.ttl, MinTTL, MaxTTL) /\ r.ttl \in Nat
      BY <2>2, <2>3, <2>4, ResolverAssumption DEF ValueOf, EngineResults
    <3>2. QED
      BY <3>1, ClampBounds, ResolverAssumption, Zenon
  <2>5. ASSUME v.kind = "negative" PROVE r.soa # NoSOA /\ v.ttl \in NegMinTTL..NegMaxTTL
    <3>1. r.soa # NoSOA /\ r.soa \in SOA
      BY <2>2, <2>3, <2>5 DEF Cacheable, EngineResults
    <3>2. r.soa.hdrTTL \in Nat /\ r.soa.minttl \in Nat
      BY <3>1, ResolverAssumption
    <3>3. NegTTL(r.soa) \in Nat
      BY <3>2 DEF NegTTL
    <3>4. v.ttl = Clamp(NegTTL(r.soa), NegMinTTL, NegMaxTTL)
      BY <2>2, <2>3, <2>5 DEF ValueOf
    <3>5. QED
      BY <3>1, <3>3, <3>4, ClampBounds, ResolverAssumption
  <2>6. QED
    BY <2>2, <2>3, <2>4, <2>5 DEF v, r
<1>2. QED
  BY <1>1, ResolverTypeCorrect, CachedInvariant, PTL

-----------------------------------------------------------------------------
\* The call's engine run used the current assets, or was unfinished at a flush.
Accounted(l) == loaded[l] = gen \/ l \in atFlush

\* Outside a reload the entries and the unfinished runs are accounted for: the
\* strengthening is the second conjunct, as an unfinished run may still store.
StaleInv ==
  reload = "idle" =>
    /\ \A k \in DOMAIN items : Accounted(items[k].value.by)
    /\ \A l \in Unfinished : Accounted(l)

\* Only resolutions that overlap a flush leave stale entries behind it.
THEOREM StaleOverlap == Spec => []StaleOnlyFromOverlap
<1>1. Init => StaleInv
  BY DEF Init, CacheInit, EmptyMap, StaleInv, Unfinished
<1>2. TypeOK /\ CachedInv /\ StaleInv /\ [Next]_vars => StaleInv'
  <2> SUFFICES ASSUME TypeOK, CachedInv, StaleInv, [Next]_vars, reload' = "idle"
               PROVE  /\ \A k \in DOMAIN items' : Accounted(items[k].value.by)'
                      /\ \A l \in Unfinished' : Accounted(l)'
    BY DEF StaleInv
  <2> USE DEF flightVars, callVars, reloadVars
  <2>0. pc \in [Lookup -> Labels] /\ DOMAIN loaded = Lookup
    BY DEF TypeOK
  <2>1. CASE ReloadFlush
    BY <2>1 DEF ReloadFlush, Flush, EmptyMap, Unfinished, Accounted
  <2>2. ASSUME ~ ReloadFlush PROVE reload = "idle" /\ gen' = gen /\ atFlush' = atFlush
    BY <2>2, Zenon DEF Next, Step, Arrive, LookupGet, DoJoin, DoLead, EngineBegin, EngineReturn,
                DoStore, DoClose, WaitDone, WaitTimeout, ReloadSwap, Janitor, Clock, vars
  <2>3. ASSUME ~ ReloadFlush, NEW l \in Unfinished' PROVE Accounted(l)'
    <3>1. \/ l \in Unfinished /\ loaded'[l] = loaded[l]
          \/ EngineBegin(l)
      <4> USE DEF Unfinished, Goto, ReturnValue
      <4>1. ASSUME NEW m \in Lookup, Arrive(m) \/ LookupGet(m) \/ DoJoin(m) \/ DoLead(m)
            PROVE  l \in Unfinished /\ loaded'[l] = loaded[l]
        BY <2>0, <4>1 DEF Arrive, LookupGet, Serve, DoJoin, DoLead
      <4>2. ASSUME NEW m \in Lookup, EngineBegin(m)
            PROVE  l = m \/ (l \in Unfinished /\ loaded'[l] = loaded[l])
        BY <2>0, <4>2 DEF EngineBegin
      <4>3. ASSUME NEW m \in Lookup, EngineReturn(m) \/ DoStore(m) \/ DoClose(m)
            PROVE  l \in Unfinished /\ loaded'[l] = loaded[l]
        BY <2>0, <4>3, Zenon DEF EngineReturn, DoStore, DoClose
      <4>4. ASSUME NEW m \in Lookup, WaitDone(m) \/ WaitTimeout(m)
            PROVE  l \in Unfinished /\ loaded'[l] = loaded[l]
        BY <2>0, <4>4, Zenon DEF WaitDone, WaitTimeout
      <4>5. CASE ReloadSwap \/ Janitor \/ Clock \/ UNCHANGED vars
        BY <4>5, Zenon DEF ReloadSwap, Janitor, Clock, vars
      <4>6. QED
        BY <2>3, <4>1, <4>2, <4>3, <4>4, <4>5, Zenon DEF Next, Step
    <3>2. CASE EngineBegin(l)
      BY <2>0, <2>2, <2>3, <3>2 DEF EngineBegin, Accounted, Unfinished
    <3>3. QED
      BY <2>2, <2>3, <3>1, <3>2 DEF StaleInv, Accounted
  <2>4. ASSUME ~ ReloadFlush, NEW k \in DOMAIN items' PROVE Accounted(items[k].value.by)'
    <3>1. ASSUME k \in DOMAIN items, items'[k].value = items[k].value
          PROVE  Accounted(items[k].value.by)'
      <4>1. Accounted(items[k].value.by) /\ Sourced(k, items[k])
        BY <2>2, <2>4, <3>1 DEF StaleInv, CachedInv
      <4>2. loaded'[items[k].value.by] = loaded[items[k].value.by]
        <5> DEFINE by == items[k].value.by
        <5>1. by \in Lookup /\ pc[by] \in {"close", "done"}
          BY <4>1 DEF Sourced
        <5>2. Frame
          BY CallFrame
        <5> HIDE DEF by
        <5>3. loaded'[by] = loaded[by]
          BY <5>1, <5>2 DEF Frame
        <5>4. QED
          BY <5>3 DEF by
      <4>3. gen' = gen /\ atFlush' = atFlush
        BY <2>2, <2>4
      <4>4. items'[k].value.by = items[k].value.by
        BY <3>1
      <4>5. QED
        BY <4>1, <4>2, <4>3, <4>4 DEF Accounted
    <3>2. ASSUME NEW l \in Lookup, DoStore(l), SetLocked(key[l], ValueOf(result[l], l))
          PROVE  Accounted(items[k].value.by)'
      <4> DEFINE v == ValueOf(result[l], l)
      <4>1. key[l] \in Key /\ v \in Value /\ v.by = l /\ CacheTypeOK
        BY ValueOfType DEF TypeOK
      <4>2. \/ items'[k].value = v
            \/ k \in DOMAIN items /\ items'[k] = items[k]
        <5>1. SetLocked(key[l], v)
          BY <3>2
        <5> HIDE DEF v
        <5>2. QED
          BY <2>4, <4>1, <5>1, SetLockedEffect
      <4>3. Accounted(l) /\ loaded' = loaded
        BY <2>2, <2>4, <3>2 DEF DoStore, StaleInv, Unfinished
      <4> HIDE DEF v
      <4>4. CASE items'[k].value = v
        <5>1. items'[k].value.by = l
          BY <4>1, <4>4
        <5>2. Accounted(l)'
          BY <2>2, <2>4, <4>3 DEF Accounted
        <5>3. QED
          BY <5>1, <5>2 DEF Accounted
      <4>5. QED
        BY <3>1, <4>2, <4>4
    <3>3. QED
      BY <3>1, <3>2, CacheSteps DEF OnlyShrinks
  <2>5. QED
    BY <2>1, <2>3, <2>4
<1>3. StaleInv => StaleOnlyFromOverlap
  BY DEF StaleInv, StaleOnlyFromOverlap, Accounted
<1>4. QED
  BY <1>1, <1>2, <1>3, ResolverTypeCorrect, CachedInvariant, PTL DEF Spec

-----------------------------------------------------------------------------
\* The TTL of a cache hit covers what is left of the entry, by less than a
\* second too much.
THEOREM HonestTTL == Spec => ServedTTLHonest
<1> DEFINE Honest(l) ==
      ret'[l] # ret[l] /\ ret'[l].src = "cache" =>
        LET left == items[key[l]].left
            ttl  == ret'[l].v.ttl
        IN  /\ left > Second
            /\ left <= ttl * Second
            /\ ttl * Second < left + Second
<1>1. TypeOK /\ [Next]_vars => [\A l \in Lookup : Honest(l)]_vars
  <2> SUFFICES ASSUME TypeOK, Next, NEW l \in Lookup, ret'[l] # ret[l], ret'[l].src = "cache"
               PROVE  LET left == items[key[l]].left
                          ttl  == ret'[l].v.ttl
                      IN  /\ left > Second
                          /\ left <= ttl * Second
                          /\ ttl * Second < left + Second
    OBVIOUS
  <2> DEFINE e == items[key[l]]
  <2>0. DOMAIN ret = Lookup
    BY DEF TypeOK
  <2>1. Present(key[l]) /\ RemainingTTL(e) > 1 /\ Serve(l, e)
    <3>a. ASSUME NEW m \in Lookup, NEW src \in {"own", "flight", "error"}, NEW v,
                 ReturnValue(m, src, v)
          PROVE  FALSE
      BY <2>0, <3>a DEF ReturnValue, Ret
    <3>b. ASSUME NEW m \in Lookup, EngineReturn(m) PROVE FALSE
      BY <3>a, <3>b DEF EngineReturn
    <3>c. ASSUME NEW m \in Lookup, DoClose(m) \/ WaitDone(m) \/ WaitTimeout(m) PROVE FALSE
      BY <3>a, <3>c, Zenon DEF DoClose, WaitDone, WaitTimeout
    <3>d. ASSUME NEW m \in Lookup,
                 Arrive(m) \/ DoJoin(m) \/ DoLead(m) \/ EngineBegin(m) \/ DoStore(m)
          PROVE  FALSE
      BY <3>d, Zenon DEF Arrive, DoJoin, DoLead, EngineBegin, DoStore
    <3>e. ASSUME ReloadSwap \/ ReloadFlush \/ Janitor \/ Clock PROVE FALSE
      <4>1. ret' = ret
        BY <3>e DEF ReloadSwap, ReloadFlush, Janitor, Clock, callVars
      <4>2. QED
        BY <4>1
    <3>f. \/ \E m \in Lookup : Arrive(m) \/ Step(m) \/ WaitTimeout(m)
          \/ ReloadSwap \/ ReloadFlush \/ Janitor \/ Clock
      BY DEF Next
    <3>g. PICK m \in Lookup : Arrive(m) \/ Step(m) \/ WaitTimeout(m)
      BY <3>e, <3>f
    <3>1. LookupGet(m) /\ ret' # ret
      BY <3>b, <3>c, <3>d, <3>g, Zenon DEF Step
    <3>2. Present(key[m]) /\ RemainingTTL(items[key[m]]) > 1 /\ Serve(m, items[key[m]])
      BY <3>1 DEF LookupGet
    <3>3. l = m
      BY <2>0, <3>2 DEF Serve, ReturnValue
    <3>4. QED
      BY <3>2, <3>3
  <2>2. e \in Entry
    BY <2>1 DEF Present, TypeOK, CacheTypeOK
  <2>3. e.left \in Nat /\ e.value \in [kind : Kinds, ttl : Nat, by : Lookup]
    BY <2>2, ValueAssumption DEF Entry
  <2>4. ret'[l].v.ttl = RemainingTTL(e)
    BY <2>0, <2>1, <2>3 DEF Serve, ReturnValue, Ret
  <2> HIDE DEF e
  <2>5. /\ e.left > Second
        /\ e.left <= RemainingTTL(e) * Second
        /\ RemainingTTL(e) * Second < e.left + Second
    BY <2>1, <2>3, RemainingTTLRounds, CacheAssumption, Zenon DEF RemainingTTL
  <2>6. QED
    BY <2>4, <2>5 DEF e
<1>2. QED
  BY <1>1, ResolverTypeCorrect, PTL DEF Spec, ServedTTLHonest

-----------------------------------------------------------------------------
\* The lookups, the reload, the janitor and the clock, interleaved as they may
\* be, reach the cache only through its operations: Resolver implements Cache,
\* so what is proved of a cache on its own holds of the resolver's.
THEOREM ResolverUsesCache == Spec => CacheSpec
<1>1. Init => CacheInit
  BY DEF Init
<1>2. TypeOK /\ [Next]_vars => [CacheNext]_cacheVars
  <2> SUFFICES ASSUME TypeOK, [Next]_vars, ~ UNCHANGED cacheVars PROVE CacheNext
    OBVIOUS
  <2> USE DEF flightVars, callVars, reloadVars
  <2>1. ASSUME NEW l \in Lookup, LookupGet(l) PROVE CacheNext
    <3>1. key[l] \in Key
      BY DEF TypeOK
    <3>2. Get(key[l])
      BY <2>1, Zenon DEF LookupGet, Get
    <3>3. QED
      BY <3>1, <3>2 DEF CacheNext
  <2>2. ASSUME NEW l \in Lookup, DoStore(l) PROVE CacheNext
    <3>1. key[l] \in Key /\ ValueOf(result[l], l) \in Value
      BY ValueOfType DEF TypeOK
    <3>2. SetLocked(key[l], ValueOf(result[l], l))
      BY <2>2 DEF DoStore
    <3>3. QED
      BY <3>1, <3>2, Zenon DEF CacheNext
  <2>3. CASE ReloadFlush \/ Janitor \/ Clock
    BY <2>3 DEF ReloadFlush, Janitor, Clock, CacheNext
  <2>4. QED
    BY <2>1, <2>2, <2>3, Zenon
       DEF Next, Step, Arrive, DoJoin, DoLead, EngineBegin, EngineReturn, DoClose,
           WaitDone, WaitTimeout, ReloadSwap, vars, cacheVars
<1>3. QED
  BY <1>1, <1>2, ResolverTypeCorrect, PTL DEF Spec, CacheSpec
=============================================================================
