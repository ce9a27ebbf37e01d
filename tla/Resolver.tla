------------------------------ MODULE Resolver ------------------------------
(***************************************************************************)
(* The resolution service: internal/resolve/service.go over the cache      *)
(* (Cache.tla), the singleflight of internal/cache/flight.go, and the      *)
(* reload of cmd/chn-resolver/main.go.                                     *)
(*                                                                         *)
(* Every member of Lookup is one call of Service.Lookup, made by a         *)
(* goroutine of its own; it runs once.  A flight object is created by      *)
(* exactly one call, its leader, and is named after it.  The engine is the *)
(* one of EngineContract: it loads the assets once, and later returns some *)
(* result of the contract's shape.  Asset bundles are told apart by their  *)
(* generation only.                                                        *)
(***************************************************************************)
EXTENDS Cache, ServiceTypes

CONSTANTS
  Lookup,      \* the calls of Service.Lookup
  NoLookup,    \* no call: a key without a flight
  MinTTL, MaxTTL, NegMinTTL, NegMaxTTL,  \* Service's clamps, in seconds
  MaxReloads   \* bound on the number of reloads

ASSUME ResolverAssumption ==
  /\ NoLookup \notin Lookup
  /\ TTL \subseteq Nat
  /\ NoSOA \notin SOA
  /\ SOA \subseteq [hdrTTL : Nat, minttl : Nat]
  /\ MinTTL \in Nat /\ MaxTTL \in Nat /\ MinTTL <= MaxTTL
  /\ NegMinTTL \in Nat /\ NegMaxTTL \in Nat /\ NegMinTTL <= NegMaxTTL
  /\ MaxReloads \in Nat

VARIABLES
  cacheOn,  \* Service.CacheOn, from the configuration
  flights,  \* Cache.flights: the leader of each key's flight
  flightV,  \* flight.v of the flight each leader created
  closed,   \* the leaders whose flight's done channel is closed
  pc,       \* where each call is
  key,      \* the key each call asks for
  joined,   \* the flight each waiter waits for
  result,   \* what each call's engine run returned
  ret,      \* what each call returned, with its source
  gen,      \* generation of the assets the engine holds
  reload,   \* "idle", or "swapped" between UpdateAssets and Flush
  loaded,   \* (history) the generation each call's engine run loaded
  atFlush   \* (history) calls whose engine run was unfinished at a Flush

flightVars == <<flights, flightV, closed>>
callVars   == <<pc, key, joined, result, ret, loaded>>
reloadVars == <<gen, reload, atFlush>>
vars == <<ll, items, cacheOn, flightVars, callVars, reloadVars>>

NoResult == [complete |-> FALSE, kind |-> "servfail", ttl |-> 0, soa |-> NoSOA]

\* cache.Value: what it holds and its TTL.  `by' (history) is the call whose
\* engine run produced it.
ZeroValue(l) == [kind |-> "servfail", ttl |-> 0, by |-> l]

Ret(src, v) == [src |-> src, v |-> v]

-----------------------------------------------------------------------------
Clamp(v, lo, hi) == IF v < lo THEN lo ELSE IF v > hi THEN hi ELSE v

NegTTL(soa) == IF soa.minttl < soa.hdrTTL THEN soa.minttl ELSE soa.hdrTTL

\* A mutated form: partial results are cached too.
CacheablePartial(r) == r.kind = "addrs" \/ r.soa # NoSOA

\* resolve's second result: may the value be cached?
Cacheable(r) ==
  /\ r.complete
  /\ r.kind # "servfail"
  /\ r.kind = "addrs" \/ r.soa # NoSOA

\* resolve's first result: fromEngine, with the TTL clamped when the value is
\* cacheable and left as the engine reported it otherwise.
ValueOf(r, l) ==
  [kind |-> r.kind,
   ttl  |-> IF ~ Cacheable(r) THEN r.ttl
            ELSE IF r.kind = "addrs" THEN Clamp(r.ttl, MinTTL, MaxTTL)
            ELSE Clamp(NegTTL(r.soa), NegMinTTL, NegMaxTTL),
   by   |-> l]

\* Cache.Value is the set of these values.
ASSUME ValueAssumption ==
  /\ Value \subseteq [kind : Kinds, ttl : Nat, by : Lookup]
  /\ \A l \in Lookup : ZeroValue(l) \in Value
  /\ \A r \in EngineResults, l \in Lookup : ValueOf(r, l) \in Value

-----------------------------------------------------------------------------
Init ==
  /\ CacheInit
  /\ cacheOn \in BOOLEAN
  /\ flights = [k \in Key |-> NoLookup]
  /\ flightV = [l \in Lookup |-> ZeroValue(l)]
  /\ closed = {}
  /\ pc = [l \in Lookup |-> "idle"]
  /\ key \in [Lookup -> Key]
  /\ joined = [l \in Lookup |-> NoLookup]
  /\ result = [l \in Lookup |-> NoResult]
  /\ ret = [l \in Lookup |-> Ret("none", ZeroValue(l))]
  /\ gen = 0
  /\ reload = "idle"
  /\ loaded = [l \in Lookup |-> 0]
  /\ atFlush = {}

Goto(l, label) == pc' = [pc EXCEPT ![l] = label]

ReturnValue(l, src, v) ==
  /\ Goto(l, "done")
  /\ ret' = [ret EXCEPT ![l] = Ret(src, v)]

\* A query arrives.  Without a cache Lookup goes straight to resolve.
Arrive(l) ==
  /\ pc[l] = "idle"
  /\ Goto(l, IF cacheOn THEN "get" ELSE "direct")
  /\ UNCHANGED <<cacheVars, cacheOn, flightVars, key, joined, result, ret, loaded, reloadVars>>

\* A mutated form: the whole entry is served, with the TTL it was stored with.
ServeStored(l, e) == ReturnValue(l, "cache", e.value)

\* The cached value is returned with its remaining TTL.
Serve(l, e) == ReturnValue(l, "cache", [e.value EXCEPT !.ttl = RemainingTTL(e)])

\* Cache.Get: a hit is served, unless a second or less of it is left.
LookupGet(l) ==
  LET k == key[l]
  IN  /\ pc[l] = "get"
      /\ \/ /\ Present(k) /\ RemainingTTL(items[k]) > 1
            /\ Touch(k)
            /\ Serve(l, items[k])
         \/ /\ Present(k) /\ RemainingTTL(items[k]) <= 1
            /\ Touch(k)
            /\ Goto(l, "do") /\ ret' = ret
         \/ /\ ~ Present(k)
            /\ DropExpired(k)
            /\ Goto(l, "do") /\ ret' = ret
      /\ UNCHANGED <<cacheOn, flightVars, key, joined, result, loaded, reloadVars>>

\* Do, the first critical section: join the key's flight, or create it.
DoJoin(l) ==
  LET leader == flights[key[l]]
  IN  /\ pc[l] = "do"
      /\ leader # NoLookup
      /\ Goto(l, "wait")
      /\ joined' = [joined EXCEPT ![l] = leader]
      /\ UNCHANGED <<cacheVars, cacheOn, flightVars, key, result, ret, loaded, reloadVars>>

\* A mutated form: the lookup in the flight table is not under the lock, so
\* it may miss a flight that another call has just created.
DoLeadUnlocked(l) ==
  /\ pc[l] = "do"
  /\ Goto(l, "lead")
  /\ flights' = [flights EXCEPT ![key[l]] = l]
  /\ UNCHANGED <<cacheVars, cacheOn, flightV, closed, key, joined, result, ret, loaded, reloadVars>>

DoLead(l) ==
  /\ pc[l] = "do"
  /\ flights[key[l]] = NoLookup
  /\ Goto(l, "lead")
  /\ flights' = [flights EXCEPT ![key[l]] = l]
  /\ UNCHANGED <<cacheVars, cacheOn, flightV, closed, key, joined, result, ret, loaded, reloadVars>>

\* Engine.Resolve loads the assets.
EngineBegin(l) ==
  /\ pc[l] \in {"lead", "direct"}
  /\ Goto(l, "engine")
  /\ loaded' = [loaded EXCEPT ![l] = gen]
  /\ UNCHANGED <<cacheVars, cacheOn, flightVars, key, joined, result, ret, reloadVars>>

\* Engine.Resolve returns; without a cache so does Lookup.
EngineReturn(l) ==
  /\ pc[l] = "engine"
  /\ \E r \in EngineResults :
       /\ result' = [result EXCEPT ![l] = r]
       /\ \/ cacheOn /\ Goto(l, "store") /\ ret' = ret
          \/ ~ cacheOn /\ ReturnValue(l, "own", ValueOf(r, l))
  /\ UNCHANGED <<cacheVars, cacheOn, flightVars, key, joined, loaded, reloadVars>>

\* A mutated form: the value is left out of the flight.
DoStoreNoValue(l) ==
  LET v == ValueOf(result[l], l)
  IN  /\ pc[l] = "store"
      /\ Goto(l, "close")
      /\ flights' = [flights EXCEPT ![key[l]] = NoLookup]
      /\ \/ Cacheable(result[l]) /\ SetLocked(key[l], v)
         \/ ~ Cacheable(result[l]) /\ UNCHANGED cacheVars
      /\ UNCHANGED <<cacheOn, flightV, closed, key, joined, result, ret, loaded, reloadVars>>

\* Do, the second critical section.
DoStore(l) ==
  LET v == ValueOf(result[l], l)
  IN  /\ pc[l] = "store"
      /\ Goto(l, "close")
      /\ flightV' = [flightV EXCEPT ![l] = v]
      /\ flights' = [flights EXCEPT ![key[l]] = NoLookup]
      /\ \/ Cacheable(result[l]) /\ SetLocked(key[l], v)
         \/ ~ Cacheable(result[l]) /\ UNCHANGED cacheVars
      /\ UNCHANGED <<cacheOn, closed, key, joined, result, ret, loaded, reloadVars>>

\* A mutated form: the channel is only closed when the value was cached.
DoCloseCached(l) ==
  /\ pc[l] = "close"
  /\ closed' = IF Cacheable(result[l]) THEN closed \cup {l} ELSE closed
  /\ ReturnValue(l, "own", ValueOf(result[l], l))
  /\ UNCHANGED <<cacheVars, cacheOn, flights, flightV, key, joined, result, loaded, reloadVars>>

\* close(f.done), and the leader returns.
DoClose(l) ==
  /\ pc[l] = "close"
  /\ closed' = closed \cup {l}
  /\ ReturnValue(l, "own", ValueOf(result[l], l))
  /\ UNCHANGED <<cacheVars, cacheOn, flights, flightV, key, joined, result, loaded, reloadVars>>

\* A waiter sees the closed channel and takes the flight's value ...
WaitDone(l) ==
  /\ pc[l] = "wait"
  /\ joined[l] \in closed
  /\ ReturnValue(l, "flight", flightV[joined[l]])
  /\ UNCHANGED <<cacheVars, cacheOn, flightVars, key, joined, result, loaded, reloadVars>>

\* ... or its own context ends first, and it returns an error.
WaitTimeout(l) ==
  /\ pc[l] = "wait"
  /\ ReturnValue(l, "error", ZeroValue(l))
  /\ UNCHANGED <<cacheVars, cacheOn, flightVars, key, joined, result, loaded, reloadVars>>

-----------------------------------------------------------------------------
\* handleReloads: after a successful load (a failed one changes nothing) the
\* engine gets the new assets, and then the cache is flushed.
ReloadSwap ==
  /\ reload = "idle"
  /\ gen < MaxReloads
  /\ gen' = gen + 1
  /\ reload' = "swapped"
  /\ UNCHANGED <<cacheVars, cacheOn, flightVars, callVars, atFlush>>

Unfinished == { l \in Lookup : pc[l] \in {"engine", "store"} }

\* A mutated form: the reload forgets the cache.
ReloadNoFlush ==
  /\ reload = "swapped"
  /\ reload' = "idle"
  /\ atFlush' = atFlush \cup Unfinished
  /\ UNCHANGED <<cacheVars, cacheOn, flightVars, callVars, gen>>

ReloadFlush ==
  /\ reload = "swapped"
  /\ Flush
  /\ reload' = "idle"
  /\ atFlush' = atFlush \cup Unfinished
  /\ UNCHANGED <<cacheOn, flightVars, callVars, gen>>

\* The janitor and the clock.
Janitor ==
  /\ Sweep
  /\ UNCHANGED <<cacheOn, flightVars, callVars, reloadVars>>

Clock ==
  /\ Tick
  /\ UNCHANGED <<cacheOn, flightVars, callVars, reloadVars>>

\* The steps of call l that its own goroutine or its engine run takes.
Step(l) ==
  \/ LookupGet(l) \/ DoJoin(l) \/ DoLead(l)
  \/ EngineBegin(l) \/ EngineReturn(l)
  \/ DoStore(l) \/ DoClose(l) \/ WaitDone(l)

Next ==
  \/ \E l \in Lookup : Arrive(l) \/ Step(l) \/ WaitTimeout(l)
  \/ ReloadSwap \/ ReloadFlush
  \/ Janitor \/ Clock

Spec == Init /\ [][Next]_vars

\* Goroutines run, the engine returns (Engine.tla: ResolveReturns), the reload
\* goroutine finishes what it began, the janitor's ticker and the clock do not
\* stop.  No query has to arrive, no reload to happen, and no waiter's own
\* context is assumed to end.
Fairness ==
  /\ \A l \in Lookup : WF_vars(Step(l))
  /\ WF_vars(ReloadFlush)
  /\ WF_vars(Janitor)
  /\ WF_vars(Clock)

FairSpec == Spec /\ Fairness

-----------------------------------------------------------------------------
Labels == {"idle", "get", "direct", "do", "lead", "engine", "store", "close", "wait", "done"}

Leading == {"lead", "engine", "store"}

\* Every variable has its type.
TypeOK ==
  /\ CacheTypeOK
  /\ cacheOn \in BOOLEAN
  /\ flights \in [Key -> Lookup \cup {NoLookup}]
  /\ flightV \in [Lookup -> Value]
  /\ closed \subseteq Lookup
  /\ pc \in [Lookup -> Labels]
  /\ key \in [Lookup -> Key]
  /\ joined \in [Lookup -> Lookup \cup {NoLookup}]
  /\ result \in [Lookup -> EngineResults]
  /\ ret \in [Lookup -> [src : {"none", "cache", "own", "flight", "error"},
                         v : [kind : Kinds, ttl : Nat, by : Lookup]]]
  /\ gen \in 0..MaxReloads
  /\ reload \in {"idle", "swapped"}
  /\ loaded \in [Lookup -> 0..MaxReloads]
  /\ atFlush \subseteq Lookup

\* The singleflight: the flight table names exactly the calls that are running
\* the engine for a key through Do, so there is never more than one of them
\* per key, and a finished flight cannot be joined.
OneFlightPerKey ==
  /\ \A k \in Key : flights[k] # NoLookup =>
       key[flights[k]] = k /\ pc[flights[k]] \in Leading
  /\ cacheOn => \A l \in Lookup : pc[l] \in Leading => flights[key[l]] = l

\* Do's promise to waiters: each one waits for a call about the same key, and
\* what it returns is what that call's engine run produced, cacheable or not.
WaiterSharesResult ==
  \A l \in Lookup :
    /\ pc[l] = "wait" => key[joined[l]] = key[l]
    /\ ret[l].src = "flight" =>
         /\ key[joined[l]] = key[l]
         /\ ret[l].v = ValueOf(result[joined[l]], joined[l])
         /\ ret[l].v = ret[joined[l]].v

\* What the package comment of resolve promises: the cache holds only complete
\* results that are not SERVFAIL, each under the key it was resolved for, with
\* a TTL inside the configured clamps and no longer to live than that.
OnlyCompleteCached ==
  \A k \in DOMAIN items :
    LET v == items[k].value
        r == result[v.by]
    IN  /\ key[v.by] = k
        /\ r.complete /\ r.kind # "servfail" /\ v.kind = r.kind
        /\ v.kind = "addrs" => v.ttl \in MinTTL..MaxTTL
        /\ v.kind = "negative" => r.soa # NoSOA /\ v.ttl \in NegMinTTL..NegMaxTTL
        /\ items[k].left <= v.ttl * Second

\* A cache hit is served with what is left of its life, rounded up to a
\* second: more than a second is left, and the TTL handed out ends less than
\* one second after the entry does.
ServedTTLHonest ==
  [][ \A l \in Lookup :
        ret'[l] # ret[l] /\ ret'[l].src = "cache" =>
          LET left == items[key[l]].left
              ttl  == ret'[l].v.ttl
          IN  /\ left > Second
              /\ left <= ttl * Second
              /\ ttl * Second < left + Second
    ]_vars

\* How stale the cache may be after handleReloads has swapped the assets and
\* then flushed: an entry classified under older assets was produced by a
\* resolution that was still running when the flush happened, by no other.
StaleOnlyFromOverlap ==
  reload = "idle" =>
    \A k \in DOMAIN items :
      LET by == items[k].value.by
      IN  loaded[by] = gen \/ by \in atFlush

\* Every query that arrives is answered although no waiter's own context ends:
\* a leader always closes its flight.
EveryLookupReturns == \A l \in Lookup : pc[l] = "get" ~> pc[l] = "done"

\* Entries classified under assets that were replaced do not stay: after the
\* last reload the clock and the janitor clear them away.
StaleEntriesDrain == <>[](\A k \in DOMAIN items : loaded[items[k].value.by] = gen)

-----------------------------------------------------------------------------
\* What the repository says of the service and the code does not do.

\* Flush's comment, "asset reload invalidates classifications": once
\* handleReloads has finished, no query is served from the cache with a
\* classification made under older assets.
ReloadTakesEffect ==
  [][ \A l \in Lookup :
        reload = "idle" /\ ret'[l] # ret[l] /\ ret'[l].src = "cache" =>
          loaded[ret'[l].v.by] = gen
    ]_vars

\* "Concurrent identical queries hit upstreams once": no flight is created for
\* a key while the cache holds an entry of it that Lookup would serve.
NoRedundantFlight ==
  [][ \A l \in Lookup :
        pc[l] = "do" /\ pc'[l] = "lead" =>
          ~ (Present(key[l]) /\ RemainingTTL(items[key[l]]) > 1)
    ]_vars

\* The configured TTL clamps apply to every answer with addresses that is
\* served, not only to those that are cached.
ServedTTLClamped ==
  \A l \in Lookup :
    ret[l].src \in {"own", "flight"} /\ ret[l].v.kind = "addrs" =>
      ret[l].v.ttl \in MinTTL..MaxTTL
=============================================================================
