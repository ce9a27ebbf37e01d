# chn-resolver in TLA+

A verification project for `chn-resolver`, a split-horizon DNS resolver in Go.
The modules are written from the code under `src/`; `PROJECT.json` maps each
definition to the lines it models and lists runs, theorems, hazards and
findings.

## The system

A query for A or AAAA passes through these parts:

    server (UDP, TCP)                  internal/server
      -> Service.Lookup                internal/resolve
           -> Cache.Get, Cache.Do      internal/cache   (LRU, singleflight)
           -> Engine.Resolve           internal/engine  (fan-out, deadline)
                -> Chase, per upstream internal/upstream (CNAMEs)
                     -> Client.Exchange  (UDP, then TCP when truncated)
                -> Select, FinalizeNegative, SelectTTL  internal/policy
    handleReloads (SIGHUP)             cmd/chn-resolver
      -> Engine.UpdateAssets, Cache.Flush

Other queries go from the server to the forwarder, which tries the upstreams in
order over the same clients. The asset bundle (China prefix index, override list)
is loaded from files by `internal/china` and `internal/overrides`, at start and
after each SIGHUP. `internal/config` decides what `main` accepts, and every
exchange is counted in `internal/metrics`.

Shared state, and how it is protected: the asset bundle (an atomic pointer), the
cache's list and map and the table of flights (one mutex), the channel of
outcomes (one per call of Resolve), the query's context, the channel of signals,
and in the server the channel of slots and the WaitGroup. Two things are shared
without protection, and are modelled as what the Go runtime may make of them: the
`Timeout` field of an upstream's client, and the maps of counters, which are read
without their mutex.

## Modules

| Module | Models | State | Actions |
|---|---|---|---|
| `Policy` | `policy.go` | none | operators `Select`, `FinalizeNegative`, `SelectTTL` |
| `EngineTypes`, `EngineContract` | outcomes of upstreams, what `Resolve` promises | bundle, snapshot, result | `CReload`, `CBegin`, `CReturn` |
| `Engine` | `engine.go` | + goroutines, channel, results, context | `UpdateAssets`, `Begin`, `ChaseReturn`, `Receive`, `GiveUp`, `Deadline` |
| `Cache` | `cache.go` | list `ll`, map `items` | `Get`, `SetLocked`, `Flush`, `Sweep`, `Tick` |
| `ServiceTypes` | what `Service` sees of a result | none | operator `Seen` |
| `Resolver` | `service.go`, `flight.go`, swap and flush of `handleReloads` | cache + flights, calls, generation of the assets | one per critical section, see below |
| `Chase` | `chase.go`, control of `client.go` | queue, seen, hop count, context | one per step between two exchanges or checks of the context |
| `Server` | `server.go`, dispatch of `handler.go` | `ListenAndServe`, sockets, loops, slots, WaitGroup, jobs, timers | one per step of a goroutine, and `Tick` |
| `Client` | `client.go` with its durations | shared `Timeout` fields, each exchange | `Exchange`, `Dial`, `Connected`, `Reply`, `Retry`, `TimedOut`, `NetworkError` |
| `Metrics` | counters of `metrics.go` | maps, mutex, each goroutine's place in `counter` | `Record`, `Look`, `Acquire`, `Insert`, `Add`, `Write` |
| `Forward` | `forward.go`, and hops of a chase beside it | `Client` + `Metrics` + the attempts | `ForwardBegin` ... `ForwardNext`, `HopBegin` ... `HopNext`, `Tick` |
| `ChinaIndex` | `index.go` | prefixes, merge loop, index | `Read`, `Build`, `Merge`, `Merged`, `Discard`; operator `Contains` |
| `Overrides` | `overrides.go` | none | operators `LoadFrom`, `Match` |
| `Config` | `config.go`, conversions of `main` | none | operators `Built`, `Accepted`, `Uint32` |
| `Assets` | `main.go`, `loader.go` | the three above + files, signal channel, the engine's bundle | `LoadConfig`, `ReadFile`, `BuildIndex`, `ReadOverrides`, `Publish`, `Reload`, `Sighup`, `Edit`, ... |
| `Tasks` | – | – | constants that `Client` and `Metrics` share |
| `NatFacts`, `*Proofs` | – | – | theorems |
| `MC*` | – | – | small instances for TLC |

How they compose: `Engine` uses `Policy` and implements `EngineContract`
(`INSTANCE EngineContract WITH` the snapshot and the result of a call);
`Resolver` extends `Cache` and uses the engine by that contract (it loads the
bundle once and later returns one of `EngineResults`). Two theorems join the
parts of this chain: what `Chase` returns is in `Outcome`, which `Engine` assumes of
an upstream (`ChaseFitsEngine`), and what `Engine` returns is, as `Service` sees it,
in `EngineResults` (`EngineFitsService`). `Forward` puts the forwarder and the hops
of chases on the same `Client` and `Metrics`. `Server` uses the rest by how long it
may take: `handleRequest` returns at once, by the query's deadline (`Lookup`), or
up to `ForwardLate` after it, which is what `Forward` establishes
(`ForwardWithin`: two budgets). `Assets` extends `ChinaIndex`, `Overrides` and
`Config`; `ConfigSound` and `StaysUp` are what `Resolver` (ordered clamps) and
`Engine` (constant flags of the upstreams) take for granted.

**Policy.** A slice of results is a sequence in arrival order, because
`firstSOA` and `SelectTTL` depend on it; an address list is a set, so `dedup` is
the identity.

**Engine.** One call of `Resolve` beside arbitrary reloads. Calls share only the
bundle, so this covers any number of them. `Receive` and `GiveUp` are both
enabled when an outcome is ready and the context has ended, as in Go's select.
A goroutine may never return. `OnResult` is in `Forward` (`HopRecord`); reports,
which only the log reads, are left out.

**Cache.** Each method holds the mutex throughout and is one action. The code
only uses `Expires - now`; an entry keeps that difference in clock units
(`Second` units in a second), and `Tick` decreases it down to 0.

**Resolver.** A call of `Lookup` moves through

    idle -> get -> do -> lead -> engine -> store -> close -> done
                     \-> wait -> done           (another call leads)
    idle -> direct -> engine -> done            (cache disabled)

where `get`, `do` and `store` are the critical sections of the mutex, `engine`
lies between the load of the bundle and the engine's return, and `close` lies
between the second unlock of `Do` and `close(f.done)`. A flight is named after
its leader. A reload is two steps, `ReloadSwap` and `ReloadFlush`. `loaded`,
`atFlush` and the field `by` of a value are history variables: no guard reads
them.

**Chase.** A message is reduced to what `Chase` reads: TC bit, rcode, records of
the queried type, CNAMEs with "owned by the name asked", SOA. The clock passing
the deadline (`late`, seen by `hopBudget`) and the context's end (`err`, seen by
`ctx.Err`) are separate events. `sent` and `replies` are history variables.

**Server.** A datagram moves through

    out -> held -> slot -> run -> handle -> reply -> release -> signal -> done

where `held` and `slot` are steps of the reading loop (a slot is taken, then
`wg.Add`), and `release` and `signal` are the two deferred calls in the order they
run. A connection takes the same way, with `idle` (waiting for a request) and
`write` in a cycle with `handle`. The goroutine that stops intake, the one in
`wg.Wait` and `ListenAndServe` itself have a variable each. Timers are counters:
`Tick` lets one unit pass when every goroutine waits, so that the code's own steps
take no time against its timeouts; without that no bound in time would hold.
A reply is lost when the socket is closed before it is written (`Lose`). `outcome` and `since` are history
variables, and `MaxFrames` bounds the requests of a connection.

**Client, Metrics, Forward.** A task is one goroutine: a forwarded query, or a hop
of a chase that asks one upstream. `exchangeNet` writes its budget into the shared
`dns.Client` and calls it; the library reads the field when it dials and again when
it sets the reply's deadline, so each wait lasts as long as the last budget that
anybody wrote. In `Metrics` an insertion into a map has a beginning and an end;
a read beside it may miss the name, find it, or end the process (`crashed`).
Time passes when every task waits.

**ChinaIndex.** An address is a number, IPv4 before IPv6, and a prefix is its first
address and its size; `As16` and `From16` carry the IPv4-mapped block, so that
`nextAddr` and `lastAddr` do at the ends of the families what the code does. The sort
leaves spans with the same start in any order. The binary search is its
specification: the first span that does not end before the address, which it finds
when the spans are in order (`SearchSound`).

**Overrides, Config, Assets.** A name is a sequence of labels; that a wildcard's
suffix comes with its dot makes it a proper suffix (`HasDotSuffix`). A configuration is a
record of raw values; durations count half seconds, so that truncation to seconds
shows. A file is readable or not and has lines that are nothing, malformed or
something; a load reads the files one by one, and an edit may fall between.
`asked`, `reading` and `origin` are history variables.

In all modules, an operator introduced by "A mutated form" is a plausible bug. It
is not part of the specification: it replaces its original to show that a
property can fail.

## Runs

| Run | Instance | States | Properties |
|---|---|---|---|
| `engine` | 3 upstreams, 2 addresses, 3 bundles | 463,000 | see below |
| `cache` | 4 keys, 3 places, TTL 0 to 2 s, 2 units a second | 16,000 | `ListMatchesMap`, `EvictsExpiredFirst`, `LifeNeverExtended` |
| `resolver` | 3 lookups, 2 keys, 1 place, 1 reload | 1,206,000 | `OneFlightPerKey`, `WaiterSharesResult`, `OnlyCompleteCached`, `StaleOnlyFromOverlap` |
| `resolver_live` | 2 lookups, TTL up to 3 s, with fairness | 111,000 | `EveryLookupReturns`, `StaleEntriesDrain`, `ServedTTLHonest` |
| `chase` | 5 names, cap 4, replies with up to 2 CNAMEs | 324,000 | see below |
| `server` | 2 datagrams, 1 connection, 2 slots | 254,000 | see below |
| `forward` | 1 forwarded query, 1 hop, 2 upstreams | 259,000 | see below |
| `assets` | 1588 configurations and disks, 20 addresses | 70,000 | see below |

`engine`: an early return is not contradicted by later outcomes
(`EarlyReturnIsStable`); one received answer is enough for a success
(`PartialSuccessSurvives`); a complete result accounts for every upstream and a
complete negative one is a consensus (`CompleteIsConsensus`); the TTL served is the
least of those of the first owners of the addresses served, and one of them
(`TTLOfAnOwner`);
no goroutine is stuck in its send (`SendNeverBlocks`); the call returns
(`ResolveReturns`); the contract is implemented (`MeetsContract`).

`cache`: list and map hold the same keys within the capacity (`ListMatchesMap`);
whatever is inserted, the entry just stored is there afterwards unless its TTL is zero,
and another live entry is gone only when no expired one is left (`EvictsExpiredFirst`);
only storing a key gives its entry more time (`LifeNeverExtended`).
`EvictsExpiredFirst` is an invariant that says what `evictLocked` would leave of each
possible insertion: a step that gave up the entry it had just stored would leave the
cache unchanged, and an action property does not see such a step.

`chase`: no name is asked twice over a transport (`AskedOnce`); only the chain is
followed (`OnlyTheChain`); the cap is exact (`DepthCapExact`); an exhausted queue
means that all that can be reached was asked (`ExhaustedIsClosed`); nearer names
come first (`BreadthFirst`); the TTL (`AnswerTTL`); it ends (`ChaseReturns`).

`server`: slots and WaitGroup count exactly the jobs that hold them
(`SlotsAccounted`); no `wg.Add` after `wg.Wait` (`NoAddAfterWait`); a drain that
times out cuts off only connections and forwarded queries, never a lookup
(`DrainCoversLookups`); the shutdown returns (`ShutdownReturns`), within
`tcpAdmitTimeout` plus the drain's limit (`ShutdownWithin`); a connection whose
client stalls is closed (`ConnectionsEnd`; within `MaxFrames` requests every client
does).

`forward`: an exchange outlasts the query's deadline by two of the longest budgets
at most, although the timeouts race (`ForwardWithin`); a counter is never replaced
and no count is lost (`NoLostCount`); the forwarded query is answered
(`ForwardReturns`).

`assets`: `Contains` says of an address what the prefixes say (`IndexExact`), by a
search whose order holds (`SearchSound`), both for the prefixes whose last address
`lastAddr` gets right (`Regular`, see below); the engine's assets come from one complete
load (`BundleComplete`), with the override list as written (`OverridesExact`); an
accepted configuration is one the other parts can work with, if its TTLs fit into a
uint32 (`ConfigSound`); a faulty file or a SIGHUP does not end a serving process
whose sweep interval is positive (`StaysUp`); a SIGHUP after
the last edit takes effect, also one that falls into a load (`ReloadCatchesUp`).

**Why the bounds are enough for the interesting cases.** Three upstreams are the
fewest for which rule 1 is decided by two outcomes while a third is open; the
bundles have one China address, the other one and an override, or none, and with
none the addresses served can have owners with different TTLs. In
`cache`, one key more than there are places forces evictions, with expired and
live entries together. In `resolver`, three lookups allow a leader, a waiter
and a late-comer; one place for two keys makes them evict each other; the TTL of
4 s is above the clamp, and the SOA's minimum is below its own; in `resolver_live`
the clamp of 3 s lets an entry be served while it ages. In
`chase`, five names are one more than the cap, and replies can close cycles,
repeat targets and fork; with a cap of four, a name that two replies queued
comes up a second time before the cap ends the chase. In `server`, two slots for
three jobs make UDP drop and TCP wait; the idle timeout and a late forward outlast
the drain, whose limit is the deadline and the grace. In `forward`, the hop's
timeout is longer than the forwarded query's, so that each can stretch or shorten
the other's. In `assets`, four IPv4 addresses inside sixteen IPv6 addresses have the
mapped block and prefixes at both ends of both families and around it; the
configurations take one value out of each range at its edges, and pairs of
durations (a uint32 has 2^16 values there, which is above every default and lets a
duration cross its edge); prefixes nest, touch and repeat; files fail and change
between two reads. `MaxReloads` bounds the reloads of `Resolver`, `edits` the changes
of files. `resolver` uses the symmetry of
lookups and of keys, which is sound there because no definition tells them apart
and only safety is checked under it.

**Deadlock** is not checked for `Engine`, `Resolver`, `Chase`, `Server`, `Forward`
and `Assets`, which end; it is for `Cache`.

**Fairness.** `Engine`: the caller's goroutine runs and the context's timer fires
(every query has a deadline, `server.go:216,257`); nothing is assumed of the
upstreams. `Resolver`: each call's own steps, the engine's return (the result of
`Engine`), the flush that follows a swap, the janitor's ticker and the clock; not
the waiters' deadlines, so `EveryLookupReturns` rests on the leader alone.
`Chase`: its goroutine runs, and an exchange ends because each has a timeout.
`Server`: the goroutines run and the clock goes on; nothing is assumed of the network
or of the signal, and of clients only that each stops asking at some time, which
`MaxFrames` makes it do: one that goes on keeps its connection, in the code as well,
and `ConnectionsEnd` is about the others. A shutdown does not depend on that: the drain
has a limit, and `ShutdownWithin` is proved for every `MaxFrames`. `Forward`: the same, and nothing is assumed of the
upstreams, whose silence ends with a timeout. `Assets`: the process's own steps are
taken; nothing is assumed of signals and editors.

### Where the code and what is said of it differ

Four runs expect a violation; each is a finding in `PROJECT.json`.

- `reload_takes_effect`: a resolution that loaded the old assets can store its
  value after the flush; queries then get the old classification until the entry
  expires. (`StaleOnlyFromOverlap` and `StaleEntriesDrain` bound the damage.)
- `coalesced_once`: a lookup that missed the cache can start a second flight for
  an answer that has just been stored, as `Do` does not look at the cache.
- `served_ttl_clamped`: partial results, those of an early return included, are
  served with a TTL that was not clamped.
- `least_ttl`: in `Chase`, a TTL of 0 before a larger one is lost from the minimum.

What else a reader of the code should know, without a run of its own:

- `lastAddr` unmaps, so an IPv6 prefix whose last address lies in the IPv4-mapped
  block gets an end below its start. `IndexExact` and `SearchSound` are stated for
  the other prefixes; TLC refutes both when that precondition is dropped.
  (`index.go:99` says of `nextAddr` that it gives "a itself on overflow"; it wraps,
  and the comparison with the next start makes that harmless.)
- `build` does not check the range of the TTL durations: one that is negative or does
  not fit into a uint32 is truncated, and the clamps may then be out of order. It
  accepts a `sweep_interval` of zero or less, at which `time.NewTicker` panics.
- `Exchange` is said to work "within budget" (`client.go:37`); it gives the whole budget
  to the UDP query and again, for the connection and for the reply, to the TCP one. The
  client is called "Shared and stateless across goroutines" (`client.go:25`), but
  `exchangeNet` writes its `Timeout`, so that a query may wait with another's budget. And
  `deploy/chn-resolver.toml:38-39` says that "A stuck upstream costs ~attempt_timeout,
  never the whole query"; after a truncated reply it can cost more and end after the
  deadline. `ForwardWithin` says by how much.
- Upstreams of role "auto" are classified once; a reload does not change their flags.
- `main.go:137-138` says that "built-in defaults apply when no file exists";
  `loadConfig` returns an error then, which `Accepted` follows.
- The unlocked map reads in `metrics.go` are races that may end the process
  (`crashed`); `NoLostCount` shows what holds as long as they do not.

## Proofs

TLAPS checks these for every value of the constants that satisfies the named
ASSUMEs (`NoSOAAssumption`, `BundlesAssumption`, `EngineAssumption`,
`CacheAssumption`, `ResolverAssumption`, `ValueAssumption`, `ChaseAssumption`,
`ServerAssumption`, `TasksAssumption`, `ForwardAssumption`, `IndexAssumption`,
`OverridesAssumption`, `ConfigAssumption`, `AssetsAssumption`): a
finite, nonempty set of upstreams; finitely many names; positive capacity; ordered
clamps, as `config.go` validates them; nil differing from every SOA; finitely many
jobs, a positive number of slots, positive timeouts and grace; a mapped block inside
the IPv6 addresses and not at their end; a lower case that is its own lower case; and
for `Assets`, that the files a configuration names have lines of the kind they are
read for, before and after every edit, with blocks that divide their family. A missing
file is one that cannot be read, and a malformed line is a kind of its own, so this
excludes no fault; it does exclude one file that is listed both as a prefix file and as
the overrides file, whose lines would be read in two ways.

- **EngineProofs.** Of `Policy`: `Select` returns addresses if there are any, all of
  the class its policy name says; once rule 1 applies, more results do not change the
  branch; `SelectTTL` is one of the TTLs of the first owners of
  the addresses, and the least. Of `Engine`: types,
  `EarlyReturnIsStable`, `PartialSuccessSurvives`, `SendNeverBlocks`,
  `CompleteIsConsensus`, `TTLOfAnOwner`, and that `Spec` implements
  `EngineContract`. `ReturnInv` says how the result came about: `finalize` of the
  results received, under the snapshot. Stability then follows from the
  monotonicity of rule 1, since what is said later only extends the sequence.
  `SaidOnce` says that channel and results together hold at most one outcome per
  goroutine that has sent; an injection into the upstreams gives the channel
  bound, and its being onto gives that a complete result has them all.
  `ArrivalOrderFree`: `finalize` gives the same branch, addresses and rcode for the
  same outcomes in any order (SOA and TTL may differ, being those of a first owner).
  `EngineFitsService` needs that every answer said has a TTL of an upstream
  (`SaidTTL`).
- **CacheProofs.** `ListMatchesMap`, `EvictsExpiredFirst`, `LifeNeverExtended`.
  `ListMatchesMap` is inductive with the types. Each operation on the list
  (`Without`, `Only`, putting a key in front) is described once, by the keys it
  leaves; `EvictFacts` says that only the victim goes, that it has expired if anything
  has, and that it is not a live entry at the front, since the capacity is at least
  one.
- **ResolverProofs.** Types, `OneFlightPerKey`, `WaiterSharesResult`,
  `OnlyCompleteCached`, `StaleOnlyFromOverlap`, `ServedTTLHonest`, and that
  `Resolver` implements `CacheSpec`, so that the cache's theorems hold in it.
  `OneFlightPerKey` needs `ModeInv` (without the cache no call is ever in the
  singleflight's states). `WaiterSharesResult` needs that the value of a flight
  is the leader's once the leader is past its store (`SharedInv`).
  `OnlyCompleteCached` needs that each entry was made by a call that has stored
  (`CachedInv`), whose result no longer changes (`Frame`). `StaleOnlyFromOverlap`
  needs an account of every entry and of every running resolution that has an
  older generation (`StaleInv`). `NoOrphanedWaiter` is the part of
  `EveryLookupReturns` that is a safety property: a call that waits does so for one
  that does not wait and has yet to close the channel, or has closed it.
- **ChaseProofs.** Types, `AskedOnce`, `OnlyTheChain`, `DepthCapExact`,
  `ExhaustedIsClosed`, `AnswerTTL`, `BreadthFirst`. `AskInv` relates the queries sent
  to the names seen; `ReachInv` says that all that is seen or queued is reachable and
  that nothing reachable is lost between queue and seen; `DoneInv` says which return
  produced the result. For `BreadthFirst`, `BreadthInv` says that a queued name
  outside a distance has all of that distance taken or in front of it (a name may be
  queued twice, so the queue itself need not be sorted); it follows that a reply
  never brings a name nearer that has been taken (`WithinSpreads`). The recursive
  functions `NewTargets`, `MinTTL` and `Within` are treated by induction over the
  record's position or the distance (`NatFacts`). `ChaseBounded` is the part of
  `ChaseReturns` that is a safety property: every step, the context's included,
  lowers `StepsLeft`, a natural number that starts at no more than
  `MaxHops * (Cardinality(Name) + 5) + 4`. It counts the hops left, the place in the
  loop, the queue and the context; a reply lengthens the queue by at most one target
  per name (`NewTargetsShort`), which the place before it has room for.
- **ServerProofs.** Types, `SlotsAccounted`, `NoAddAfterWait`,
  `DrainCoversLookups`, `ShutdownWithin`. Every step moves at most one job, and
  slots and counts follow (`JobSteps`), so that both are cardinalities (`CountMove`).
  `PhaseInv` says that the loops are over once the waiter runs; `LoopInv` that a
  loop holds one job at most. For the drain, `QueryInv` says that while it lasts
  each lookup's time and the grace lie within what is left of the timer, so that
  at its end no lookup is left; `EndInv` that the count stays zero once `wg.Wait`
  has returned, and that the socket is open until then. `TimeInv` says that before
  the drain only a connection waiting for a slot takes time, and that its wait
  began before the signal or with it.
- **ForwardProofs.** Types, `ForwardWithin`, `NoLostCount`. The first needs that every
  budget written, by whomever, is at most `MaxBudget`, and a bound on the age of a
  query at each stage of its exchange; the second that the mutex separates
  insertions and that the object a goroutine holds is the one in the map or the one
  its inserter is about to put there.
- **AssetsProofs.** `SearchSound` and `IndexExact`, for families of any size and
  regular prefixes in any order. The
  invariant of the merge loop: the spans done and the one that grows are in order
  and apart, the spans to come start no earlier, and together they cover what the
  prefixes reached so far cover. Then `BundleComplete`, `OverridesExact`,
  `ConfigSound` and `StaysUp`, for any configurations, files and edits, under the
  conditions these properties state (regular prefixes, TTLs that fit into a uint32, a
  positive sweep interval). `Assets`
  implements `IndexSpec` (`AssetsUsesIndex`), so the index theorems hold in it. Its
  inductive invariant `AssetsInv` has five parts: that of the index; the configuration
  in use is the accepted one, and a serving process has not ended (`ConfigInv`); the
  files fit their uses (`DiskInv`); a load has read the files so far without fault and
  its prefixes are theirs, no more and no fewer (`LoadInv`, with `ReadSoFar`); the
  bundle is what a load was when it was published (`BundleInv`). `BundleComplete`
  alone is not inductive, as it says nothing of the load that comes next.
  `PrefixesFacts` says what `loadFile`'s loop collects, `MaskedFacts` what masking
  leaves, `MatchFacts` what `Match` makes of the lines. `NoSignalLost` is the part of
  `ReloadCatchesUp` that is a safety property; it needs that a load under way, while
  the channel is empty, has read nothing that changed since (`SignalInv`).

Only model-checked: the eight liveness properties (`ResolveReturns`,
`EveryLookupReturns`, `StaleEntriesDrain`, `ChaseReturns`, `ShutdownReturns`,
`ConnectionsEnd`, `ForwardReturns`, `ReloadCatchesUp`), which rest on fairness and
are out of the prover's reach. Every invariant and action property of a passing run
is a theorem. The strengthenings `WaiterHasLeader`, `StepsLeft` and `SignalInv` were
model-checked on the same instances before they were proved.

## Not modelled

- The contents of a response (`synthesize`, `buildPositive`, `buildNegative`,
  `applyEDNS` in `handler.go`, the truncation of UDP replies): a function of the value
  looked up, without state; its dispatch and its durations are in `Server`.
- Decoding TOML, parsing addresses and durations: libraries; `Config` starts from
  their results, errors included.
- Logging, the version flag, the summary of `-check` and the HTTP server of the
  metrics, which only print; the plain atomic counters.
- Message IDs and the copies `forward` makes of a message.
- `internal/testdns`, which is test support.

`PROJECT.json` lists the hazards, and what the properties leave open about them.
