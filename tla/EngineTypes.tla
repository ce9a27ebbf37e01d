---------------------------- MODULE EngineTypes -----------------------------
(***************************************************************************)
(* The data of internal/engine/engine.go that Resolve shares with its      *)
(* callers, the asset bundle and the Result, and with the chases, their    *)
(* outcomes.                                                               *)
(***************************************************************************)
EXTENDS Policy

\* An asset bundle: the addresses its prefix index accepts, and whether its
\* override list matches the name being resolved.
Bundle == [china : SUBSET Addr, override : BOOLEAN]

CONSTANTS
  Bundles,  \* the bundles the asset files may hold
  TTL       \* the rrset TTLs answers may carry

ASSUME BundlesAssumption == Bundles \subseteq Bundle

\* engine.Result (its Reports carry only logging and metrics).
EngineResult ==
  [complete : BOOLEAN, policy : Policies \cup {NoPolicy}, addrs : SUBSET Addr,
   rcode : RCodes, soa : SOA \cup {NoSOA}, ttl : Nat]

\* Go's zero Result.
ZeroResult ==
  [complete |-> FALSE, policy |-> NoPolicy, addrs |-> {},
   rcode |-> "success", soa |-> NoSOA, ttl |-> 0]

ChaseResult(s, china, state, addrs, soa, ttl) ==
  [server |-> s, serverChina |-> china, state |-> state,
   addrs |-> addrs, soa |-> soa, minTTL |-> ttl]

Negatives(s, china) ==
  {ChaseResult(s, china, "failure", {}, NoSOA, 0)}
  \cup { ChaseResult(s, china, state, {}, soa, 0) :
           state \in {"nodata", "nxdomain"}, soa \in SOA \cup {NoSOA} }

\* What Chase may return for upstream s, with the fields Resolve sets.
Outcome(s, china) ==
  Negatives(s, china)
  \cup { ChaseResult(s, china, "answer", addrs, NoSOA, ttl) :
           addrs \in (SUBSET Addr) \ {{}}, ttl \in TTL }
=============================================================================
