---------------------------- MODULE ServiceTypes ----------------------------
(***************************************************************************)
(* What Service (internal/resolve/service.go) looks at in an engine.Result. *)
(***************************************************************************)
EXTENDS Naturals

CONSTANTS
  TTL,    \* the TTLs the engine reports for addresses, in seconds
  SOA,    \* the SOA records of negative results
  NoSOA   \* the nil *dns.SOA

\* NXDOMAIN and NODATA are both "negative", and the addresses are only present
\* or absent.
Kinds == {"addrs", "negative", "servfail"}

EngineResults ==
  { r \in [complete : BOOLEAN, kind : Kinds, ttl : TTL \cup {0}, soa : SOA \cup {NoSOA}] :
      /\ r.kind = "addrs" => r.ttl \in TTL
      /\ r.kind # "addrs" => r.ttl = 0
      /\ r.soa # NoSOA => r.kind = "negative" }

\* The Result r as resolve tells it apart.
Seen(r) ==
  [complete |-> r.complete,
   kind |-> IF r.rcode = "servfail" THEN "servfail" ELSE IF r.addrs # {} THEN "addrs" ELSE "negative",
   ttl |-> r.ttl, soa |-> r.soa]
=============================================================================
