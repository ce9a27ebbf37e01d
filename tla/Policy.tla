------------------------------- MODULE Policy -------------------------------
(***************************************************************************)
(* internal/policy/policy.go: the pure selection policy, as operators.     *)
(*                                                                         *)
(* A policy.Result is a record; a slice of them is a sequence in arrival   *)
(* order.  An address list is the SET of its addresses: no property here   *)
(* tells two orders of the same addresses apart, and with sets dedup is    *)
(* the identity.  The order of the RESULTS is kept, because firstSOA and   *)
(* SelectTTL depend on it.                                                 *)
(*                                                                         *)
(* isChina is given as the set `china' of the addresses it accepts, and    *)
(* isOverride(qname) as the Boolean `override'.                            *)
(***************************************************************************)
EXTENDS Naturals, Sequences

CONSTANTS
  Addr,    \* the addresses upstreams may return
  Server,  \* the upstream servers
  SOA,     \* the SOA records negative answers may carry
  NoSOA    \* the nil *dns.SOA

ASSUME NoSOAAssumption == NoSOA \notin SOA

States == {"failure", "nodata", "nxdomain", "answer"}

RCodes == {"success", "nxdomain", "servfail"}

\* The four policy names, and the empty name of a result without addresses.
PolicyOverride      == "override_non_china_from_non_china_resolvers"
PolicyPreferChina   == "prefer_china_from_china_resolvers"
PolicyAllNonChina   == "all_non_china_return_only_non_china_resolvers"
PolicyFallbackChina == "fallback_china_addresses"
NoPolicy            == ""

Policies == {PolicyOverride, PolicyPreferChina, PolicyAllNonChina, PolicyFallbackChina}

\* policy.Result: addrs and minTTL are populated only in state "answer", soa
\* only in the negative states.
PolicyResult ==
  { r \in [server : Server, serverChina : BOOLEAN, state : States,
           addrs : SUBSET Addr, soa : SOA \cup {NoSOA}, minTTL : Nat] :
      /\ r.state = "answer" <=> r.addrs # {}
      /\ r.state # "answer" => r.minTTL = 0
      /\ r.soa # NoSOA => r.state \in {"nodata", "nxdomain"} }

-----------------------------------------------------------------------------
\* The indices of the results in a given state, and of the answers.
InState(results, state) == { i \in DOMAIN results : results[i].state = state }

Answers(results) == InState(results, "answer")

\* The three address lists Select collects from the answers.
CnIPs(results) ==
  UNION { results[i].addrs : i \in { j \in Answers(results) : results[j].serverChina } }

NonCnIPs(results) ==
  UNION { results[i].addrs : i \in { j \in Answers(results) : ~ results[j].serverChina } }

AllIPs(results) == UNION { results[i].addrs : i \in Answers(results) }

\* Rule 1 applies: a China resolver returned a China address and a non-China
\* resolver a non-China one.
Rule1(results, china) ==
  /\ CnIPs(results) \cap china # {}
  /\ NonCnIPs(results) \ china # {}

SelectResult(policy, addrs) == [policy |-> policy, addrs |-> addrs]

Select(results, china, override) ==
  LET cnIPsChina       == CnIPs(results) \cap china
      nonCNIPs         == NonCnIPs(results)
      nonCNIPsNonChina == nonCNIPs \ china
      allChina         == AllIPs(results) \cap china
  IN  IF Rule1(results, china)
      THEN IF override
           THEN SelectResult(PolicyOverride, nonCNIPsNonChina)
           ELSE SelectResult(PolicyPreferChina, cnIPsChina)
      ELSE IF allChina = {}
      THEN SelectResult(PolicyAllNonChina,
                        IF nonCNIPs # {} THEN nonCNIPs ELSE AllIPs(results))
      ELSE SelectResult(PolicyFallbackChina,
                        IF cnIPsChina # {} THEN cnIPsChina ELSE allChina)

-----------------------------------------------------------------------------
\* The SOA of the first of the results I that has one, else nil.
FirstSOA(results, I) ==
  LET with == { i \in I : results[i].soa # NoSOA }
  IN  IF with = {} THEN NoSOA
      ELSE results[CHOOSE i \in with : \A j \in with : i <= j].soa

NegativeResult(rcode, soa, ok) == [rcode |-> rcode, soa |-> soa, ok |-> ok]

\* NXDOMAIN and NODATA are reported only when the non-failed results agree.
FinalizeNegative(results) ==
  LET nx     == InState(results, "nxdomain")
      nodata == InState(results, "nodata")
  IN  IF nx # {} /\ nodata = {}
      THEN NegativeResult("nxdomain", FirstSOA(results, nx), TRUE)
      ELSE IF nx = {} /\ nodata # {}
      THEN NegativeResult("success", FirstSOA(results, nodata), TRUE)
      ELSE NegativeResult("servfail", NoSOA, FALSE)

-----------------------------------------------------------------------------
\* The first result, in arrival order, that returned address a: its TTL is
\* the one the address is served with.
Owner(a, results) ==
  LET having == { i \in Answers(results) : a \in results[i].addrs }
  IN  CHOOSE i \in having : \A j \in having : i <= j

OwnerTTLs(addrs, results) ==
  { results[Owner(a, results)].minTTL : a \in addrs \cap AllIPs(results) }

\* A mutated form: the comparison is the wrong way round.
SelectTTLGreatest(addrs, results) ==
  LET ttls == OwnerTTLs(addrs, results)
  IN  IF ttls = {} THEN 0 ELSE CHOOSE t \in ttls : \A u \in ttls : t >= u

\* The least TTL among the owners of the chosen addresses, 0 if there is none.
SelectTTL(addrs, results) ==
  LET ttls == OwnerTTLs(addrs, results)
  IN  IF ttls = {} THEN 0 ELSE CHOOSE t \in ttls : \A u \in ttls : t <= u
=============================================================================
