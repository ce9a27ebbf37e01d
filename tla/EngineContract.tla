--------------------------- MODULE EngineContract ---------------------------
(***************************************************************************)
(* What engine.Resolve promises its caller, whatever the upstreams do: it  *)
(* reads the asset bundle once, when it starts, and returns one result     *)
(* whose addresses agree with that bundle.  Nothing of the fan-out is      *)
(* visible.  Engine.tla implements this specification.                     *)
(***************************************************************************)
EXTENDS EngineTypes

VARIABLES
  assets,  \* the current bundle
  call,    \* "waiting", "running" or "returned"
  snap,    \* the bundle the call loaded
  out      \* the result returned

cvars == <<assets, call, snap, out>>

\* The shape every caller relies on: addresses come with NOERROR and without
\* an SOA; SERVFAIL carries nothing; a TTL is only given for addresses.
Shape(r) ==
  /\ r.addrs # {} => r.rcode = "success" /\ r.soa = NoSOA
  /\ r.addrs = {} => r.ttl = 0
  /\ r.rcode = "servfail" => r.soa = NoSOA

\* The addresses are all China or all non-China under bundle a, as the policy
\* name announces; no address is returned without a policy name, and the
\* override branch is taken only for a name on the override list.
Classified(a, r) ==
  /\ r.policy = NoPolicy <=> r.addrs = {}
  /\ r.policy = PolicyOverride => a.override /\ r.addrs \cap a.china = {}
  /\ r.policy = PolicyPreferChina => ~ a.override /\ r.addrs \subseteq a.china
  /\ r.policy = PolicyAllNonChina => r.addrs \cap a.china = {}
  /\ r.policy = PolicyFallbackChina => r.addrs \subseteq a.china

CInit ==
  /\ assets \in Bundles
  /\ call = "waiting"
  /\ snap = assets
  /\ out = ZeroResult

\* A reload may replace the bundle at any time.
CReload ==
  /\ assets' \in Bundles
  /\ UNCHANGED <<call, snap, out>>

CBegin ==
  /\ call = "waiting"
  /\ call' = "running"
  /\ snap' = assets
  /\ UNCHANGED <<assets, out>>

CReturn ==
  /\ call = "running"
  /\ call' = "returned"
  /\ out' \in EngineResult
  /\ Shape(out')
  /\ Classified(snap, out')
  /\ UNCHANGED <<assets, snap>>

CNext == CReload \/ CBegin \/ CReturn

CSpec == CInit /\ [][CNext]_cvars
=============================================================================
