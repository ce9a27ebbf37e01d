------------------------------- MODULE Config -------------------------------
(***************************************************************************)
(* internal/config/config.go: which configurations build accepts and what  *)
(* it makes of them, and the conversions of main.go.                       *)
(*                                                                         *)
(* In a raw configuration `found' says that there is a file and that it is  *)
(* valid TOML.  A number is 0 when it is absent, as in the code.           *)
(* A switch is "absent", "true" or "false".  A duration is a record: it is *)
(* "absent", "bad" (ParseDuration fails) or "set" to a number of half      *)
(* seconds, the greatest unit in which the defaults are whole.             *)
(***************************************************************************)
EXTENDS Integers, Sequences

CONSTANT Width   \* the number of values of a uint32: 2^32 in the program

ASSUME ConfigAssumption == Width \in Nat \ {0}

Second == 2

\* A duration in the file: not there, not a duration, or some number of units.
RawDuration == [kind : {"absent", "bad"}] \cup [kind : {"set"}, value : Int]

Defaults ==
  [ port |-> 8053, udp |-> TRUE, tcp |-> TRUE, tcpIdle |-> 30 * Second, maxConcurrency |-> 512,
    overall |-> 5, attempt |-> 3, hops |-> 10, payload |-> 1232,
    minTTL |-> 30 * Second, maxTTL |-> 3600 * Second,
    negMinTTL |-> 60 * Second, negMaxTTL |-> 600 * Second,
    cacheOn |-> TRUE, maxEntries |-> 65536, sweep |-> 30 * Second, forward |-> 5 ]

Number(n, default)   == IF n = 0 THEN default ELSE n
Switch(s, default)   == IF s = "absent" THEN default ELSE s = "true"
Duration(d, default) == IF d.kind = "set" THEN d.value ELSE default

\* An upstream's record is made, or the address, the port or the role is at fault.
UpstreamOK(u) ==
  /\ u.parses
  /\ u.port = 0 \/ u.port \in 1..65535
  /\ u.role \in {"absent", "auto", "china", "foreign"}

Upstream(u) ==
  [ addr |-> u.addr, port |-> Number(u.port, 53),
    role |-> IF u.role = "absent" THEN "auto" ELSE u.role ]

\* What build makes of r once it has accepted it.
Built(r) ==
  [ port |-> Number(r.port, Defaults.port),
    udp |-> Switch(r.udp, Defaults.udp), tcp |-> Switch(r.tcp, Defaults.tcp),
    tcpIdle |-> Duration(r.tcpIdle, Defaults.tcpIdle),
    maxConcurrency |-> Number(r.maxConcurrency, Defaults.maxConcurrency),
    upstreams |-> [i \in DOMAIN r.upstreams |-> Upstream(r.upstreams[i])],
    prefixFiles |-> r.prefixFiles, overridesFile |-> r.overridesFile,
    overall |-> Duration(r.overall, Defaults.overall),
    attempt |-> Duration(r.attempt, Defaults.attempt),
    hops |-> Number(r.hops, Defaults.hops), payload |-> Number(r.payload, Defaults.payload),
    minTTL |-> Duration(r.minTTL, Defaults.minTTL), maxTTL |-> Duration(r.maxTTL, Defaults.maxTTL),
    negMinTTL |-> Duration(r.negMinTTL, Defaults.negMinTTL),
    negMaxTTL |-> Duration(r.negMaxTTL, Defaults.negMaxTTL),
    cacheOn |-> Switch(r.cacheOn, Defaults.cacheOn),
    maxEntries |-> Number(r.maxEntries, Defaults.maxEntries),
    sweep |-> Duration(r.sweep, Defaults.sweep),
    forward |-> Duration(r.forward, Defaults.forward) ]

\* The numbers are in their ranges, where 0 is `absent', ...
NumbersOK(r) ==
  /\ r.port = 0 \/ r.port \in 1..65535
  /\ r.maxConcurrency >= 0
  /\ r.hops = 0 \/ r.hops \in 1..64
  /\ r.payload = 0 \/ r.payload \in 512..4096
  /\ r.maxEntries >= 0

\* ... the durations parse, ...
Durations(r) ==
  { r.tcpIdle, r.overall, r.attempt, r.minTTL, r.maxTTL, r.negMinTTL, r.negMaxTTL, r.sweep, r.forward }

DurationsOK(r) == \A d \in Durations(r) : d.kind # "bad"

\* ... the upstreams can be told apart, ...
UpstreamsOK(r) ==
  /\ \A i \in DOMAIN r.upstreams : UpstreamOK(r.upstreams[i])
  /\ Len(r.upstreams) >= 1
  /\ \A i, j \in DOMAIN r.upstreams : r.upstreams[i].addr = r.upstreams[j].addr => i = j

\* ... and what build compares, after the defaults have been filled in, is in
\* order.  A mutated form compares what the file says.
OrderedRaw(r) ==
  /\ r.attempt.kind = "set" /\ r.overall.kind = "set" => r.attempt.value <= r.overall.value
  /\ r.minTTL.kind = "set" /\ r.maxTTL.kind = "set" => r.minTTL.value <= r.maxTTL.value
  /\ r.negMinTTL.kind = "set" /\ r.negMaxTTL.kind = "set" => r.negMinTTL.value <= r.negMaxTTL.value

Ordered(r) ==
  LET c == Built(r)
  IN  /\ c.attempt <= c.overall
      /\ c.minTTL <= c.maxTTL
      /\ c.negMinTTL <= c.negMaxTTL

Accepted(r) ==
  /\ r.found
  /\ NumbersOK(r)
  /\ Built(r).udp \/ Built(r).tcp
  /\ DurationsOK(r)
  /\ UpstreamsOK(r)
  /\ r.prefixFiles # <<>>
  /\ Ordered(r)
  /\ r.level \in {"absent", "debug", "info", "warn", "error"}
  /\ r.format \in {"absent", "text", "json"}
  /\ r.listen \in {"absent", "parses"}

-----------------------------------------------------------------------------
\* uint32(d / time.Second): Go's division truncates towards zero, and the
\* conversion keeps the low bits.
Uint32(d) == (IF d >= 0 THEN d \div Second ELSE -((-d) \div Second)) % Width
=============================================================================
