------------------------------ MODULE MCAssets ------------------------------
(***************************************************************************)
(* Assets for TLC: four IPv4 and sixteen IPv6 addresses, two prefix files  *)
(* and an override file.                                                   *)
(***************************************************************************)
EXTENDS Assets, FiniteSets

MCLabel   == {"a", "A", "b"}
MCToLower == [l \in MCLabel |-> IF l = "A" THEN "a" ELSE l]
MCNames   == UNION { [1..n -> MCLabel] : n \in 0..2 } \cup {<<"b", "A", "b">>, <<"a", "b", "A">>}

P(addr, block) == [kind |-> "prefix", addr |-> addr, block |-> block]
X(kind, name)  == [kind |-> kind, name |-> name]
Skip == [kind |-> "skip"]
Bad  == [kind |-> "bad"]

File(lines) == [ok |-> TRUE, lines |-> lines]
Gone        == [ok |-> FALSE, lines |-> <<>>]

Absent == [kind |-> "absent"]
Wrong  == [kind |-> "bad"]
Set(v) == [kind |-> "set", value |-> v]

U(addr, role) == [parses |-> TRUE, addr |-> addr, port |-> 0, role |-> role]

Good ==
  [ found |-> TRUE, check |-> FALSE, port |-> 0, udp |-> "absent", tcp |-> "absent", tcpIdle |-> Absent,
    maxConcurrency |-> 0,
    upstreams |-> <<U(1, "absent"), U(N4 + 2, "auto")>>,
    prefixFiles |-> <<"p1", "p2">>, overridesFile |-> "o",
    overall |-> Absent, attempt |-> Absent, hops |-> 0, payload |-> 0,
    minTTL |-> Absent, maxTTL |-> Absent, negMinTTL |-> Absent, negMaxTTL |-> Absent,
    cacheOn |-> "absent", maxEntries |-> 0, sweep |-> Absent, forward |-> Absent,
    level |-> "absent", format |-> "absent", listen |-> "absent" ]

\* One value out of each range, at its edges.
Numbers ==
  { [Good EXCEPT !.port = n] : n \in {-1, 1, 65535, 65536} }
    \cup { [Good EXCEPT !.hops = n] : n \in {-1, 1, 64, 65} }
    \cup { [Good EXCEPT !.payload = n] : n \in {511, 512, 4096, 4097} }
    \cup { [Good EXCEPT !.maxConcurrency = n] : n \in {-1, 1} }
    \cup { [Good EXCEPT !.maxEntries = n] : n \in {-1, 1} }

Words ==
  { [Good EXCEPT !.udp = u, !.tcp = t] : u, t \in {"absent", "true", "false"} }
    \cup { [Good EXCEPT !.cacheOn = "false"], [Good EXCEPT !.check = TRUE], [Good EXCEPT !.found = FALSE],
           [Good EXCEPT !.level = "debug"], [Good EXCEPT !.level = "loud"],
           [Good EXCEPT !.format = "json"], [Good EXCEPT !.format = "xml"],
           [Good EXCEPT !.listen = "parses"], [Good EXCEPT !.listen = "bad"],
           [Good EXCEPT !.prefixFiles = <<>>], [Good EXCEPT !.prefixFiles = <<"p1">>],
           [Good EXCEPT !.overridesFile = NoFile],
           [Good EXCEPT !.tcpIdle = Wrong], [Good EXCEPT !.sweep = Wrong], [Good EXCEPT !.sweep = Set(0)], [Good EXCEPT !.forward = Wrong] }

Sometimes == {Absent, Set(-3), Set(0), Set(3), Set(4), Set(5), Set(6), Set(7200), Set(7201),
              Set(Width * Second - 1), Set(Width * Second)}

Times ==
  { [Good EXCEPT !.overall = o, !.attempt = a] : o, a \in Sometimes }
    \cup { [Good EXCEPT !.minTTL = a, !.maxTTL = b] : a, b \in Sometimes \cup {Set(59), Set(60), Set(61), Wrong} }
    \cup { [Good EXCEPT !.negMinTTL = a, !.negMaxTTL = b] :
             a, b \in {Absent, Set(119), Set(120), Set(121), Set(1200), Set(1201), Wrong} }

Ups ==
  { [Good EXCEPT !.upstreams = us] :
      us \in { <<>>, <<U(1, "china")>>, <<U(1, "foreign"), U(1, "china")>>,
               <<U(1, "foreign"), U(0, "china"), U(N4 + Mapped + 1, "auto")>>, <<U(1, "moon")>>,
               <<U(1, "auto"), U(2, "auto"), U(1, "auto")>>,
               <<[U(1, "auto") EXCEPT !.parses = FALSE]>>, <<[U(1, "auto") EXCEPT !.port = 65536]>> } }

Disk(p1, p2, o) == [f \in {"p1", "p2", "o"} |-> CASE f = "p1" -> p1 [] f = "p2" -> p2 [] OTHER -> o]

GoodOv == File(<<X("exact", <<"A">>), Skip, X("wildcard", <<"b", "a">>), X("wildcard", <<"b">>)>>)

Plain == Disk(File(<<P(1, 1)>>), File(<<Skip, P(N4 + 9, 2)>>), GoodOv)

\* Every IPv4 prefix, in one spelling each and one with host bits, and IPv6
\* prefixes at the ends of the family and around the mapped block.
Lines4 == {P(0, 1), P(1, 1), P(2, 1), P(3, 1), P(0, 2), P(3, 2), P(1, 4)}
Lines6 == {P(N4 + 2, 2), P(N4 + 3, 1), P(N4 + 0, 4), P(N4 + 9, 1), P(N4 + 8, 8), P(N4 + 15, 1),
           P(N4 + 14, 4), P(N4 + Mapped, 1), P(N4, 8)}

Broad ==
  { Disk(File(<<a, b>>), File(<<c>>), GoodOv) : a, b, c \in Lines4 }
    \cup { Disk(File(<<a, b>>), File(<<c>>), GoodOv) : a, b, c \in Lines6 }
    \cup { Disk(File(<<a, b>>), File(<<Skip, c>>), GoodOv) :
             a \in {P(0, 2), P(3, 1)}, b \in Lines6, c \in {P(2, 1), P(N4 + 14, 2)} }

Overs ==
  { Disk(File(<<P(1, 1)>>), File(<<P(2, 1)>>), File(<<X(k, n), X(l, m)>>)) :
      k, l \in {"exact", "wildcard"}, n, m \in {<<>>, <<"a">>, <<"b", "A">>} }

MCDrafts ==
  [ f \in {"p1", "p2", "o"} |->
      CASE f = "p1" -> {File(<<P(0, 2)>>), File(<<P(2, 1), Bad>>)}
        [] f = "p2" -> {File(<<P(2, 1)>>), File(<<Skip>>), Gone}
        [] OTHER    -> {File(<<X("exact", <<"b">>)>>), Gone} ]

Start(raws, disks, n) == { [raw |-> r, disk |-> d, edits |-> n] : r \in raws, d \in disks }

MCStarts ==
  Start(Numbers \cup Words \cup Times \cup Ups, {Plain}, 0)
    \cup Start({Good}, Broad \cup Overs, 0)
    \cup Start({Good}, {Plain, [Plain EXCEPT !["p1"] = Gone], [Plain EXCEPT !["p2"] = File(<<Bad>>)]}, 2)
=============================================================================
