----------------------------- MODULE ChinaIndex -----------------------------
(***************************************************************************)
(* internal/china/index.go: Build, merge and Contains.                     *)
(*                                                                         *)
(* An address is a number: the IPv4 addresses come first, as Compare       *)
(* orders them, the IPv6 addresses after them.  As16 gives an IPv4 address *)
(* its place in the IPv4-mapped block of the IPv6 addresses, and From16    *)
(* (AddrFrom16 and Unmap) takes an address of that block back.  The sizes  *)
(* of the families are constants: 2^32 and 2^128 in the program.           *)
(***************************************************************************)
EXTENDS Naturals, Sequences

CONSTANTS
  N4, N6,   \* the number of IPv4 and of IPv6 addresses
  Mapped    \* where the mapped block begins among the IPv6 addresses

ASSUME IndexAssumption ==
  /\ N4 \in Nat \ {0, 1} /\ N6 \in Nat /\ Mapped \in Nat
  /\ Mapped + N4 < N6

Address == 0..(N4 + N6 - 1)
Is4(a)  == a < N4

As16(a)   == IF Is4(a) THEN Mapped + a ELSE a - N4
From16(b) == IF b \in Mapped..(Mapped + N4 - 1) THEN b - Mapped ELSE b + N4
Unmap(a)  == From16(As16(a))

\* A masked prefix: its first address and the number of its addresses.
Prefix ==
  { p \in [addr : Address, block : Nat \ {0}] :
      p.addr + p.block <= IF Is4(p.addr) THEN N4 ELSE N4 + N6 }

lastAddr(p) == IF p.block = 1 THEN p.addr ELSE From16(As16(p.addr) + p.block - 1)

\* The carry out of the last byte is lost.
nextAddr(a) == From16(IF As16(a) + 1 = N6 THEN 0 ELSE As16(a) + 1)

-----------------------------------------------------------------------------
NoSpan == [lo |-> 1, hi |-> 0]

VARIABLES
  all,    \* the prefixes, in the order they were read
  stage,  \* "read", the family that is being merged ("v4" or "v6"), or "built"
  rest,   \* merge: the positions of the spans that the loop has not reached
  cur,    \* the span that grows
  out,    \* the spans that are done
  ix      \* the index: the merged spans of each family

indexVars == <<all, stage, rest, cur, out, ix>>

span(p) == [lo |-> p.addr, hi |-> lastAddr(p)]

Family(f) == { i \in DOMAIN all : Is4(all[i].addr) <=> f = "v4" }

IndexInit ==
  /\ all = <<>>
  /\ stage = "read"
  /\ rest = {} /\ cur = NoSpan /\ out = <<>>
  /\ ix = [f \in {"v4", "v6"} |-> <<>>]

\* The prefixes of a file are appended.
Read(ps) ==
  /\ stage = "read"
  /\ all' = all \o ps
  /\ UNCHANGED <<stage, rest, cur, out, ix>>

\* Load has failed, or begins again.
Discard ==
  /\ all' = <<>>
  /\ stage' = "read"
  /\ rest' = {} /\ cur' = NoSpan /\ out' = <<>>
  /\ ix' = [f \in {"v4", "v6"} |-> <<>>]

Build ==
  /\ stage = "read"
  /\ stage' = "v4"
  /\ rest' = Family("v4")
  /\ UNCHANGED <<all, cur, out, ix>>

\* A mutated form: adjacent spans, and spans that share one address, stay apart.
TouchesInside(s) == s.lo < cur.hi

Touches(s) == s.lo <= cur.hi \/ nextAddr(cur.hi) = s.lo

\* A mutated form: the end of a span that lies inside wins.
GrownToLast(s) == [cur EXCEPT !.hi = s.hi]

Grown(s) == [cur EXCEPT !.hi = IF s.hi > cur.hi THEN s.hi ELSE cur.hi]

\* A round of the loop: the next span in the order of the sort, which leaves
\* open the order of spans with the same lo.
Merge ==
  /\ stage \in {"v4", "v6"}
  /\ \E i \in rest :
       LET s == span(all[i])
       IN  /\ \A j \in rest : s.lo <= all[j].addr
           /\ rest' = rest \ {i}
           /\ \/ cur = NoSpan /\ cur' = s /\ out' = out
              \/ cur # NoSpan /\ Touches(s) /\ cur' = Grown(s) /\ out' = out
              \/ cur # NoSpan /\ ~ Touches(s) /\ cur' = s /\ out' = Append(out, cur)
  /\ UNCHANGED <<all, stage, ix>>

\* merge returns.
Merged ==
  /\ stage \in {"v4", "v6"}
  /\ rest = {}
  /\ ix' = [ix EXCEPT ![stage] = IF cur = NoSpan THEN out ELSE Append(out, cur)]
  /\ stage' = IF stage = "v4" THEN "v6" ELSE "built"
  /\ rest' = IF stage = "v4" THEN Family("v6") ELSE {}
  /\ cur' = NoSpan /\ out' = <<>>
  /\ all' = all

IndexNext ==
  \/ \E ps \in Seq(Prefix) : Read(ps)
  \/ Discard \/ Build \/ Merge \/ Merged

IndexSpec == IndexInit /\ [][IndexNext]_indexVars

-----------------------------------------------------------------------------
\* sort.Search finds the first span that does not end before a, provided that
\* the spans are in order (SearchSound).
contains(spans, a) ==
  \E n \in DOMAIN spans :
    /\ spans[n].hi >= a
    /\ \A m \in 1..(n - 1) : spans[m].hi < a
    /\ spans[n].lo <= a

Contains(index, ip) ==
  LET a == Unmap(ip)
  IN  IF Is4(a) THEN contains(index["v4"], a) ELSE contains(index["v6"], a)

\* lastAddr takes the last address of an IPv6 prefix that ends in the mapped
\* block for an IPv4 address.  The others are regular.
Regular(p) == lastAddr(p) = p.addr + p.block - 1

Inside(a, p) == p.addr <= a /\ a < p.addr + p.block

-----------------------------------------------------------------------------
\* The spans of each family are in order and apart, so that the ends that the
\* binary search of contains compares go up, if every prefix is regular.
SearchSound ==
  stage = "built" /\ (\A i \in DOMAIN all : Regular(all[i])) =>
    \A f \in {"v4", "v6"} : \A n \in DOMAIN ix[f] :
      /\ ix[f][n].lo <= ix[f][n].hi
      /\ \A m \in 1..(n - 1) : ix[f][m].hi < ix[f][n].lo

\* What Contains says of an address is what the prefixes say, however they
\* overlap, nest, touch or repeat, in whatever order they are read, and at the
\* ends of the families, where nextAddr overflows, if every prefix is regular.
IndexExact ==
  stage = "built" /\ (\A i \in DOMAIN all : Regular(all[i])) =>
    \A ip \in Address :
      Contains(ix, ip) <=> \E i \in DOMAIN all : Inside(Unmap(ip), all[i])
=============================================================================
