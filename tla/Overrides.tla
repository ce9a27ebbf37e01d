----------------------------- MODULE Overrides ------------------------------
(***************************************************************************)
(* internal/overrides/overrides.go: the override list.                     *)
(*                                                                         *)
(* A name is a sequence of labels; the root, and the empty string, is the  *)
(* empty sequence.  A line of the file is a record: what is left of it     *)
(* when blanks and comments are cut off is nothing ("skip"), "*." and a    *)
(* name ("wildcard"), or a name ("exact").                                 *)
(***************************************************************************)
EXTENDS Naturals, Sequences

CONSTANTS
  Label,    \* the labels, in upper and lower case
  ToLower   \* [Label -> Label]

ASSUME OverridesAssumption ==
  /\ ToLower \in [Label -> Label]
  /\ \A l \in Label : ToLower[ToLower[l]] = ToLower[l]

\* Lower case.  The trailing dot is not part of a sequence of labels.
normalize(name) == [i \in DOMAIN name |-> ToLower[name[i]]]

\* LoadFrom sorts the lines into exact names and wildcards, and New normalizes
\* them and drops empty ones.
Entries(lines, kind) ==
  { normalize(lines[i].name) : i \in { i \in DOMAIN lines : lines[i].kind = kind } } \ {<<>>}

LoadFrom(lines) ==
  [exact |-> Entries(lines, "exact"), wildcard |-> Entries(lines, "wildcard")]

\* HasSuffix(q, "."+suffix): with the dot before it, the suffix is a proper one.
HasDotSuffix(q, suffix) ==
  /\ Len(suffix) < Len(q)
  /\ SubSeq(q, Len(q) - Len(suffix) + 1, Len(q)) = suffix

\* A mutated form: a wildcard matches its own apex.
MatchApex(set, qname) ==
  LET q == normalize(qname)
  IN  /\ q # <<>>
      /\ q \in set.exact \/ \E suffix \in set.wildcard : suffix = q \/ HasDotSuffix(q, suffix)

Match(set, qname) ==
  LET q == normalize(qname)
  IN  /\ q # <<>>
      /\ q \in set.exact \/ \E suffix \in set.wildcard : HasDotSuffix(q, suffix)
=============================================================================
