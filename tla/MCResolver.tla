----------------------------- MODULE MCResolver -----------------------------
(***************************************************************************)
(* Resolver on small instances: an answer whose TTL is above the clamps,   *)
(* and an SOA whose minimum is the smaller of its two TTLs and below them. *)
(***************************************************************************)
EXTENDS Resolver, TLC

MCSOA == {[hdrTTL |-> 3, minttl |-> 0]}

MCValue == [kind : Kinds, ttl : 0..4, by : Lookup]

MCSymmetry == Permutations(Lookup) \cup Permutations(Key)
=============================================================================
