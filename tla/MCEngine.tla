------------------------------ MODULE MCEngine ------------------------------
(***************************************************************************)
(* Engine on a small instance: one China upstream and two others.  The     *)
(* bundles differ in which address is a China address, if any, and in      *)
(* whether the name has an override; a reload may replace each by another. *)
(***************************************************************************)
EXTENDS Engine

CONSTANTS a1, a2, s1, s2, s3

MCAddr == {a1, a2}

MCServer == {s1, s2, s3}

MCInChina == [s \in MCServer |-> s = s1]

MCBundles ==
  { [china |-> {a1}, override |-> FALSE],
    [china |-> {a2}, override |-> TRUE],
    [china |-> {}, override |-> FALSE] }
=============================================================================
