------------------------------ MODULE MCCache -------------------------------
(***************************************************************************)
(* Cache with four keys in three places, TTLs of 0 to 2 seconds and two    *)
(* clock units in a second.                                                *)
(***************************************************************************)
EXTENDS Cache

MCValue == [ttl : 0..2]
=============================================================================
