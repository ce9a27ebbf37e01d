----------------------------- MODULE MCForward ------------------------------
(***************************************************************************)
(* Forward with a forwarded query and a hop that asks the second of two    *)
(* upstreams.  The attempt timeout is longer than the forward timeout, so  *)
(* that the hop stretches a deadline of the forwarded query, and it may    *)
(* shorten the hop's.                                                      *)
(***************************************************************************)
EXTENDS Forward

CONSTANTS f1, h1

MCTask == {f1, h1}

MCForwards == {f1}

MCHopAt == [t \in {h1} |-> 2]
=============================================================================
