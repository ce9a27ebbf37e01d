------------------------------- MODULE Tasks --------------------------------
(***************************************************************************)
(* What Client and Metrics share: the goroutines, the upstreams and the    *)
(* categories of failed exchanges.                                         *)
(***************************************************************************)
EXTENDS Naturals, Sequences

CONSTANTS
  Task,      \* the goroutines
  NoTask,    \* none of them
  Upstreams  \* the number of upstreams, which are 1, 2, ... in their order

\* How an exchange fails: Category's values.
Failures == {"timeout", "network", "canceled"}

ASSUME TasksAssumption == NoTask \notin Task /\ Upstreams \in Nat \ {0}
=============================================================================
