------------------------------- MODULE Engine -------------------------------
(***************************************************************************)
(* internal/engine/engine.go: one call of Engine.Resolve with its fan-out. *)
(*                                                                         *)
(* Processes: the caller's goroutine (Load, then the select loop), one     *)
(* goroutine per upstream that runs upstream.Chase and sends the outcome   *)
(* into a buffered channel, the timer of the query's context, and a reload *)
(* that swaps the asset bundle.  Calls share only the bundle, so one call  *)
(* beside arbitrary reloads covers all of them.                            *)
(***************************************************************************)
EXTENDS EngineTypes, FiniteSets

CONSTANT
  inChina   \* Upstream.InChina, fixed when main classifies the upstreams

ASSUME EngineAssumption ==
  /\ IsFiniteSet(Server) /\ Server # {}
  /\ TTL \subseteq Nat
  /\ inChina \in [Server -> BOOLEAN]

VARIABLES
  assets,   \* Engine.assets: the current bundle (atomic pointer)
  pc,       \* where the call is: "start", "collect" or "done"
  snap,     \* the bundle the call loaded
  out,      \* the result returned
  chase,    \* state of each upstream's goroutine
  ch,       \* the outcome channel's buffer
  results,  \* the outcomes received, in order
  ctxDone   \* the query's context has reached its deadline

vars == <<assets, pc, snap, out, chase, ch, results, ctxDone>>

n == Cardinality(Server)

\* A mutated form: a buffer one too small.
ChanCapShort == n - 1

\* The buffer size Resolve gives the channel.
ChanCap == n

-----------------------------------------------------------------------------
\* A mutated form: the class of the server that returned the address is not
\* looked at.
EarlyStableAnyServer(a, rs) ==
  LET ans == Answers(rs)
  IN  /\ \E i \in ans : rs[i].addrs \cap a.china # {}
      /\ \E i \in ans : rs[i].addrs \ a.china # {}

\* Rule 1's branch is decided by the results so far.
EarlyStable(a, rs) ==
  LET ans == Answers(rs)
  IN  /\ \E i \in ans : \E x \in rs[i].addrs : rs[i].serverChina /\ x \in a.china
      /\ \E i \in ans : \E x \in rs[i].addrs : ~ rs[i].serverChina /\ x \notin a.china

Finalize(a, rs, complete) ==
  LET sel == Select(rs, a.china, a.override)
      neg == FinalizeNegative(rs)
  IN  IF Answers(rs) # {}
      THEN [complete |-> complete, policy |-> sel.policy, addrs |-> sel.addrs,
            rcode |-> "success", soa |-> NoSOA, ttl |-> SelectTTL(sel.addrs, rs)]
      ELSE [complete |-> complete, policy |-> NoPolicy, addrs |-> {},
            rcode |-> IF neg.ok THEN neg.rcode ELSE "servfail",
            soa |-> IF neg.ok THEN neg.soa ELSE NoSOA, ttl |-> 0]

\* return e.finalize(a, ..., rs, complete)
Return(a, rs, complete) ==
  /\ pc' = "done"
  /\ out' = Finalize(a, rs, complete)

-----------------------------------------------------------------------------
Init ==
  /\ assets \in Bundles
  /\ pc = "start"
  /\ snap = assets
  /\ out = ZeroResult
  /\ chase = [s \in Server |-> "idle"]
  /\ ch = <<>>
  /\ results = <<>>
  /\ ctxDone = FALSE

\* UpdateAssets: an atomic store, at any time.
UpdateAssets ==
  /\ assets' \in Bundles
  /\ UNCHANGED <<pc, snap, out, chase, ch, results, ctxDone>>

\* Resolve loads the bundle and starts the goroutines.
Begin ==
  /\ pc = "start"
  /\ pc' = "collect"
  /\ snap' = assets
  /\ chase' = [s \in Server |-> "running"]
  /\ UNCHANGED <<assets, out, ch, results, ctxDone>>

\* The goroutine of s: Chase returns (also after a cancellation, which it
\* only notices between two exchanges) and the outcome is sent.  The send
\* blocks while the buffer is full.
ChaseReturn(s) ==
  /\ chase[s] = "running"
  /\ Len(ch) < ChanCap
  /\ \E r \in Outcome(s, inChina[s]) : ch' = Append(ch, r)
  /\ chase' = [chase EXCEPT ![s] = "sent"]
  /\ UNCHANGED <<assets, pc, snap, out, results, ctxDone>>

\* The select takes an outcome: the last one completes the query, and a
\* stable rule-1 branch ends it early.
Receive ==
  /\ pc = "collect"
  /\ ch # <<>>
  /\ ch' = Tail(ch)
  /\ results' = Append(results, Head(ch))
  /\ \/ /\ Len(results') = n
        /\ Return(snap, results', TRUE)
     \/ /\ Len(results') # n
        /\ EarlyStable(snap, results')
        /\ Return(snap, results', FALSE)
     \/ /\ Len(results') # n
        /\ ~ EarlyStable(snap, results')
        /\ UNCHANGED <<pc, out>>
  /\ UNCHANGED <<assets, snap, chase, ctxDone>>

\* Mutated forms: the partial result is marked complete; the context is only
\* watched once a result is in; the bundle is loaded again at the end.
GiveUpComplete ==
  /\ pc = "collect" /\ ctxDone
  /\ Return(snap, results, TRUE)
  /\ UNCHANGED <<assets, snap, chase, ch, results, ctxDone>>

GiveUpWithResult ==
  /\ pc = "collect" /\ ctxDone /\ results # <<>>
  /\ Return(snap, results, FALSE)
  /\ UNCHANGED <<assets, snap, chase, ch, results, ctxDone>>

GiveUpReloading ==
  /\ pc = "collect" /\ ctxDone
  /\ Return(assets, results, FALSE)
  /\ UNCHANGED <<assets, snap, chase, ch, results, ctxDone>>

\* The select sees ctx.Done; it may be chosen although an outcome is ready.
GiveUp ==
  /\ pc = "collect"
  /\ ctxDone
  /\ Return(snap, results, FALSE)
  /\ UNCHANGED <<assets, snap, chase, ch, results, ctxDone>>

\* The deadline of the query's context passes.
Deadline ==
  /\ ~ ctxDone
  /\ ctxDone' = TRUE
  /\ UNCHANGED <<assets, pc, snap, out, chase, ch, results>>

Next ==
  \/ UpdateAssets
  \/ Begin
  \/ \E s \in Server : ChaseReturn(s)
  \/ Receive
  \/ GiveUp
  \/ Deadline

Spec == Init /\ [][Next]_vars

\* The scheduler runs the caller's goroutine and the context's timer fires.
\* Nothing is assumed of the upstreams: a Chase may never return.
Fairness ==
  /\ WF_vars(Begin)
  /\ WF_vars(Receive \/ GiveUp)
  /\ WF_vars(Deadline)

FairSpec == Spec /\ Fairness

-----------------------------------------------------------------------------
\* Every variable has its Go type; each outcome is well formed: an answer has
\* addresses, nothing else has.
TypeOK ==
  /\ assets \in Bundles
  /\ snap \in Bundles
  /\ pc \in {"start", "collect", "done"}
  /\ out \in EngineResult
  /\ chase \in [Server -> {"idle", "running", "sent"}]
  /\ ch \in Seq(PolicyResult)
  /\ results \in Seq(PolicyResult)
  /\ ctxDone \in BOOLEAN

\* What the upstreams have said so far, whether Resolve read it or not.
Said == results \o ch

\* earlyStable's promise: when Resolve returns before the deadline without
\* all results, or on a rule-1 branch, the outcomes it did not wait for
\* cannot change the branch, and can only extend the chosen set.
EarlyReturnIsStable ==
  pc = "done" /\ ~ out.complete /\ (~ ctxDone \/ out.policy \in {PolicyOverride, PolicyPreferChina})
    => LET all == Select(Said, snap.china, snap.override)
       IN  all.policy = out.policy /\ out.addrs \subseteq all.addrs

\* Resolve's promise that a slow or failing upstream never turns a partial
\* success into SERVFAIL: one received answer is enough for addresses, and
\* SERVFAIL means that no answer was received and no negative consensus.
PartialSuccessSurvives ==
  pc = "done" =>
    /\ Answers(results) # {} <=> out.addrs # {}
    /\ Answers(results) # {} => out.rcode = "success"
    /\ out.rcode = "servfail" =>
         (InState(results, "nxdomain") = {}) <=> (InState(results, "nodata") = {})

\* What resolve may cache: a complete result accounts for every upstream, and
\* a complete negative one means that all of them failed or said the same.
CompleteIsConsensus ==
  pc = "done" /\ out.complete =>
    /\ { results[i].server : i \in DOMAIN results } = Server
    /\ out.addrs = {} /\ out.rcode # "servfail" =>
         \E state \in {"nxdomain", "nodata"} :
           /\ \A i \in DOMAIN results : results[i].state \in {"failure", state}
           /\ InState(results, state) # {}
           /\ out.rcode = IF state = "nxdomain" THEN "nxdomain" ELSE "success"

\* SelectTTL's owners: the TTL served is that of the first upstream to have
\* returned one of the addresses served, and the least of these TTLs, so that
\* no address is served for longer than its owner said, whichever order the
\* answers arrived in and whatever else arrived.
TTLOfAnOwner ==
  LET Owns(i, x) == /\ x \in results[i].addrs
                    /\ \A j \in 1..(i - 1) : x \notin results[j].addrs
  IN  pc = "done" /\ out.addrs # {} =>
        /\ \A x \in out.addrs : \E i \in DOMAIN results :
             Owns(i, x) /\ out.ttl <= results[i].minTTL
        /\ \E x \in out.addrs, i \in DOMAIN results :
             Owns(i, x) /\ out.ttl = results[i].minTTL

\* The buffered channel lets every goroutine send and end, also after Resolve
\* has returned early: none blocks for ever on a channel nobody reads.
SendNeverBlocks ==
  \A s \in Server : chase[s] = "running" => Len(ch) < ChanCap

\* Resolve returns even when upstreams never do: the deadline ends it.
ResolveReturns == pc = "collect" ~> pc = "done"

\* The fan-out implements EngineContract: one snapshot of the bundle per call,
\* and a result classified under that snapshot although the bundle is swapped
\* while the call runs.
Contract == INSTANCE EngineContract WITH
  call <- CASE pc = "start" -> "waiting" [] pc = "collect" -> "running" [] pc = "done" -> "returned"

MeetsContract == Contract!CSpec
=============================================================================
