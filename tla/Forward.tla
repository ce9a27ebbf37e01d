------------------------------ MODULE Forward -------------------------------
(***************************************************************************)
(* internal/server/forward.go over the shared clients (Client.tla) and the *)
(* metrics (Metrics.tla), beside hops of a Chase that the engine runs over *)
(* the same clients.                                                       *)
(*                                                                         *)
(* A task is one goroutine and runs once.  Time passes (Tick) only when    *)
(* every task waits for the network.  A task that has ended is reset to    *)
(* its initial values, `reply' and `pc' excepted.                          *)
(***************************************************************************)
EXTENDS Client, Metrics

CONSTANTS
  Forwards,  \* the tasks that forward a query
  hopAt,     \* the upstream that each of the others, the hops, asks
  OverallTimeout, ForwardTimeout, AttemptTimeout

ASSUME ForwardAssumption ==
  /\ Forwards \subseteq Task /\ hopAt \in [Task \ Forwards -> 1..Upstreams]
  /\ OverallTimeout \in Nat \ {0} /\ ForwardTimeout \in Nat \ {0} /\ AttemptTimeout \in Nat \ {0}

VARIABLES
  pc,     \* each task: "idle", "loop", "exchange", "record" or "done"
  reply,  \* what forward returned: "none", "relayed" or "servfail"
  age     \* (history) the time since the query began

forwardVars == <<pc, reply, age>>
vars == <<clientVars, metricsVars, forwardVars>>

Least(a, b) == IF a < b THEN a ELSE b

Init ==
  /\ ClientInit
  /\ MetricsInit
  /\ pc = [t \in Task |-> "idle"]
  /\ reply = [t \in Task |-> "none"]
  /\ age = [t \in Task |-> 0]

Goto(t, label) == pc' = [pc EXCEPT ![t] = label]

\* A task ends.
Done(t, r) ==
  /\ Goto(t, "done")
  /\ reply' = [reply EXCEPT ![t] = r]
  /\ age' = [age EXCEPT ![t] = 0]
  /\ ctxLeft' = [ctxLeft EXCEPT ![t] = 0]
  /\ up' = [up EXCEPT ![t] = 1]
  /\ err' = [err EXCEPT ![t] = "none"]
  /\ UNCHANGED <<timeout, at, net, budget, left>>

-----------------------------------------------------------------------------
\* forward is called, with the query's whole deadline before it.
ForwardBegin(t) ==
  /\ t \in Forwards /\ pc[t] = "idle"
  /\ Goto(t, "loop")
  /\ ctxLeft' = [ctxLeft EXCEPT ![t] = OverallTimeout]
  /\ UNCHANGED <<exchangeVars, metricsVars, reply, age>>

\* The loop: no upstream is left or the deadline has passed, or the next
\* upstream gets the forward timeout or what is left of the deadline.
ForwardFail(t) ==
  /\ t \in Forwards /\ pc[t] = "loop"
  /\ up[t] > Upstreams \/ ctxLeft[t] = 0
  /\ Done(t, "servfail")
  /\ UNCHANGED metricsVars

ForwardAttempt(t) ==
  /\ t \in Forwards /\ pc[t] = "loop"
  /\ up[t] <= Upstreams
  /\ Exchange(t, up[t], Least(ForwardTimeout, ctxLeft[t]))
  /\ Goto(t, "exchange")
  /\ UNCHANGED <<metricsVars, reply, age>>

\* The exchange has returned: the outcome is recorded.
ForwardRecord(t) ==
  /\ t \in Forwards /\ pc[t] = "exchange" /\ at[t] = "no"
  /\ Record(t, << <<up[t], IF err[t] = "none" THEN "forwarded" ELSE err[t]>> >>)
  /\ Goto(t, "record")
  /\ UNCHANGED <<clientVars, reply, age>>

\* The Add of the record, and then the reply or the next upstream.
ForwardNext(t) ==
  /\ t \in Forwards
  /\ Add(t)
  /\ \/ err[t] = "none" /\ Done(t, "relayed")
     \/ /\ err[t] # "none"
        /\ Goto(t, "loop")
        /\ up' = [up EXCEPT ![t] = @ + 1]
        /\ UNCHANGED <<timeout, at, net, budget, left, err, ctxLeft, reply, age>>

-----------------------------------------------------------------------------
\* A hop of a Chase begins, d before the deadline of its query: hopBudget, and
\* Exchange.
HopBegin(t) ==
  /\ t \notin Forwards /\ pc[t] = "idle"
  /\ \E d \in 1..OverallTimeout :
       /\ ctxLeft' = [ctxLeft EXCEPT ![t] = d]
       /\ age' = [age EXCEPT ![t] = OverallTimeout - d]
  /\ Goto(t, "loop")
  /\ UNCHANGED <<exchangeVars, metricsVars, reply>>

Hop(t) ==
  /\ t \notin Forwards /\ pc[t] = "loop"
  /\ Exchange(t, hopAt[t], Least(AttemptTimeout, ctxLeft[t]))
  /\ Goto(t, "exchange")
  /\ UNCHANGED <<metricsVars, reply, age>>

\* OnResult records the outcome, unless Resolve has returned before.
HopRecord(t) ==
  /\ t \notin Forwards /\ pc[t] = "exchange" /\ at[t] = "no"
  /\ \/ Done(t, "none") /\ UNCHANGED metricsVars
     \/ /\ Record(t, IF err[t] = "none" THEN << <<up[t], "answer">> >>
                     ELSE << <<up[t], "failure">>, <<up[t], err[t]>> >>)
        /\ Goto(t, "record")
        /\ UNCHANGED <<clientVars, reply, age>>

HopNext(t) ==
  /\ t \notin Forwards
  /\ Add(t)
  /\ \/ Tail(todo[t]) = <<>> /\ Done(t, "none")
     \/ Tail(todo[t]) # <<>> /\ UNCHANGED <<clientVars, forwardVars>>

-----------------------------------------------------------------------------
\* Every task waits for the network, has not begun or has ended.
Settled ==
  \A t \in Task : \/ pc[t] \in {"idle", "done"}
                  \/ at[t] \in {"dialing", "wait"} /\ left[t] > 0

Less(n) == IF n = 0 THEN 0 ELSE n - 1

Tick ==
  /\ Settled
  /\ left' = [t \in Task |-> Less(left[t])]
  /\ ctxLeft' = [t \in Task |-> Less(ctxLeft[t])]
  /\ age' = [t \in Task |-> IF pc[t] \in {"idle", "done"} THEN 0 ELSE age[t] + 1]
  /\ UNCHANGED <<timeout, at, net, up, budget, err, metricsVars, pc, reply>>

\* What the goroutines do of themselves.
Step(t) ==
  \/ ForwardFail(t) \/ ForwardAttempt(t) \/ ForwardRecord(t) \/ ForwardNext(t)
  \/ Hop(t) \/ HopRecord(t) \/ HopNext(t)
  \/ (Retry(t) \/ Dial(t) \/ TimedOut(t)) /\ UNCHANGED <<metricsVars, forwardVars>>
  \/ (Look(t) \/ Acquire(t) \/ Insert(t)) /\ UNCHANGED <<clientVars, forwardVars>>

\* What clients, upstreams and the reader of the metrics do.
Environment ==
  \/ \E t \in Task :
       \/ ForwardBegin(t) \/ HopBegin(t)
       \/ (Connected(t) \/ Reply(t) \/ NetworkError(t)) /\ UNCHANGED <<metricsVars, forwardVars>>
  \/ Write /\ UNCHANGED <<clientVars, forwardVars>>

Next == ~ crashed /\ ((\E t \in Task : Step(t)) \/ Environment \/ Tick)

Spec == Init /\ [][Next]_vars

\* The scheduler runs the goroutines that can run, and the clock goes on when
\* none can.  Nothing is assumed of clients and upstreams.
FairSpec == Spec /\ WF_vars(~ crashed /\ ((\E t \in Task : Step(t)) \/ Tick))

-----------------------------------------------------------------------------
\* Every variable has its type.
TypeOK ==
  /\ ClientTypeOK
  /\ MetricsTypeOK
  /\ pc \in [Task -> {"idle", "loop", "exchange", "record", "done"}]
  /\ reply \in [Task -> {"none", "relayed", "servfail"}]
  /\ age \in [Task -> Nat]

\* The longest budget: hops and forwards ask for no more than is left of their
\* query's deadline.
MaxBudget ==
  Least(OverallTimeout,
        IF ForwardTimeout < AttemptTimeout THEN AttemptTimeout ELSE ForwardTimeout)

\* forward has no timer of its own: its last exchange may begin just before the
\* query's deadline, turn to TCP, and there dial and wait for the reply under two
\* deadlines, each of them a budget of anybody who uses the client.  It takes no
\* longer than that: this is the ForwardLate of Server.tla.
ForwardWithin ==
  \A t \in Task : age[t] <= OverallTimeout + 2 * MaxBudget

\* counter's promise: goroutines that need a new counter at the same time share
\* one object.  A counter in the map is never replaced, which would lose what it
\* had counted, and an Add goes to the object in the map or about to be.
NoLostCount ==
  [][ /\ \A k \in Counter : created[k] # NoTask => created'[k] = created[k]
      /\ \A t \in Task : rec[t] = "add" =>
           LET k == Head(todo[t])
           IN  created[k] = obj[t] \/ (obj[t] \in Inserting(k) /\ Head(todo[obj[t]]) = k)
    ]_vars

\* forward returns whatever the upstreams do, and is not stuck at the mutex,
\* unless the runtime ends the process.
ForwardReturns ==
  \A t \in Forwards : pc[t] # "idle" ~> pc[t] = "done" \/ crashed
=============================================================================
