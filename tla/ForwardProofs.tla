--------------------------- MODULE ForwardProofs ----------------------------
(***************************************************************************)
(* forward ends in time and no counter is lost, whatever the number of     *)
(* tasks and upstreams and whatever the timeouts.                          *)
(***************************************************************************)
EXTENDS Forward, TLAPS

ForwardTypeOK ==
  /\ pc \in [Task -> {"idle", "loop", "exchange", "record", "done"}]
  /\ reply \in [Task -> {"none", "relayed", "servfail"}]
  /\ age \in [Task -> Nat]

\* Where a task can be in forward, the client and the metrics at the same time.
Placed(t) ==
  /\ at[t] # "no" => pc[t] = "exchange"
  /\ pc[t] \in {"exchange", "record"} => up[t] \in 1..Upstreams
  /\ pc[t] \in {"idle", "done"} => age[t] = 0 /\ ctxLeft[t] = 0

Listed(t) ==
  rec[t] # "none" =>
    /\ pc[t] = "record"
    /\ todo[t] # <<>>
    /\ t \in Forwards => Tail(todo[t]) = <<>>

\* The latest end of the phase that an exchange is in: it is dialled before the
\* deadline, a UDP reply or a TCP connection takes a budget, a TCP reply one more.
Timed(t) ==
  /\ budget[t] <= MaxBudget
  /\ ctxLeft[t] > 0 => age[t] + ctxLeft[t] <= OverallTimeout
  /\ at[t] = "dial" => age[t] <= OverallTimeout
  /\ at[t] = "dialing" => net[t] = "tcp"
  /\ at[t] = "dialing" \/ (at[t] = "wait" /\ net[t] = "udp") =>
       age[t] + left[t] <= OverallTimeout + MaxBudget
  /\ at[t] = "wait" => age[t] + left[t] <= OverallTimeout + 2 * MaxBudget
  /\ age[t] <= OverallTimeout + 2 * MaxBudget

Bounded == \A u \in 1..Upstreams, n \in {"udp", "tcp"} : timeout[u][n] <= MaxBudget

\* The object a task found is the one in the map, or the one about to be.
Shared(t) ==
  LET k == Head(todo[t])
  IN  created[k] = obj[t] \/ (obj[t] \in Inserting(k) /\ Head(todo[obj[t]]) = k)

\* The mutex: who inserts holds it, and nobody has inserted the counter before.
Counted(t) ==
  /\ rec[t] = "insert" => mu = t /\ created[Head(todo[t])] = NoTask
  /\ rec[t] = "add" => obj[t] \in Task /\ Shared(t)

\* The inductive invariant: of the exchanges and of the counters.
TimeInv ==
  /\ ClientTypeOK /\ ForwardTypeOK
  /\ Bounded
  /\ \A t \in Task : Placed(t) /\ Timed(t)

CountInv ==
  /\ MetricsTypeOK
  /\ \A t \in Task : Listed(t) /\ Counted(t)

\* The longest budget is a positive number, and bounds what the callers of
\* Exchange ask for.
LEMMA BudgetFacts ==
  /\ MaxBudget \in Nat \ {0}
  /\ \A d \in Nat \ {0} : d <= OverallTimeout =>
       /\ Least(ForwardTimeout, d) \in Nat /\ Least(ForwardTimeout, d) <= MaxBudget
       /\ Least(AttemptTimeout, d) \in Nat /\ Least(AttemptTimeout, d) <= MaxBudget
BY ForwardAssumption DEF MaxBudget, Least

\* A non-empty todo list has a counter at its head and a list behind it.
LEMMA TodoFacts ==
  ASSUME MetricsTypeOK, NEW t \in Task, todo[t] # <<>>
  PROVE  Head(todo[t]) \in Counter /\ Tail(todo[t]) \in Seq(Counter)
BY DEF MetricsTypeOK

\* What is recorded is a non-empty list of counters, of one when it is forward
\* that records.
LEMMA RecordedFacts ==
  ASSUME ClientTypeOK, NEW t \in Task, up[t] \in 1..Upstreams,
         NEW f, f = << <<up[t], IF err[t] = "none" THEN "forwarded" ELSE err[t]>> >>,
         NEW h, h = IF err[t] = "none" THEN << <<up[t], "answer">> >>
                    ELSE << <<up[t], "failure">>, <<up[t], err[t]>> >>
  PROVE  /\ f \in Seq(Counter) /\ f # <<>> /\ Tail(f) = <<>>
         /\ h \in Seq(Counter) /\ h # <<>>
<1>1. /\ <<up[t], IF err[t] = "none" THEN "forwarded" ELSE err[t]>> \in Counter
      /\ <<up[t], "answer">> \in Counter /\ <<up[t], "failure">> \in Counter
      /\ err[t] # "none" => <<up[t], err[t]>> \in Counter
  BY DEF ClientTypeOK, Counter, Results, Failures
<1>2. \A k \in Counter : <<k>> \in Seq(Counter) /\ <<k>> # <<>> /\ Tail(<<k>>) = <<>>
  OBVIOUS
<1>3. \A k, l \in Counter : <<k, l>> \in Seq(Counter) /\ <<k, l>> # <<>>
  OBVIOUS
<1> QED BY <1>1, <1>2, <1>3

\* Steps of the client and of forward that leave the metrics alone keep what is
\* said of them, and the other way round.
LEMMA MetricsFrame ==
  ASSUME CountInv, UNCHANGED metricsVars, \A t \in Task : rec[t] # "none" => pc'[t] = pc[t]
  PROVE  CountInv'
<1>1. MetricsTypeOK'
  BY DEF CountInv, MetricsTypeOK, metricsVars
<1>2. ASSUME NEW s \in Task PROVE Listed(s)' /\ Counted(s)'
  BY DEF CountInv, Listed, Counted, Shared, Inserting, metricsVars
<1> QED BY <1>1, <1>2 DEF CountInv

\* The counterpart: a step of the metrics leaves the exchanges as they are.
LEMMA TimeFrame ==
  ASSUME TimeInv, UNCHANGED <<clientVars, forwardVars>>
  PROVE  TimeInv'
<1>1. ClientTypeOK' /\ ForwardTypeOK' /\ Bounded'
  BY DEF TimeInv, clientVars, exchangeVars, forwardVars, ClientTypeOK, ForwardTypeOK, Bounded
<1>2. ASSUME NEW s \in Task PROVE Placed(s)' /\ Timed(s)'
  BY DEF TimeInv, clientVars, exchangeVars, forwardVars, Placed, Timed
<1> QED BY <1>1, <1>2 DEF TimeInv

\* A task that a step leaves alone keeps its place and its time.
Same(s) ==
  /\ at'[s] = at[s] /\ net'[s] = net[s] /\ up'[s] = up[s] /\ budget'[s] = budget[s]
  /\ left'[s] = left[s] /\ ctxLeft'[s] = ctxLeft[s] /\ pc'[s] = pc[s] /\ age'[s] = age[s]

\* It is enough to look at the one task that a step is about.
LEMMA OneTask ==
  ASSUME TimeInv, NEW t \in Task, ClientTypeOK', ForwardTypeOK', Bounded',
         \A s \in Task \ {t} : Same(s), Placed(t)', Timed(t)'
  PROVE  TimeInv'
<1>1. ASSUME NEW s \in Task \ {t} PROVE Placed(s)' /\ Timed(s)'
  BY <1>1 DEF TimeInv, Same, Placed, Timed
<1> QED BY <1>1 DEF TimeInv

\* A budget is written into a Timeout field.
LEMMA TimeoutFacts ==
  ASSUME ClientTypeOK, Bounded, NEW u \in 1..Upstreams, NEW n \in {"udp", "tcp"},
         NEW b \in Nat, b <= MaxBudget, timeout' = [timeout EXCEPT ![u][n] = b]
  PROVE  timeout' \in [1..Upstreams -> [{"udp", "tcp"} -> Nat]] /\ Bounded'
<1>1. timeout' \in [1..Upstreams -> [{"udp", "tcp"} -> Nat]]
  BY DEF ClientTypeOK
<1>2. ASSUME NEW v \in 1..Upstreams, NEW m \in {"udp", "tcp"} PROVE timeout'[v][m] <= MaxBudget
  <2>1. timeout'[v][m] = IF v = u /\ m = n THEN b ELSE timeout[v][m]
    BY DEF ClientTypeOK
  <2> QED BY <2>1 DEF Bounded
<1> QED BY <1>1, <1>2 DEF Bounded

\* Exchange is called with a budget that is short enough.
LEMMA ExchangeKeeps ==
  ASSUME TimeInv, NEW t \in Task, NEW u \in 1..Upstreams, NEW b \in Nat, b <= MaxBudget,
         Exchange(t, u, b), Goto(t, "exchange"), UNCHANGED <<reply, age>>
  PROVE  TimeInv'
<1>1. /\ ClientTypeOK /\ ForwardTypeOK /\ Bounded /\ Placed(t) /\ Timed(t)
      /\ MaxBudget \in Nat /\ OverallTimeout \in Nat /\ Upstreams \in Nat
  BY BudgetFacts, ForwardAssumption, TasksAssumption DEF TimeInv
<1>2. timeout' \in [1..Upstreams -> [{"udp", "tcp"} -> Nat]] /\ Bounded'
  BY <1>1, TimeoutFacts DEF Exchange
<1>3. /\ at' \in [Task -> {"no", "dial", "dialing", "wait", "retry"}]
      /\ up' \in [Task -> 1..(Upstreams + 1)]
      /\ budget' \in [Task -> Nat]
  BY <1>1 DEF Exchange, ClientTypeOK
<1>4. ClientTypeOK'
  BY <1>1, <1>2, <1>3 DEF Exchange, ClientTypeOK
<1>5. ForwardTypeOK' /\ \A s \in Task \ {t} : Same(s)
  BY <1>1 DEF Exchange, Goto, ClientTypeOK, ForwardTypeOK, Same
<1>6. /\ at'[t] = "dial" /\ pc'[t] = "exchange" /\ up'[t] = u /\ budget'[t] = b
      /\ ctxLeft'[t] = ctxLeft[t] /\ age'[t] = age[t] /\ ctxLeft[t] > 0
      /\ ctxLeft[t] \in Nat /\ age[t] \in Nat
  BY <1>1 DEF Exchange, Goto, ClientTypeOK, ForwardTypeOK
<1>7. Placed(t)' /\ Timed(t)'
  BY <1>1, <1>6 DEF Placed, Timed
<1> QED BY <1>2, <1>4, <1>5, <1>7, OneTask

\* Exchange returns.
LEMMA ReturnKeeps ==
  ASSUME TimeInv, NEW t \in Task, NEW e \in Failures \cup {"none"}, at[t] # "no",
         Return(t, e), UNCHANGED <<timeout, up, ctxLeft, forwardVars>>
  PROVE  TimeInv'
<1>1. /\ ClientTypeOK /\ ForwardTypeOK /\ Bounded /\ Placed(t) /\ Timed(t)
      /\ MaxBudget \in Nat /\ OverallTimeout \in Nat
  BY BudgetFacts, ForwardAssumption DEF TimeInv
<1>2. /\ at' \in [Task -> {"no", "dial", "dialing", "wait", "retry"}]
      /\ net' \in [Task -> {"udp", "tcp"}]
      /\ budget' \in [Task -> Nat] /\ left' \in [Task -> Nat]
  BY <1>1 DEF Return, ClientTypeOK
<1>3. err' \in [Task -> Failures \cup {"none"}]
  BY <1>1 DEF Return, ClientTypeOK
<1>4. ClientTypeOK' /\ Bounded'
  BY <1>1, <1>2, <1>3 DEF ClientTypeOK, Bounded
<1>5. ForwardTypeOK' /\ \A s \in Task \ {t} : Same(s)
  BY <1>1 DEF Return, forwardVars, ClientTypeOK, ForwardTypeOK, Same
<1>6. /\ at'[t] = "no" /\ pc'[t] = pc[t] /\ up'[t] = up[t] /\ budget'[t] = 0
      /\ ctxLeft'[t] = ctxLeft[t] /\ age'[t] = age[t]
  BY <1>1 DEF Return, forwardVars, ClientTypeOK
<1>7. Placed(t)' /\ Timed(t)'
  BY <1>1, <1>6 DEF Placed, Timed
<1> QED BY <1>4, <1>5, <1>7, OneTask

\* The library reads the Timeout field and waits.
LEMMA WaitKeeps ==
  ASSUME TimeInv, NEW t \in Task, NEW l \in {"dialing", "wait"}, Wait(t, l),
         at[t] = "dial" \/ (at[t] = "dialing" /\ l = "wait"),
         l = "dialing" => net[t] = "tcp", UNCHANGED forwardVars
  PROVE  TimeInv'
<1>1. /\ ClientTypeOK /\ ForwardTypeOK /\ Bounded /\ Placed(t) /\ Timed(t)
      /\ MaxBudget \in Nat /\ OverallTimeout \in Nat
  BY BudgetFacts, ForwardAssumption DEF TimeInv
<1>2. up[t] \in 1..Upstreams /\ net[t] \in {"udp", "tcp"} /\ age[t] \in Nat /\ left[t] \in Nat
  BY <1>1 DEF Placed, ClientTypeOK, ForwardTypeOK
<1>3. timeout[up[t]][net[t]] \in Nat /\ timeout[up[t]][net[t]] <= MaxBudget
  BY <1>1, <1>2 DEF ClientTypeOK, Bounded
<1>4. /\ at' \in [Task -> {"no", "dial", "dialing", "wait", "retry"}]
      /\ left' \in [Task -> Nat]
  BY <1>1, <1>3 DEF Wait, ClientTypeOK
<1>5. ClientTypeOK' /\ Bounded'
  BY <1>1, <1>4 DEF Wait, ClientTypeOK, Bounded
<1>6. ForwardTypeOK' /\ \A s \in Task \ {t} : Same(s)
  BY <1>1 DEF Wait, forwardVars, ClientTypeOK, ForwardTypeOK, Same
<1>7. /\ at'[t] = l /\ pc'[t] = pc[t] /\ up'[t] = up[t] /\ budget'[t] = budget[t]
      /\ net'[t] = net[t] /\ left'[t] = timeout[up[t]][net[t]]
      /\ ctxLeft'[t] = ctxLeft[t] /\ age'[t] = age[t]
  BY <1>1 DEF Wait, forwardVars, ClientTypeOK
<1>8. at[t] = "dialing" => net[t] = "tcp"
  BY <1>1 DEF Timed
<1>9. Placed(t)'
  BY <1>1, <1>7 DEF Placed
<1>10. ASSUME at[t] = "dial" PROVE Timed(t)'
  BY <1>1, <1>2, <1>3, <1>7, <1>10 DEF Timed
<1>11. ASSUME at[t] = "dialing", l = "wait" PROVE Timed(t)'
  BY <1>1, <1>2, <1>3, <1>7, <1>8, <1>11 DEF Timed
<1>12. Timed(t)'
  BY <1>10, <1>11
<1> QED BY <1>5, <1>6, <1>9, <1>12, OneTask

\* A task ends.
LEMMA DoneKeeps ==
  ASSUME TimeInv, NEW t \in Task, NEW r \in {"none", "relayed", "servfail"}, Done(t, r), at[t] = "no"
  PROVE  TimeInv'
<1>1. /\ ClientTypeOK /\ ForwardTypeOK /\ Bounded /\ Placed(t) /\ Timed(t)
      /\ MaxBudget \in Nat /\ OverallTimeout \in Nat /\ Upstreams \in Nat \ {0}
  BY BudgetFacts, ForwardAssumption, TasksAssumption DEF TimeInv
<1>2. /\ up' \in [Task -> 1..(Upstreams + 1)] /\ ctxLeft' \in [Task -> Nat]
      /\ err' \in [Task -> Failures \cup {"none"}]
  BY <1>1 DEF Done, ClientTypeOK
<1>3. ClientTypeOK' /\ Bounded'
  BY <1>1, <1>2 DEF Done, ClientTypeOK, Bounded
<1>4. ForwardTypeOK' /\ \A s \in Task \ {t} : Same(s)
  BY <1>1 DEF Done, Goto, ClientTypeOK, ForwardTypeOK, Same
<1>5. /\ at'[t] = "no" /\ pc'[t] = "done" /\ budget'[t] = budget[t]
      /\ ctxLeft'[t] = 0 /\ age'[t] = 0
  BY <1>1 DEF Done, Goto, ClientTypeOK, ForwardTypeOK
<1>6. Placed(t)' /\ Timed(t)'
  BY <1>1, <1>5 DEF Placed, Timed
<1> QED BY <1>3, <1>4, <1>6, OneTask

\* Every step keeps the bounds on the time of the exchanges.
LEMMA TimeStep ==
  TimeInv /\ CountInv /\ [Next]_vars => TimeInv'
<1> SUFFICES ASSUME TimeInv, CountInv, [Next]_vars
             PROVE  TimeInv'
  OBVIOUS
<1>1. /\ ClientTypeOK /\ ForwardTypeOK /\ Bounded
      /\ \A s \in Task : Placed(s) /\ Timed(s)
      /\ MaxBudget \in Nat /\ OverallTimeout \in Nat \ {0} /\ Upstreams \in Nat \ {0}
      /\ hopAt \in [Task \ Forwards -> 1..Upstreams]
  BY BudgetFacts, ForwardAssumption, TasksAssumption DEF TimeInv
<1>2. \A s \in Task : rec[s] = "add" => pc[s] = "record"
  BY DEF CountInv, Listed
<1>3. ASSUME NEW s \in Task, pc[s] \in {"loop", "record"} PROVE at[s] = "no"
  BY <1>1, <1>3 DEF Placed
<1>4. ASSUME NEW s \in Task, ctxLeft[s] > 0 PROVE ctxLeft[s] \in Nat \ {0} /\ ctxLeft[s] <= OverallTimeout
  BY <1>1, <1>4 DEF Timed, ClientTypeOK, ForwardTypeOK
<1>5. ASSUME NEW t \in Task, ForwardBegin(t) PROVE TimeInv'
  <2>1. Placed(t) /\ Timed(t)
    BY <1>1
  <2>2. ClientTypeOK' /\ Bounded'
    BY <1>5, <1>1 DEF ForwardBegin, exchangeVars, ClientTypeOK, Bounded
  <2>3. ForwardTypeOK' /\ \A s \in Task \ {t} : Same(s)
    BY <1>5, <1>1 DEF ForwardBegin, Goto, exchangeVars, ClientTypeOK, ForwardTypeOK, Same
  <2>4. Placed(t)' /\ Timed(t)'
    BY <1>5, <1>1, <2>1 DEF ForwardBegin, Goto, exchangeVars, ClientTypeOK, ForwardTypeOK, Placed, Timed
  <2> QED BY <2>2, <2>3, <2>4, OneTask
<1>6. ASSUME NEW t \in Task, ForwardFail(t) PROVE TimeInv'
  BY <1>6, <1>3, DoneKeeps DEF ForwardFail
<1>7. ASSUME NEW t \in Task, ForwardAttempt(t) PROVE TimeInv'
  <2>1. ctxLeft[t] > 0 /\ up[t] \in 1..Upstreams
    BY <1>7, <1>1 DEF ForwardAttempt, Exchange, ClientTypeOK
  <2>2. Least(ForwardTimeout, ctxLeft[t]) \in Nat /\ Least(ForwardTimeout, ctxLeft[t]) <= MaxBudget
    BY <2>1, <1>4, BudgetFacts
  <2> QED BY <1>7, <2>1, <2>2, ExchangeKeeps DEF ForwardAttempt
<1>8. ASSUME NEW t \in Task, ForwardRecord(t) PROVE TimeInv'
  <2>1. Placed(t) /\ Timed(t)
    BY <1>1
  <2>2. ClientTypeOK' /\ Bounded'
    BY <1>8, <1>1 DEF ForwardRecord, clientVars, exchangeVars, ClientTypeOK, Bounded
  <2>3. ForwardTypeOK' /\ \A s \in Task \ {t} : Same(s)
    BY <1>8, <1>1 DEF ForwardRecord, Goto, clientVars, exchangeVars, ForwardTypeOK, Same
  <2>4. Placed(t)' /\ Timed(t)'
    BY <1>8, <1>1, <2>1 DEF ForwardRecord, Goto, clientVars, exchangeVars, ForwardTypeOK, Placed, Timed
  <2> QED BY <2>2, <2>3, <2>4, OneTask
<1>9. ASSUME NEW t \in Task, ForwardNext(t) PROVE TimeInv'
  <2>1. pc[t] = "record" /\ at[t] = "no"
    BY <1>9, <1>2, <1>3 DEF ForwardNext, Add
  <2>2. CASE Done(t, "relayed")
    BY <2>1, <2>2, DoneKeeps
  <2>3. CASE Goto(t, "loop") /\ up' = [up EXCEPT ![t] = @ + 1]
             /\ UNCHANGED <<timeout, at, net, budget, left, err, ctxLeft, reply, age>>
    <3>1. Placed(t) /\ Timed(t) /\ up[t] \in 1..Upstreams
      BY <1>1, <2>1 DEF Placed
    <3>2. up' \in [Task -> 1..(Upstreams + 1)]
      BY <2>3, <1>1, <3>1 DEF ClientTypeOK
    <3>3. ClientTypeOK' /\ Bounded'
      BY <2>3, <1>1, <3>2 DEF ClientTypeOK, Bounded
    <3>4. ForwardTypeOK' /\ \A s \in Task \ {t} : Same(s)
      BY <2>3, <1>1 DEF Goto, ClientTypeOK, ForwardTypeOK, Same
    <3>5. Placed(t)' /\ Timed(t)'
      BY <2>3, <2>1, <1>1, <3>1 DEF Goto, ForwardTypeOK, Placed, Timed
    <3> QED BY <3>3, <3>4, <3>5, OneTask
  <2> QED BY <1>9, <2>2, <2>3 DEF ForwardNext
<1>10. ASSUME NEW t \in Task, HopBegin(t) PROVE TimeInv'
  <2>1. PICK d \in 1..OverallTimeout : /\ ctxLeft' = [ctxLeft EXCEPT ![t] = d]
                                       /\ age' = [age EXCEPT ![t] = OverallTimeout - d]
    BY <1>10 DEF HopBegin
  <2>2. Placed(t) /\ Timed(t) /\ d \in Nat /\ OverallTimeout - d \in Nat
    BY <1>1
  <2>3. ctxLeft' \in [Task -> Nat] /\ age' \in [Task -> Nat]
    BY <1>1, <2>1, <2>2 DEF ClientTypeOK, ForwardTypeOK
  <2>4. ClientTypeOK' /\ ForwardTypeOK' /\ Bounded'
    BY <1>10, <1>1, <2>3 DEF HopBegin, Goto, exchangeVars, ClientTypeOK, ForwardTypeOK, Bounded
  <2>5. \A s \in Task \ {t} : Same(s)
    BY <1>10, <1>1, <2>1 DEF HopBegin, Goto, exchangeVars, ClientTypeOK, ForwardTypeOK, Same
  <2>6. /\ at'[t] = at[t] /\ pc'[t] = "loop" /\ pc[t] = "idle" /\ budget'[t] = budget[t]
        /\ ctxLeft'[t] = d /\ age'[t] = OverallTimeout - d
    BY <1>10, <1>1, <2>1 DEF HopBegin, Goto, exchangeVars, ClientTypeOK, ForwardTypeOK
  <2>7. at'[t] = "no" /\ Placed(t)'
    BY <2>2, <2>6 DEF Placed
  <2>8. /\ MaxBudget \in Nat /\ OverallTimeout \in Nat /\ budget[t] <= MaxBudget
        /\ d \in Nat /\ OverallTimeout - d \in Nat
    BY <1>1, <2>2 DEF Timed
  <2>9. Timed(t)'
    BY <2>6, <2>7, <2>8 DEF Timed
  <2> QED BY <2>4, <2>5, <2>7, <2>9, OneTask
<1>11. ASSUME NEW t \in Task, Hop(t) PROVE TimeInv'
  <2>1. ctxLeft[t] > 0 /\ hopAt[t] \in 1..Upstreams
    BY <1>11, <1>1 DEF Hop, Exchange
  <2>2. Least(AttemptTimeout, ctxLeft[t]) \in Nat /\ Least(AttemptTimeout, ctxLeft[t]) <= MaxBudget
    BY <2>1, <1>4, BudgetFacts
  <2> QED BY <1>11, <2>1, <2>2, ExchangeKeeps DEF Hop
<1>12. ASSUME NEW t \in Task, HopRecord(t) PROVE TimeInv'
  <2>1. CASE Done(t, "none")
    BY <1>12, <2>1, DoneKeeps DEF HopRecord
  <2>2. CASE Goto(t, "record") /\ UNCHANGED <<clientVars, reply, age>>
    <3>1. Placed(t) /\ Timed(t) /\ pc[t] = "exchange" /\ at[t] = "no"
      BY <1>1, <1>12 DEF HopRecord
    <3>2. ClientTypeOK' /\ Bounded'
      BY <2>2, <1>1 DEF clientVars, exchangeVars, ClientTypeOK, Bounded
    <3>3. ForwardTypeOK' /\ \A s \in Task \ {t} : Same(s)
      BY <2>2, <1>1 DEF Goto, clientVars, exchangeVars, ForwardTypeOK, Same
    <3>4. Placed(t)' /\ Timed(t)'
      BY <2>2, <1>1, <3>1 DEF Goto, clientVars, exchangeVars, ForwardTypeOK, Placed, Timed
    <3> QED BY <3>2, <3>3, <3>4, OneTask
  <2> QED BY <1>12, <2>1, <2>2 DEF HopRecord
<1>13. ASSUME NEW t \in Task, HopNext(t) PROVE TimeInv'
  <2>1. at[t] = "no"
    BY <1>13, <1>2, <1>3 DEF HopNext, Add
  <2> QED BY <1>13, <2>1, DoneKeeps, TimeFrame DEF HopNext
<1>14. ASSUME NEW t \in Task, Retry(t), UNCHANGED forwardVars PROVE TimeInv'
  <2>1. CASE Return(t, "canceled") /\ timeout' = timeout
    BY <1>14, <2>1, ReturnKeeps DEF Retry, Failures
  <2>2. CASE /\ ctxLeft[t] > 0
             /\ at' = [at EXCEPT ![t] = "dial"]
             /\ timeout' = [timeout EXCEPT ![up[t]]["tcp"] = budget[t]]
             /\ UNCHANGED <<net, budget, left, err>>
    <3>1. /\ Placed(t) /\ Timed(t) /\ up[t] \in 1..Upstreams
          /\ budget[t] \in Nat /\ budget[t] <= MaxBudget
          /\ age[t] \in Nat /\ ctxLeft[t] \in Nat /\ pc[t] = "exchange"
      BY <1>1, <1>14 DEF Retry, Placed, Timed, ClientTypeOK, ForwardTypeOK
    <3>2. timeout' \in [1..Upstreams -> [{"udp", "tcp"} -> Nat]] /\ Bounded'
      BY <2>2, <1>1, <3>1, TimeoutFacts
    <3>3. ClientTypeOK'
      BY <1>14, <2>2, <1>1, <3>2 DEF Retry, ClientTypeOK
    <3>4. ForwardTypeOK' /\ \A s \in Task \ {t} : Same(s)
      BY <1>14, <2>2, <1>1 DEF Retry, forwardVars, ClientTypeOK, ForwardTypeOK, Same
    <3>5. /\ at'[t] = "dial" /\ up'[t] = up[t] /\ budget'[t] = budget[t]
          /\ ctxLeft'[t] = ctxLeft[t] /\ pc'[t] = pc[t] /\ age'[t] = age[t]
      BY <1>14, <2>2, <1>1 DEF Retry, forwardVars, ClientTypeOK
    <3>6. Placed(t)' /\ Timed(t)'
      BY <2>2, <1>1, <3>1, <3>5 DEF Placed, Timed
    <3> QED BY <3>2, <3>3, <3>4, <3>6, OneTask
  <2> QED BY <1>14, <2>1, <2>2 DEF Retry
<1>15. ASSUME NEW t \in Task, Dial(t) \/ Connected(t), UNCHANGED forwardVars PROVE TimeInv'
  BY <1>15, <1>1, WaitKeeps DEF Dial, Connected, ClientTypeOK
<1>16. ASSUME NEW t \in Task, Reply(t), UNCHANGED forwardVars PROVE TimeInv'
  <2>1. CASE Return(t, "none")
    BY <1>16, <2>1, ReturnKeeps DEF Reply
  <2>2. CASE /\ net' = [net EXCEPT ![t] = "tcp"]
             /\ at' = [at EXCEPT ![t] = "retry"]
             /\ left' = [left EXCEPT ![t] = 0]
             /\ UNCHANGED <<budget, err>>
    <3>1. Placed(t) /\ Timed(t)
      BY <1>1
    <3>2. ClientTypeOK' /\ Bounded'
      BY <1>16, <2>2, <1>1 DEF Reply, ClientTypeOK, Bounded
    <3>3. ForwardTypeOK' /\ \A s \in Task \ {t} : Same(s)
      BY <1>16, <2>2, <1>1 DEF Reply, forwardVars, ClientTypeOK, ForwardTypeOK, Same
    <3>4. Placed(t)' /\ Timed(t)'
      BY <1>16, <2>2, <1>1, <3>1 DEF Reply, forwardVars, ClientTypeOK, Placed, Timed
    <3> QED BY <3>2, <3>3, <3>4, OneTask
  <2> QED BY <1>16, <2>1, <2>2 DEF Reply
<1>17. ASSUME NEW t \in Task, TimedOut(t) \/ NetworkError(t), UNCHANGED forwardVars PROVE TimeInv'
  BY <1>17, ReturnKeeps DEF TimedOut, NetworkError, Failures
<1>18. ASSUME Tick PROVE TimeInv'
  <2>1. ClientTypeOK'
    BY <1>18, <1>1 DEF Tick, Less, ClientTypeOK
  <2>2. ForwardTypeOK' /\ Bounded'
    BY <1>18, <1>1 DEF Tick, ForwardTypeOK, Bounded
  <2>3. ASSUME NEW s \in Task PROVE Placed(s)' /\ Timed(s)'
    <3>1. Placed(s) /\ Timed(s)
      BY <1>1
    <3>2. /\ at'[s] = at[s] /\ net'[s] = net[s] /\ up'[s] = up[s] /\ budget'[s] = budget[s]
          /\ left'[s] = Less(left[s]) /\ ctxLeft'[s] = Less(ctxLeft[s]) /\ pc'[s] = pc[s]
          /\ age'[s] = IF pc[s] \in {"idle", "done"} THEN 0 ELSE age[s] + 1
      BY <1>18 DEF Tick
    <3>3. pc[s] \in {"idle", "done"} \/ (at[s] \in {"dialing", "wait"} /\ left[s] > 0)
      BY <1>18 DEF Tick, Settled
    <3>4. left[s] \in Nat /\ ctxLeft[s] \in Nat /\ age[s] \in Nat
      BY <1>1 DEF ClientTypeOK, ForwardTypeOK
    <3>5. CASE pc[s] \in {"idle", "done"}
      BY <3>1, <3>2, <3>4, <3>5, <1>1 DEF Less, Placed, Timed
    <3>6. CASE at[s] \in {"dialing", "wait"} /\ left[s] > 0
      <4>1. pc[s] = "exchange"
        BY <3>1, <3>6 DEF Placed
      <4>2. age'[s] = age[s] + 1
        BY <3>2, <4>1
      <4>3. left'[s] = left[s] - 1
        BY <3>2, <3>4, <3>6 DEF Less
      <4> DEFINE c == ctxLeft[s]
                 n == ctxLeft'[s]
      <4>4. c \in Nat /\ n = IF c = 0 THEN 0 ELSE c - 1
        BY <3>2, <3>4 DEF Less
      <4> HIDE DEF c, n
      <4>5. n > 0 => n = c - 1 /\ c > 0
        BY <4>4
      <4> USE DEF c, n
      <4>6. Placed(s)'
        BY <3>1, <3>2, <4>1 DEF Placed
      <4>7. MaxBudget \in Nat /\ OverallTimeout \in Nat
        BY <1>1
      <4>8. Timed(s)'
        BY <3>1, <3>2, <3>4, <3>6, <4>2, <4>3, <4>5, <4>7 DEF Timed
      <4> QED BY <4>6, <4>8
    <3> QED BY <3>3, <3>5, <3>6
  <2> QED BY <2>1, <2>2, <2>3 DEF TimeInv
<1>19. ASSUME UNCHANGED <<clientVars, forwardVars>> PROVE TimeInv'
  BY <1>19, TimeFrame
<1> QED
  BY <1>5, <1>6, <1>7, <1>8, <1>9, <1>10, <1>11, <1>12, <1>13, <1>14, <1>15, <1>16, <1>17, <1>18, <1>19
     DEF Next, Step, Environment, vars

-----------------------------------------------------------------------------
SameRecord(s) ==
  rec'[s] = rec[s] /\ todo'[s] = todo[s] /\ obj'[s] = obj[s] /\ (rec[s] # "none" => pc'[s] = pc[s])

\* A step of a task that is not inserting, and does not change the map, concerns
\* no other task.
LEMMA OneRecord ==
  ASSUME CountInv, NEW t \in Task, MetricsTypeOK', created' = created, mu' = mu, rec[t] # "insert",
         \A s \in Task \ {t} : SameRecord(s), Listed(t)', Counted(t)'
  PROVE  CountInv'
<1>1. ASSUME NEW s \in Task \ {t} PROVE Listed(s)'
  BY <1>1 DEF CountInv, SameRecord, Listed
<1>2. ASSUME NEW s \in Task \ {t} PROVE Counted(s)'
  <2>1. Counted(s) /\ SameRecord(s)
    BY DEF CountInv
  <2>2. ASSUME rec[s] = "add", obj[s] # created[Head(todo[s])]
        PROVE  obj[s] \in Task \ {t} /\ SameRecord(obj[s])
    BY <2>1, <2>2 DEF Counted, Shared, Inserting
  <2> QED BY <2>1, <2>2 DEF Counted, Shared, Inserting, SameRecord
<1> QED BY <1>1, <1>2 DEF CountInv

\* A new list of counters is recorded.
LEMMA RecordKeeps ==
  ASSUME CountInv, NEW t \in Task, NEW ks \in Seq(Counter), ks # <<>>, t \in Forwards => Tail(ks) = <<>>,
         rec[t] = "none", ForwardTypeOK, Record(t, ks), Goto(t, "record")
  PROVE  CountInv'
<1>1. MetricsTypeOK
  BY DEF CountInv
<1>2. MetricsTypeOK'
  BY <1>1 DEF Record, MetricsTypeOK
<1>3. \A s \in Task \ {t} : SameRecord(s)
  BY <1>1 DEF Record, Goto, MetricsTypeOK, ForwardTypeOK, SameRecord
<1>4. rec'[t] = "look" /\ todo'[t] = ks /\ pc'[t] = "record" /\ created' = created /\ mu' = mu
  BY <1>1 DEF Record, Goto, MetricsTypeOK, ForwardTypeOK
<1>5. Listed(t)' /\ Counted(t)'
  BY <1>4 DEF Listed, Counted
<1> QED BY <1>2, <1>3, <1>4, <1>5, OneRecord

\* The Add, after which the task goes on or has nothing left to record.
LEMMA AddKeeps ==
  ASSUME CountInv, NEW t \in Task, Add(t), ForwardTypeOK,
         \A s \in Task \ {t} : pc'[s] = pc[s],
         Tail(todo[t]) # <<>> => t \notin Forwards /\ pc' = pc
  PROVE  CountInv'
<1>1. MetricsTypeOK /\ Listed(t) /\ rec[t] = "add"
  BY DEF CountInv, Add
<1>2. todo[t] # <<>> /\ Tail(todo[t]) \in Seq(Counter)
  BY <1>1, TodoFacts DEF Listed
<1>3. MetricsTypeOK'
  BY <1>1, <1>2 DEF Add, MetricsTypeOK
<1>4. \A s \in Task \ {t} : SameRecord(s)
  BY <1>1 DEF Add, MetricsTypeOK, SameRecord
<1>5. /\ rec'[t] = IF Tail(todo[t]) = <<>> THEN "none" ELSE "look"
      /\ todo'[t] = Tail(todo[t]) /\ created' = created /\ mu' = mu
  BY <1>1 DEF Add, MetricsTypeOK
<1>6. Listed(t)' /\ Counted(t)'
  BY <1>1, <1>5 DEF Listed, Counted
<1> QED BY <1>1, <1>3, <1>4, <1>5, <1>6, OneRecord

\* An object is found, in the map or about to be there.
LEMMA FoundKeeps ==
  ASSUME CountInv, NEW t \in Task, rec[t] \in {"look", "lock"}, NEW o \in Task, Found(t, o),
         LET k == Head(todo[t])
         IN  created[k] = o \/ (o \in Inserting(k) /\ Head(todo[o]) = k),
         UNCHANGED <<created, mu, todo, crashed, pc>>
  PROVE  CountInv'
<1>1. MetricsTypeOK /\ Listed(t)
  BY DEF CountInv
<1>2. MetricsTypeOK'
  BY <1>1 DEF Found, MetricsTypeOK
<1>3. \A s \in Task \ {t} : SameRecord(s)
  BY <1>1 DEF Found, MetricsTypeOK, SameRecord
<1>4. rec'[t] = "add" /\ obj'[t] = o
  BY <1>1 DEF Found, MetricsTypeOK
<1>5. Listed(t)'
  BY <1>1, <1>4 DEF Listed
<1>6. Shared(t)'
  <2> DEFINE k == Head(todo[t])
  <2>1. ASSUME o \in Inserting(k), Head(todo[o]) = k
        PROVE  o \in Inserting(k)' /\ Head(todo'[o]) = k
    <3>1. o # t /\ SameRecord(o)
      BY <2>1, <1>3 DEF Inserting
    <3> QED BY <2>1, <3>1 DEF Inserting, SameRecord
  <2> QED BY <1>4, <2>1 DEF Shared
<1>7. Counted(t)'
  BY <1>4, <1>6 DEF Counted
<1> QED BY <1>2, <1>3, <1>5, <1>7, OneRecord

\* Every step keeps the counters in order.
LEMMA CountStep ==
  TimeInv /\ CountInv /\ [Next]_vars => CountInv'
<1> SUFFICES ASSUME TimeInv, CountInv, [Next]_vars
             PROVE  CountInv'
  OBVIOUS
<1>1. ForwardTypeOK /\ MetricsTypeOK /\ ClientTypeOK /\ \A s \in Task : Listed(s) /\ Counted(s) /\ Placed(s)
  BY DEF TimeInv, CountInv
<1>2. ASSUME NEW t \in Task, pc[t] # "record",
             \A s \in Task \ {t} : pc'[s] = pc[s], UNCHANGED metricsVars
      PROVE  CountInv'
  BY <1>1, <1>2, MetricsFrame DEF Listed
<1>3. ASSUME NEW t \in Task, NEW l, Goto(t, l) PROVE \A s \in Task \ {t} : pc'[s] = pc[s]
  BY <1>1, <1>3 DEF Goto, ForwardTypeOK
<1>4. ASSUME NEW t \in Task,
             ForwardBegin(t) \/ ForwardFail(t) \/ ForwardAttempt(t) \/ HopBegin(t) \/ Hop(t)
      PROVE  CountInv'
  BY <1>2, <1>3, <1>4 DEF ForwardBegin, ForwardFail, ForwardAttempt, HopBegin, Hop, Done
<1>5. ASSUME NEW t \in Task, ForwardRecord(t) PROVE CountInv'
  <2>1. rec[t] = "none" /\ up[t] \in 1..Upstreams
    BY <1>1, <1>5 DEF ForwardRecord, Listed, Placed
  <2> DEFINE ks == << <<up[t], IF err[t] = "none" THEN "forwarded" ELSE err[t]>> >>
  <2>2. ks \in Seq(Counter) /\ ks # <<>> /\ Tail(ks) = <<>>
    BY <1>1, <2>1, RecordedFacts
  <2>3. Record(t, ks) /\ Goto(t, "record")
    BY <1>5 DEF ForwardRecord
  <2> HIDE DEF ks
  <2> QED BY <1>1, <2>1, <2>2, <2>3, RecordKeeps
<1>6. ASSUME NEW t \in Task, ForwardNext(t) PROVE CountInv'
  <2>1. Add(t) /\ Tail(todo[t]) = <<>>
    BY <1>1, <1>6 DEF ForwardNext, Add, Listed
  <2>2. \A s \in Task \ {t} : pc'[s] = pc[s]
    BY <1>3, <1>6 DEF ForwardNext, Done
  <2> QED BY <1>1, <2>1, <2>2, AddKeeps
<1>7. ASSUME NEW t \in Task, HopRecord(t) PROVE CountInv'
  <2>1. rec[t] = "none" /\ up[t] \in 1..Upstreams /\ t \notin Forwards /\ pc[t] = "exchange"
    BY <1>1, <1>7 DEF HopRecord, Listed, Placed
  <2>2. CASE Done(t, "none") /\ UNCHANGED metricsVars
    BY <1>2, <1>3, <2>1, <2>2 DEF Done
  <2> DEFINE ks == IF err[t] = "none" THEN << <<up[t], "answer">> >>
                   ELSE << <<up[t], "failure">>, <<up[t], err[t]>> >>
  <2>3. CASE Record(t, ks) /\ Goto(t, "record")
    <3>1. ks \in Seq(Counter) /\ ks # <<>>
      BY <1>1, <2>1, RecordedFacts
    <3> HIDE DEF ks
    <3> QED BY <1>1, <2>1, <2>3, <3>1, RecordKeeps
  <2> QED BY <1>7, <2>2, <2>3 DEF HopRecord
<1>8. ASSUME NEW t \in Task, HopNext(t) PROVE CountInv'
  <2>1. CASE Tail(todo[t]) = <<>> /\ Done(t, "none")
    <3>1. \A s \in Task \ {t} : pc'[s] = pc[s]
      BY <1>3, <2>1 DEF Done
    <3> QED BY <1>1, <1>8, <2>1, <3>1, AddKeeps DEF HopNext
  <2>2. CASE UNCHANGED <<clientVars, forwardVars>>
    BY <1>1, <1>8, <2>2, AddKeeps DEF HopNext, forwardVars
  <2> QED BY <1>8, <2>1, <2>2 DEF HopNext
<1>9. ASSUME NEW t \in Task, Look(t), UNCHANGED forwardVars PROVE CountInv'
  <2> DEFINE k == Head(todo[t])
  <2>1. rec[t] = "look" /\ UNCHANGED <<created, mu, todo, pc>> /\ k \in Counter
    BY <1>1, <1>9, TodoFacts DEF Look, forwardVars, Listed
  <2>2. CASE created[k] # NoTask /\ Found(t, created[k]) /\ crashed' = crashed
    <3>1. created[k] \in Task
      BY <1>1, <2>1, <2>2 DEF MetricsTypeOK
    <3> QED BY <2>1, <2>2, <3>1, FoundKeeps
  <2>3. CASE rec' = [rec EXCEPT ![t] = "lock"] /\ UNCHANGED <<obj, crashed>>
    <3>1. MetricsTypeOK'
      BY <1>1, <2>1, <2>3 DEF MetricsTypeOK
    <3>2. \A s \in Task \ {t} : SameRecord(s)
      BY <1>1, <2>1, <2>3 DEF MetricsTypeOK, SameRecord
    <3>3. rec'[t] = "lock"
      BY <1>1, <2>3 DEF MetricsTypeOK
    <3>4. Listed(t)' /\ Counted(t)'
      BY <1>1, <2>1, <3>3 DEF Listed, Counted
    <3> QED BY <2>1, <3>1, <3>2, <3>4, OneRecord
  <2>4. CASE \E s \in Inserting(k) : Head(todo[s]) = k /\ Found(t, s) /\ crashed' = crashed
    BY <2>1, <2>4, FoundKeeps DEF Inserting
  <2>5. CASE crashed' = TRUE /\ UNCHANGED <<rec, obj>>
    <3>1. MetricsTypeOK'
      BY <1>1, <2>1, <2>5 DEF MetricsTypeOK
    <3>2. \A s \in Task : Listed(s)' /\ Counted(s)'
      BY <1>1, <2>1, <2>5 DEF Listed, Counted, Shared, Inserting
    <3> QED BY <3>1, <3>2 DEF CountInv
  <2> QED BY <1>9, <2>2, <2>3, <2>4, <2>5 DEF Look
<1>10. ASSUME NEW t \in Task, Acquire(t), UNCHANGED forwardVars PROVE CountInv'
  <2> DEFINE k == Head(todo[t])
  <2>1. /\ rec[t] = "lock" /\ mu = NoTask /\ UNCHANGED <<created, todo, crashed, pc>>
        /\ k \in Counter /\ todo[t] # <<>>
    BY <1>1, <1>10, TodoFacts DEF Acquire, forwardVars, Listed
  <2>2. CASE created[k] # NoTask /\ Found(t, created[k]) /\ mu' = mu
    <3>1. created[k] \in Task
      BY <1>1, <2>1, <2>2 DEF MetricsTypeOK
    <3> QED BY <2>1, <2>2, <3>1, FoundKeeps
  <2>3. CASE created[k] = NoTask /\ mu' = t /\ rec' = [rec EXCEPT ![t] = "insert"] /\ obj' = obj
    <3>1. MetricsTypeOK'
      BY <1>1, <2>1, <2>3 DEF MetricsTypeOK
    <3>2. rec'[t] = "insert" /\ \A s \in Task \ {t} : rec'[s] = rec[s]
      BY <1>1, <2>3 DEF MetricsTypeOK
    <3>3. \A s \in Task : rec[s] # "insert"
      BY <1>1, <2>1, TasksAssumption DEF Counted
    <3>4. ASSUME NEW s \in Task PROVE Listed(s)'
      BY <1>1, <2>1, <3>2 DEF Listed
    <3>5. ASSUME NEW s \in Task PROVE Counted(s)'
      <4>1. rec[s] = "add" => obj[s] \in Task /\ created[Head(todo[s])] = obj[s]
        BY <1>1, <3>3 DEF Counted, Shared, Inserting
      <4> QED BY <2>1, <2>3, <3>2, <3>3, <4>1 DEF Counted, Shared
    <3> QED BY <3>1, <3>4, <3>5 DEF CountInv
  <2> QED BY <1>10, <2>2, <2>3 DEF Acquire
<1>11. ASSUME NEW t \in Task, Insert(t), UNCHANGED forwardVars PROVE CountInv'
  <2> DEFINE k == Head(todo[t])
  <2>1. /\ rec[t] = "insert" /\ mu = t /\ created[k] = NoTask /\ UNCHANGED <<todo, crashed, pc>>
        /\ k \in Counter /\ todo[t] # <<>> /\ mu' = NoTask
    BY <1>1, <1>11, TodoFacts DEF Insert, forwardVars, Listed, Counted
  <2>2. /\ created' = [created EXCEPT ![k] = t] /\ obj' = [obj EXCEPT ![t] = t]
        /\ rec' = [rec EXCEPT ![t] = "add"]
    BY <1>11 DEF Insert, Found
  <2>3. MetricsTypeOK'
    BY <1>1, <2>1, <2>2 DEF MetricsTypeOK
  <2>4. /\ rec'[t] = "add" /\ obj'[t] = t /\ created'[k] = t
        /\ \A s \in Task \ {t} : rec'[s] = rec[s] /\ obj'[s] = obj[s] /\ rec[s] # "insert"
        /\ \A l \in Counter \ {k} : created'[l] = created[l]
    BY <1>1, <2>1, <2>2 DEF MetricsTypeOK, Counted
  <2>5. ASSUME NEW s \in Task PROVE Listed(s)'
    BY <1>1, <2>1, <2>4 DEF Listed
  <2>6. ASSUME NEW s \in Task PROVE Counted(s)'
    <3>1. CASE s = t
      BY <2>1, <2>4, <3>1 DEF Counted, Shared
    <3>2. CASE s # t /\ rec[s] = "add"
      <4>1. obj[s] \in Task /\ Shared(s) /\ Head(todo[s]) \in Counter
        BY <1>1, <3>2, TodoFacts DEF Counted, Listed
      <4>2. CASE created[Head(todo[s])] = obj[s]
        BY <2>1, <2>4, <3>2, <4>1, <4>2, TasksAssumption DEF Counted, Shared
      <4>3. CASE obj[s] \in Inserting(Head(todo[s])) /\ Head(todo[obj[s]]) = Head(todo[s])
        <5>1. obj[s] = t
          BY <2>4, <4>3 DEF Inserting
        <5> QED BY <2>1, <2>4, <3>2, <4>3, <5>1 DEF Counted, Shared
      <4> QED BY <4>1, <4>2, <4>3 DEF Shared
    <3>3. CASE s # t /\ rec[s] # "add"
      BY <2>4, <3>3 DEF Counted
    <3> QED BY <3>1, <3>2, <3>3
  <2> QED BY <2>3, <2>5, <2>6 DEF CountInv
<1>12. ASSUME Write, UNCHANGED forwardVars PROVE CountInv'
  <2>1. MetricsTypeOK'
    BY <1>1, <1>12 DEF Write, MetricsTypeOK
  <2>2. \A s \in Task : Listed(s)' /\ Counted(s)'
    BY <1>1, <1>12 DEF Write, forwardVars, Listed, Counted, Shared, Inserting
  <2> QED BY <2>1, <2>2 DEF CountInv
<1>13. ASSUME UNCHANGED metricsVars, pc' = pc PROVE CountInv'
  BY <1>13, MetricsFrame
<1> QED
  BY <1>4, <1>5, <1>6, <1>7, <1>8, <1>9, <1>10, <1>11, <1>12, <1>13
     DEF Next, Step, Environment, Tick, vars, forwardVars

-----------------------------------------------------------------------------
\* The two halves of the inductive invariant hold always.
LEMMA Inductive == Spec => [](TimeInv /\ CountInv)
<1>1. Init => TimeInv
  <2> SUFFICES ASSUME Init PROVE TimeInv
    OBVIOUS
  <2> USE ForwardAssumption, TasksAssumption, BudgetFacts
  <2>1. ClientTypeOK /\ ForwardTypeOK
    BY DEF Init, ClientInit, ClientTypeOK, ForwardTypeOK
  <2>2. Bounded
    BY DEF Init, ClientInit, Bounded
  <2>3. ASSUME NEW t \in Task PROVE Placed(t) /\ Timed(t)
    BY DEF Init, ClientInit, Placed, Timed
  <2> QED BY <2>1, <2>2, <2>3 DEF TimeInv
<1>2. Init => CountInv
  <2> SUFFICES ASSUME Init PROVE CountInv
    OBVIOUS
  <2>1. <<>> \in Seq(Counter)
    OBVIOUS
  <2>2. MetricsTypeOK
    BY <2>1 DEF Init, MetricsInit, MetricsTypeOK
  <2>3. ASSUME NEW t \in Task PROVE Listed(t) /\ Counted(t)
    BY DEF Init, MetricsInit, Listed, Counted
  <2> QED BY <2>2, <2>3 DEF CountInv
<1> QED BY <1>1, <1>2, TimeStep, CountStep, PTL DEF Spec

\* Every variable has its type.
THEOREM TypeCorrect == Spec => []TypeOK
<1>1. TimeInv /\ CountInv => TypeOK
  BY DEF TimeInv, CountInv, ForwardTypeOK, TypeOK
<1> QED BY <1>1, Inductive, PTL

\* forward, and a hop beside it, end within the query's deadline and two budgets,
\* although every exchange may run under the budgets of others.
THEOREM EndsInTime == Spec => []ForwardWithin
<1>1. TimeInv => ForwardWithin
  BY DEF TimeInv, Timed, ForwardWithin
<1> QED BY <1>1, Inductive, PTL

\* The second look under the mutex is enough: no counter is replaced and none is
\* bumped outside the map.
THEOREM CountsKept == Spec => NoLostCount
<1> DEFINE Kept ==
      /\ \A k \in Counter : created[k] # NoTask => created'[k] = created[k]
      /\ \A t \in Task : rec[t] = "add" =>
           LET k == Head(todo[t])
           IN  created[k] = obj[t] \/ (obj[t] \in Inserting(k) /\ Head(todo[obj[t]]) = k)
<1>1. CountInv /\ [Next]_vars => [Kept]_vars
  <2> SUFFICES ASSUME CountInv, [Next]_vars PROVE Kept
    OBVIOUS
  <2>1. \A t \in Task : rec[t] = "add" =>
           LET k == Head(todo[t])
           IN  created[k] = obj[t] \/ (obj[t] \in Inserting(k) /\ Head(todo[obj[t]]) = k)
    BY DEF CountInv, Counted, Shared
  <2>2. CASE created' = created
    BY <2>1, <2>2
  <2>3. CASE \E t \in Task : Insert(t)
    <3>1. PICK t \in Task : Insert(t)
      BY <2>3
    <3>2. created[Head(todo[t])] = NoTask /\ created \in [Counter -> Task \cup {NoTask}]
      BY <3>1 DEF CountInv, Counted, Insert, MetricsTypeOK
    <3> QED BY <2>1, <3>1, <3>2 DEF Insert
  <2>4. created' = created \/ \E t \in Task : Insert(t)
    BY DEF Next, Step, Environment, Tick, vars, metricsVars, ForwardBegin, ForwardFail, ForwardAttempt,
       ForwardRecord, ForwardNext, HopBegin, Hop, HopRecord, HopNext, Record, Add, Look, Acquire, Write
  <2> QED BY <2>2, <2>3, <2>4
<1> QED BY <1>1, Inductive, PTL DEF Spec, NoLostCount
=============================================================================
