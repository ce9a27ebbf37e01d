------------------------------- MODULE Client -------------------------------
(***************************************************************************)
(* internal/upstream/client.go: exchanges of several goroutines over the   *)
(* clients they share, one client per upstream.                            *)
(*                                                                         *)
(* exchangeNet writes its budget into the Timeout field of the shared      *)
(* dns.Client and then calls it, without a lock.  The library reads the    *)
(* field when it dials and again when it sets the deadline of the reply:   *)
(* each time the last budget written by anybody.                           *)
(***************************************************************************)
EXTENDS Tasks

VARIABLES
  timeout,  \* the Timeout fields of each upstream's UDP and TCP clients
  at,       \* each exchange: "no", "dial", "dialing", "wait" or "retry"
  net,      \* its transport
  up,       \* its upstream
  budget,   \* its budget
  left,     \* time left of the deadline it waits under
  err,      \* how the last exchange ended: "none" or the error's category
  ctxLeft   \* time left of the context's deadline

exchangeVars == <<timeout, at, net, up, budget, left, err>>
clientVars == <<exchangeVars, ctxLeft>>

\* Every variable has its type.
ClientTypeOK ==
  /\ timeout \in [1..Upstreams -> [{"udp", "tcp"} -> Nat]]
  /\ at \in [Task -> {"no", "dial", "dialing", "wait", "retry"}]
  /\ net \in [Task -> {"udp", "tcp"}]
  /\ up \in [Task -> 1..(Upstreams + 1)]
  /\ budget \in [Task -> Nat] /\ left \in [Task -> Nat] /\ ctxLeft \in [Task -> Nat]
  /\ err \in [Task -> Failures \cup {"none"}]

ClientInit ==
  /\ timeout = [u \in 1..Upstreams |-> [n \in {"udp", "tcp"} |-> 0]]
  /\ at = [t \in Task |-> "no"]
  /\ net = [t \in Task |-> "udp"]
  /\ up = [t \in Task |-> 1]
  /\ budget = [t \in Task |-> 0]
  /\ left = [t \in Task |-> 0]
  /\ err = [t \in Task |-> "none"]
  /\ ctxLeft = [t \in Task |-> 0]

\* Exchange is called for upstream u with budget b.  Its callers have just seen
\* that the context is alive, so its own check passes, and exchangeNet writes.
Exchange(t, u, b) ==
  /\ ctxLeft[t] > 0
  /\ at' = [at EXCEPT ![t] = "dial"]
  /\ up' = [up EXCEPT ![t] = u]
  /\ budget' = [budget EXCEPT ![t] = b]
  /\ timeout' = [timeout EXCEPT ![u]["udp"] = b]
  /\ UNCHANGED <<net, left, err, ctxLeft>>

\* Exchange returns; Category maps its error.  What is no longer used is reset.
Return(t, e) ==
  /\ at' = [at EXCEPT ![t] = "no"]
  /\ err' = [err EXCEPT ![t] = e]
  /\ net' = [net EXCEPT ![t] = "udp"]
  /\ budget' = [budget EXCEPT ![t] = 0]
  /\ left' = [left EXCEPT ![t] = 0]

\* A mutated form: the context is not looked at.
RetryBlind(t) ==
  /\ at[t] = "retry"
  /\ at' = [at EXCEPT ![t] = "dial"]
  /\ timeout' = [timeout EXCEPT ![up[t]]["tcp"] = budget[t]]
  /\ UNCHANGED <<net, up, budget, left, err, ctxLeft>>

\* After a truncated reply: the check of the context, and exchangeNet's write.
Retry(t) ==
  /\ at[t] = "retry"
  /\ \/ ctxLeft[t] = 0 /\ Return(t, "canceled") /\ timeout' = timeout
     \/ /\ ctxLeft[t] > 0
        /\ at' = [at EXCEPT ![t] = "dial"]
        /\ timeout' = [timeout EXCEPT ![up[t]]["tcp"] = budget[t]]
        /\ UNCHANGED <<net, budget, left, err>>
  /\ UNCHANGED <<up, ctxLeft>>

\* The library reads the field and waits under it.
Wait(t, label) ==
  /\ at' = [at EXCEPT ![t] = label]
  /\ left' = [left EXCEPT ![t] = timeout[up[t]][net[t]]]
  /\ UNCHANGED <<timeout, net, up, budget, err, ctxLeft>>

\* A UDP socket is there at once, a TCP connection takes its time.
Dial(t) ==
  /\ at[t] = "dial"
  /\ Wait(t, IF net[t] = "udp" THEN "wait" ELSE "dialing")

Connected(t) == at[t] = "dialing" /\ Wait(t, "wait")

\* A reply, which ends the exchange unless it is truncated and came over UDP.
Reply(t) ==
  /\ at[t] = "wait"
  /\ \/ Return(t, "none")
     \/ /\ net[t] = "udp"
        /\ net' = [net EXCEPT ![t] = "tcp"]
        /\ at' = [at EXCEPT ![t] = "retry"]
        /\ left' = [left EXCEPT ![t] = 0]
        /\ UNCHANGED <<budget, err>>
  /\ UNCHANGED <<timeout, up, ctxLeft>>

\* The deadline passes, or the network or the message is at fault.
TimedOut(t) ==
  /\ at[t] \in {"dialing", "wait"} /\ left[t] = 0
  /\ Return(t, "timeout")
  /\ UNCHANGED <<timeout, up, ctxLeft>>

NetworkError(t) ==
  /\ at[t] \in {"dialing", "wait"}
  /\ Return(t, "network")
  /\ UNCHANGED <<timeout, up, ctxLeft>>
=============================================================================
