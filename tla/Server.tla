------------------------------- MODULE Server -------------------------------
(***************************************************************************)
(* internal/server/server.go: the intake loops, the slots, the goroutine   *)
(* of each datagram and each TCP connection, and the shutdown, for the     *)
(* handler of handler.go.                                                  *)
(*                                                                         *)
(* Time is counted in units that are long against scheduling: a unit       *)
(* passes (Tick) only when every goroutine waits for a client, for another *)
(* goroutine or for a timer that has not run out.  Within a unit, steps    *)
(* interleave freely.                                                      *)
(***************************************************************************)
EXTENDS Naturals, FiniteSets

CONSTANTS
  Query,            \* the datagrams that clients may send
  Conn,             \* the TCP connections that clients may open
  MaxConcurrency,
  OverallTimeout,
  TCPIdleTimeout,
  TCPAdmitTimeout,
  DrainGrace,
  ForwardLate,      \* how long after the query's deadline forward may return
  MaxFrames         \* bound on the requests a client sends over a connection

ASSUME ServerAssumption ==
  /\ IsFiniteSet(Query) /\ IsFiniteSet(Conn) /\ Query \cap Conn = {}
  /\ MaxConcurrency \in Nat \ {0}
  /\ OverallTimeout \in Nat \ {0} /\ DrainGrace \in Nat \ {0}
  /\ TCPIdleTimeout \in Nat /\ TCPAdmitTimeout \in Nat
  /\ ForwardLate \in Nat /\ MaxFrames \in Nat

Job == Query \cup Conn

VARIABLES
  ctxDone,    \* the serve context has ended
  main,       \* ListenAndServe: "listen", "serve", "drain" or "returned"
  how,        \* how it returned: "none", "error", "drained" or "timeout"
  stopper,    \* the goroutine that stops intake: "none", "wait", "tcp" or "end"
  waiter,     \* the goroutine in wg.Wait: "none", "waiting" or "done"
  drainLeft,  \* the drain's timer
  udpOpen, udpExpired,  \* the UDP socket; its read deadline has been set
  tcpOpen,    \* the TCP listener
  udp, tcp,   \* the loops: "off", "new", "read" or "accept", "admit", "add", "exit"
  admitLeft,  \* the accept loop's timer while it waits for a slot
  sem,        \* the number of tokens in the channel of slots
  wg,         \* the WaitGroup's counter
  st,         \* where each job is
  kind,       \* how the job's latest request is handled
  left,       \* the timer of the job's goroutine
  outcome,    \* (history) "lost" once the socket was closed before the reply
  frames,     \* (bound) requests read from each connection
  since       \* (history) the time since ctxDone

mainVars == <<ctxDone, main, how, stopper, waiter, drainLeft, since>>
sockVars == <<udpOpen, udpExpired, tcpOpen>>
loopVars == <<udp, tcp, admitLeft>>
reqVars  == <<kind, left, frames>>
vars == <<mainVars, sockVars, loopVars, sem, wg, st, reqVars, outcome>>

Goto(j, label) == st' = [st EXCEPT ![j] = label]

Lose(q) == outcome' = [outcome EXCEPT ![q] = "lost"]

-----------------------------------------------------------------------------
Init ==
  /\ ctxDone = FALSE /\ main = "listen" /\ how = "none" /\ since = 0
  /\ stopper = "none" /\ waiter = "none" /\ drainLeft = 0
  /\ udpOpen = FALSE /\ udpExpired = FALSE /\ tcpOpen = FALSE
  /\ udp \in {"new", "off"} /\ tcp \in {"new", "off"} /\ ~ (udp = "off" /\ tcp = "off")
  /\ admitLeft = 0
  /\ sem = 0 /\ wg = 0
  /\ st = [j \in Job |-> "out"]
  /\ kind = [j \in Job |-> "direct"]
  /\ left = [j \in Job |-> 0]
  /\ frames = [c \in Conn |-> 0]
  /\ outcome = [q \in Query |-> "none"]

\* SIGINT or SIGTERM.
Cancel ==
  /\ ~ ctxDone
  /\ ctxDone' = TRUE
  /\ UNCHANGED <<main, how, stopper, waiter, drainLeft, since, sockVars, loopVars,
                 sem, wg, st, reqVars, outcome>>

\* Both listeners come up and the goroutines start, or a listener fails and
\* nothing stays open.
Listen ==
  /\ main = "listen"
  /\ \/ /\ main' = "serve" /\ stopper' = "wait" /\ how' = how
        /\ udpOpen' = (udp = "new") /\ tcpOpen' = (tcp = "new")
        /\ udp' = IF udp = "new" THEN "read" ELSE "off"
        /\ tcp' = IF tcp = "new" THEN "accept" ELSE "off"
     \/ /\ main' = "returned" /\ how' = "error"
        /\ UNCHANGED <<stopper, udpOpen, tcpOpen, udp, tcp>>
  /\ UNCHANGED <<ctxDone, waiter, drainLeft, since, udpExpired, admitLeft,
                 sem, wg, st, reqVars, outcome>>

\* A mutated form: the UDP reader is not unblocked.
StopUDPNoDeadline ==
  /\ stopper = "wait" /\ ctxDone
  /\ stopper' = "tcp"
  /\ UNCHANGED <<ctxDone, main, how, waiter, drainLeft, since, sockVars, loopVars,
                 sem, wg, st, reqVars, outcome>>

\* The goroutine that stops intake: the read deadline, then the listener.
StopUDP ==
  /\ stopper = "wait" /\ ctxDone
  /\ stopper' = "tcp"
  /\ udpExpired' = udpOpen
  /\ UNCHANGED <<ctxDone, main, how, waiter, drainLeft, since, udpOpen, tcpOpen, loopVars,
                 sem, wg, st, reqVars, outcome>>

\* A mutated form: the listener stays open.
StopTCPOpen ==
  /\ stopper = "tcp"
  /\ stopper' = "end"
  /\ UNCHANGED <<ctxDone, main, how, waiter, drainLeft, since, sockVars, loopVars,
                 sem, wg, st, reqVars, outcome>>

StopTCP ==
  /\ stopper = "tcp"
  /\ stopper' = "end"
  /\ tcpOpen' = FALSE
  /\ UNCHANGED <<ctxDone, main, how, waiter, drainLeft, since, udpOpen, udpExpired, loopVars,
                 sem, wg, st, reqVars, outcome>>

-----------------------------------------------------------------------------
\* serveUDP.  An error while the context lives is logged and the loop goes on:
\* nothing changes.  The read deadline makes every read fail.
UDPReadExpired ==
  /\ udp = "read" /\ udpExpired
  /\ udp' = "exit"
  /\ UNCHANGED <<mainVars, sockVars, tcp, admitLeft, sem, wg, st, reqVars, outcome>>

\* Another error of the socket, once the context has ended.
UDPReadError ==
  /\ udp = "read" /\ ctxDone
  /\ udp' = "exit"
  /\ UNCHANGED <<mainVars, sockVars, tcp, admitLeft, sem, wg, st, reqVars, outcome>>

UDPRead ==
  /\ udp = "read" /\ ~ udpExpired
  /\ \E q \in Query :
       /\ st[q] = "out"
       /\ \/ Goto(q, "held") /\ udp' = "admit"
          \/ Goto(q, "done") /\ udp' = udp
  /\ UNCHANGED <<mainVars, sockVars, tcp, admitLeft, sem, wg, reqVars, outcome>>

\* A slot at once, or the datagram is dropped.
UDPAdmit ==
  /\ udp = "admit"
  /\ \E q \in Query :
       /\ st[q] = "held"
       /\ \/ /\ sem < MaxConcurrency
             /\ sem' = sem + 1
             /\ Goto(q, "slot") /\ udp' = "add"
          \/ /\ sem = MaxConcurrency
             /\ sem' = sem
             /\ Goto(q, "done") /\ udp' = "read"
  /\ UNCHANGED <<mainVars, sockVars, tcp, admitLeft, wg, reqVars, outcome>>

\* wg.Add and the go statement.
UDPSpawn ==
  /\ udp = "add"
  /\ \E q \in Query : st[q] = "slot" /\ Goto(q, "run")
  /\ wg' = wg + 1
  /\ udp' = "read"
  /\ UNCHANGED <<mainVars, sockVars, tcp, admitLeft, sem, reqVars, outcome>>

\* serveTCP.
TCPAcceptClosed ==
  /\ tcp = "accept" /\ ~ tcpOpen
  /\ tcp' = "exit"
  /\ UNCHANGED <<mainVars, sockVars, udp, admitLeft, sem, wg, st, reqVars, outcome>>

TCPAcceptError ==
  /\ tcp = "accept" /\ ctxDone
  /\ tcp' = "exit"
  /\ UNCHANGED <<mainVars, sockVars, udp, admitLeft, sem, wg, st, reqVars, outcome>>

TCPAccept ==
  /\ tcp = "accept" /\ tcpOpen
  /\ \E c \in Conn : st[c] = "out" /\ Goto(c, "held")
  /\ tcp' = "admit"
  /\ admitLeft' = TCPAdmitTimeout
  /\ UNCHANGED <<mainVars, sockVars, udp, sem, wg, reqVars, outcome>>

\* The select: a slot, or the timer; either when both are ready.
TCPAdmit ==
  /\ tcp = "admit" /\ sem < MaxConcurrency
  /\ sem' = sem + 1
  /\ \E c \in Conn : st[c] = "held" /\ Goto(c, "slot")
  /\ tcp' = "add"
  /\ admitLeft' = 0
  /\ UNCHANGED <<mainVars, sockVars, udp, wg, reqVars, outcome>>

TCPAdmitExpires ==
  /\ tcp = "admit" /\ admitLeft = 0
  /\ \E c \in Conn : st[c] = "held" /\ Goto(c, "done")
  /\ tcp' = "accept"
  /\ UNCHANGED <<mainVars, sockVars, udp, admitLeft, sem, wg, reqVars, outcome>>

TCPSpawn ==
  /\ tcp = "add"
  /\ \E c \in Conn : st[c] = "slot" /\ Goto(c, "run")
  /\ wg' = wg + 1
  /\ tcp' = "accept"
  /\ UNCHANGED <<mainVars, sockVars, udp, admitLeft, sem, reqVars, outcome>>

-----------------------------------------------------------------------------
\* handleRequest answers a request without question or with an unknown EDNS
\* version directly, and passes the others to Lookup or to forward.  It always
\* returns a response.
Kinds == {"direct", "lookup", "forward"}

\* How long it may take: Lookup returns by the query's deadline, forward's last
\* exchange starts before the deadline and may end after it.
Limit(k) ==
  CASE k = "direct"  -> 0
    [] k = "lookup"  -> OverallTimeout
    [] k = "forward" -> OverallTimeout + ForwardLate

\* The query's context is made and handleRequest called.
HandleBegin(j) ==
  /\ Goto(j, "handle")
  /\ \E k \in Kinds :
       /\ kind' = [kind EXCEPT ![j] = k]
       /\ left' = [left EXCEPT ![j] = Limit(k)]

HandleEnd(j) ==
  /\ st[j] = "handle"
  /\ Goto(j, "reply")
  /\ left' = [left EXCEPT ![j] = 0]
  /\ UNCHANGED <<mainVars, sockVars, loopVars, sem, wg, kind, frames, outcome>>

\* handleDatagram.
DatagramBegin(q) ==
  /\ st[q] = "run"
  /\ HandleBegin(q)
  /\ UNCHANGED <<mainVars, sockVars, loopVars, sem, wg, frames, outcome>>

\* The response is written, or it cannot be packed and is dropped, or the socket
\* is closed and the reply is lost.
DatagramReply(q) ==
  /\ st[q] = "reply"
  /\ Goto(q, "release")
  /\ \/ outcome' = outcome
     \/ ~ udpOpen /\ Lose(q)
  /\ UNCHANGED <<mainVars, sockVars, loopVars, sem, wg, reqVars>>

\* handleTCPConn: the read of the next request, with its deadline.
Await(c) ==
  /\ Goto(c, "idle")
  /\ left' = [left EXCEPT ![c] = TCPIdleTimeout]

ConnBegin(c) ==
  /\ st[c] = "run"
  /\ Await(c)
  /\ UNCHANGED <<mainVars, sockVars, loopVars, sem, wg, kind, frames, outcome>>

ConnRequest(c) ==
  /\ st[c] = "idle" /\ frames[c] < MaxFrames
  /\ frames' = [frames EXCEPT ![c] = @ + 1]
  /\ HandleBegin(c)
  /\ UNCHANGED <<mainVars, sockVars, loopVars, sem, wg, outcome>>

\* A mutated form: an idle connection is kept.
ConnIdleKept(c) ==
  /\ st[c] = "idle" /\ left[c] = 0
  /\ Await(c)
  /\ UNCHANGED <<mainVars, sockVars, loopVars, sem, wg, kind, frames, outcome>>

\* The idle timeout.
ConnIdle(c) ==
  /\ st[c] = "idle" /\ left[c] = 0
  /\ Goto(c, "release")
  /\ UNCHANGED <<mainVars, sockVars, loopVars, sem, wg, reqVars, outcome>>

\* The client closes or resets the connection, or sends a malformed frame; or
\* the response cannot be packed; or the write fails.
ConnBroken(c) ==
  /\ st[c] \in {"idle", "reply", "write"}
  /\ Goto(c, "release")
  /\ left' = [left EXCEPT ![c] = 0]
  /\ UNCHANGED <<mainVars, sockVars, loopVars, sem, wg, kind, frames, outcome>>

ConnReply(c) ==
  /\ st[c] = "reply"
  /\ Goto(c, "write")
  /\ left' = [left EXCEPT ![c] = OverallTimeout]
  /\ UNCHANGED <<mainVars, sockVars, loopVars, sem, wg, kind, frames, outcome>>

\* The write ends, or its deadline passes.
ConnWritten(c) ==
  /\ st[c] = "write"
  /\ Await(c)
  /\ UNCHANGED <<mainVars, sockVars, loopVars, sem, wg, kind, frames, outcome>>

ConnWriteExpires(c) ==
  /\ st[c] = "write" /\ left[c] = 0
  /\ Goto(c, "release")
  /\ UNCHANGED <<mainVars, sockVars, loopVars, sem, wg, reqVars, outcome>>

\* A mutated form: the slot is not given back.
ReleaseNothing(j) ==
  /\ st[j] = "release"
  /\ Goto(j, "signal")
  /\ UNCHANGED <<mainVars, sockVars, loopVars, sem, wg, reqVars, outcome>>

\* The deferred calls, last one first: the slot, then wg.Done.
Release(j) ==
  /\ st[j] = "release"
  /\ Goto(j, "signal")
  /\ sem' = sem - 1
  /\ UNCHANGED <<mainVars, sockVars, loopVars, wg, reqVars, outcome>>

Signal(j) ==
  /\ st[j] = "signal"
  /\ Goto(j, "done")
  /\ wg' = wg - 1
  /\ UNCHANGED <<mainVars, sockVars, loopVars, sem, reqVars, outcome>>

-----------------------------------------------------------------------------
\* A mutated form: the grace is forgotten.
DrainLimitBare == OverallTimeout

DrainLimit == OverallTimeout + DrainGrace

\* A mutated form: the drain starts without waiting for the intake loops.
LoopsOverAlways == TRUE

LoopsOver == udp \in {"off", "exit"} /\ tcp \in {"off", "exit"}

\* ListenAndServe after ctx.Done: it waits for the loops, then starts wg.Wait
\* and the timer.
Drain ==
  /\ main = "serve" /\ ctxDone /\ LoopsOver
  /\ main' = "drain"
  /\ waiter' = "waiting"
  /\ drainLeft' = DrainLimit
  /\ UNCHANGED <<ctxDone, how, stopper, since, sockVars, loopVars, sem, wg, st, reqVars, outcome>>

WaitReturns ==
  /\ waiter = "waiting" /\ wg = 0
  /\ waiter' = "done"
  /\ UNCHANGED <<ctxDone, main, how, stopper, drainLeft, since, sockVars, loopVars,
                 sem, wg, st, reqVars, outcome>>

\* The select of the drain: either, when both are ready.
DrainEnd(why) ==
  /\ main = "drain"
  /\ main' = "returned"
  /\ how' = why
  /\ udpOpen' = FALSE
  /\ UNCHANGED <<ctxDone, stopper, waiter, drainLeft, since, udpExpired, tcpOpen, loopVars,
                 sem, wg, st, reqVars, outcome>>

Drained == waiter = "done" /\ DrainEnd("drained")

DrainExpires == drainLeft = 0 /\ DrainEnd("timeout")

-----------------------------------------------------------------------------
\* Every goroutine waits for something that is not there yet.
Settled ==
  /\ \/ main = "serve" /\ ~ (ctxDone /\ LoopsOver)
     \/ main = "drain" /\ drainLeft > 0
  /\ ctxDone => stopper = "end"
  /\ waiter # "done" /\ ~ (waiter = "waiting" /\ wg = 0)
  /\ \/ udp \in {"off", "exit"}
     \/ udp = "read" /\ ~ udpExpired
  /\ \/ tcp \in {"off", "exit"}
     \/ tcp = "accept" /\ tcpOpen
     \/ tcp = "admit" /\ sem = MaxConcurrency /\ admitLeft > 0
  /\ \A j \in Job : \/ st[j] \in {"out", "held", "done"}
                    \/ st[j] \in {"handle", "idle", "write"} /\ left[j] > 0

Less(n) == IF n = 0 THEN 0 ELSE n - 1

\* The longest a shutdown may take: a connection may be waiting for a slot,
\* and then comes the drain.  (`since' stops just beyond it.)
ShutdownLimit == TCPAdmitTimeout + OverallTimeout + DrainGrace

\* Time passes.
Tick ==
  /\ Settled
  /\ drainLeft' = Less(drainLeft)
  /\ admitLeft' = Less(admitLeft)
  /\ left' = [j \in Job |-> Less(left[j])]
  /\ since' = IF ctxDone /\ since <= ShutdownLimit THEN since + 1 ELSE since
  /\ UNCHANGED <<ctxDone, main, how, stopper, waiter, sockVars, udp, tcp,
                 sem, wg, st, kind, frames, outcome>>

\* What the goroutines do of themselves.
Step ==
  \/ Listen \/ StopUDP \/ StopTCP
  \/ UDPReadExpired \/ UDPAdmit \/ UDPSpawn
  \/ TCPAcceptClosed \/ TCPAdmit \/ TCPAdmitExpires \/ TCPSpawn
  \/ \E q \in Query : DatagramBegin(q) \/ DatagramReply(q)
  \/ \E c \in Conn : ConnBegin(c) \/ ConnIdle(c) \/ ConnReply(c) \/ ConnWriteExpires(c)
  \/ \E j \in Job : HandleEnd(j) \/ Release(j) \/ Signal(j)
  \/ Drain \/ WaitReturns \/ Drained \/ DrainExpires

\* What clients, the network and the operator do.
Environment ==
  \/ Cancel \/ UDPRead \/ UDPReadError \/ TCPAccept \/ TCPAcceptError
  \/ \E c \in Conn : ConnRequest(c) \/ ConnBroken(c) \/ ConnWritten(c)

Next == Step \/ Environment \/ Tick

Spec == Init /\ [][Next]_vars

\* The scheduler runs the goroutines and the clock goes on.  Nothing is assumed
\* of clients.
FairSpec == Spec /\ WF_vars(Step) /\ WF_vars(Tick)

-----------------------------------------------------------------------------
States == {"out", "held", "slot", "run", "handle", "reply", "idle", "write",
           "release", "signal", "done"}

\* Every variable has its type; no more slots are taken than there are.
TypeOK ==
  /\ ctxDone \in BOOLEAN
  /\ main \in {"listen", "serve", "drain", "returned"}
  /\ how \in {"none", "error", "drained", "timeout"}
  /\ stopper \in {"none", "wait", "tcp", "end"}
  /\ waiter \in {"none", "waiting", "done"}
  /\ udpOpen \in BOOLEAN /\ udpExpired \in BOOLEAN /\ tcpOpen \in BOOLEAN
  /\ udp \in {"off", "new", "read", "admit", "add", "exit"}
  /\ tcp \in {"off", "new", "accept", "admit", "add", "exit"}
  /\ drainLeft \in Nat /\ admitLeft \in Nat /\ since \in Nat
  /\ sem \in 0..MaxConcurrency /\ wg \in Nat
  /\ st \in [Job -> States] /\ \A q \in Query : st[q] \notin {"idle", "write"}
  /\ kind \in [Job -> Kinds]
  /\ left \in [Job -> Nat]
  /\ frames \in [Conn -> 0..MaxFrames]
  /\ outcome \in [Query -> {"none", "lost"}]

\* Where a job holds a slot, and where it is counted by the WaitGroup.
Holding == {"slot", "run", "handle", "reply", "idle", "write", "release"}
Counted == (Holding \ {"slot"}) \cup {"signal"}

\* On every path of serveUDP, serveTCP and the two handlers the slot taken is
\* given back once, and so is the count of the WaitGroup: both are exactly the
\* jobs that are between the two.  So at most MaxConcurrency handlers run.
SlotsAccounted ==
  /\ sem = Cardinality({ j \in Job : st[j] \in Holding }) /\ sem <= MaxConcurrency
  /\ wg = Cardinality({ j \in Job : st[j] \in Counted })

\* ListenAndServe's comment, "after that no further wg.Add can happen and
\* wg.Wait is safe to call".
NoAddAfterWait == [][ waiter # "none" => wg' <= wg ]_vars

\* What a return of ListenAndServe means for the datagrams that were admitted.
\* After a drain every handler has ended.  When the drain has timed out, only
\* connections and forwarded queries are unfinished or lose their reply: a
\* lookup ends within the query's deadline, which the grace extends.
DrainCoversLookups ==
  /\ how = "drained" => \A j \in Job : st[j] \in {"out", "done"}
  /\ main = "returned" =>
       \A q \in Query : st[q] \notin {"out", "done"} \/ outcome[q] = "lost" =>
         how = "timeout" /\ kind[q] = "forward"

\* ListenAndServe returns within that time, whatever the clients do.
ShutdownWithin == since <= ShutdownLimit

\* ListenAndServe returns once its context has ended: the loops are unblocked
\* and the drain has a limit.
ShutdownReturns == ctxDone ~> main = "returned"

\* A client that stalls does not keep its slot: each connection accepted is
\* closed, unless the process ends before.  Every client stalls after MaxFrames
\* requests at the latest; one that goes on asking keeps its connection.
ConnectionsEnd == \A c \in Conn : st[c] = "held" ~> st[c] = "done" \/ main = "returned"
=============================================================================
