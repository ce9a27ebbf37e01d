---------------------------- MODULE ServerProofs ----------------------------
(***************************************************************************)
(* Theorems about Server, for any number of datagrams, connections and     *)
(* slots and any timeouts.                                                 *)
(***************************************************************************)
EXTENDS Server, FiniteSetTheorems, TLAPS

\* The types that hold step by step without counting jobs.
WeakType ==
  /\ main \in {"listen", "serve", "drain", "returned"}
  /\ how \in {"none", "error", "drained", "timeout"}
  /\ stopper \in {"none", "wait", "tcp", "end"}
  /\ waiter \in {"none", "waiting", "done"}
  /\ udp \in {"off", "new", "read", "admit", "add", "exit"}
  /\ tcp \in {"off", "new", "accept", "admit", "add", "exit"}
  /\ drainLeft \in Nat /\ admitLeft \in Nat /\ since \in Nat
  /\ sem \in Int /\ wg \in Int
  /\ st \in [Job -> States] /\ \A q \in Query : st[q] \notin {"idle", "write"}
  /\ kind \in [Job -> Kinds]
  /\ left \in [Job -> Nat]
  /\ frames \in [Conn -> 0..MaxFrames]
  /\ outcome \in [Query -> {"none", "lost"}]

\* The flags are Booleans.
BoolType ==
  ctxDone \in BOOLEAN /\ udpOpen \in BOOLEAN /\ udpExpired \in BOOLEAN /\ tcpOpen \in BOOLEAN

\* How long handleRequest may take is a number of units, and without
\* forwarding it ends by the query's deadline.
LEMMA LimitBound ==
  ASSUME NEW k \in Kinds
  PROVE  Limit(k) \in Nat /\ (k # "forward" => Limit(k) <= OverallTimeout)
BY ServerAssumption DEF Limit, Kinds

\* A timer that runs down stays a number.
LEMMA LessNat ==
  ASSUME NEW n \in Nat
  PROVE  Less(n) \in Nat /\ (n > 0 => Less(n) = n - 1)
BY DEF Less

\* The weak types are an invariant.
LEMMA WeakTypeInvariant == Spec => []WeakType
<1>1. Init => WeakType
  BY ServerAssumption DEF Init, WeakType, States, Kinds, Job
<1>2. WeakType /\ [Next]_vars => WeakType'
  <2> SUFFICES ASSUME WeakType, [Next]_vars PROVE WeakType'
    OBVIOUS
  <2> USE DEF mainVars, sockVars, loopVars, reqVars
  <2>1. ASSUME Listen \/ StopUDP \/ StopTCP \/ Cancel PROVE WeakType'
    BY <2>1 DEF WeakType, Listen, StopUDP, StopTCP, Cancel
  <2>2. ASSUME UDPReadExpired \/ UDPReadError \/ TCPAcceptClosed \/ TCPAcceptError PROVE WeakType'
    BY <2>2 DEF WeakType, UDPReadExpired, UDPReadError, TCPAcceptClosed, TCPAcceptError
  <2>3. ASSUME UDPRead PROVE WeakType'
    BY <2>3 DEF WeakType, UDPRead, Goto, States, Job
  <2>4. ASSUME UDPAdmit PROVE WeakType'
    BY <2>4 DEF WeakType, UDPAdmit, Goto, States, Job
  <2>5. ASSUME UDPSpawn \/ TCPSpawn PROVE WeakType'
    BY <2>5, ServerAssumption DEF WeakType, UDPSpawn, TCPSpawn, Goto, States, Job
  <2>6. ASSUME TCPAccept \/ TCPAdmit \/ TCPAdmitExpires PROVE WeakType'
    BY <2>6, ServerAssumption DEF WeakType, TCPAccept, TCPAdmit, TCPAdmitExpires, Goto, States, Job
  <2>7. ASSUME NEW q \in Query, DatagramBegin(q) \/ DatagramReply(q) PROVE WeakType'
    BY <2>7, LimitBound DEF WeakType, DatagramBegin, DatagramReply, HandleBegin, Goto, Lose, States, Job
  <2>8. ASSUME NEW c \in Conn, ConnBegin(c) \/ ConnIdle(c) \/ ConnReply(c) \/ ConnWriteExpires(c)
        PROVE  WeakType'
    BY <2>8, ServerAssumption DEF WeakType, ConnBegin, ConnIdle, ConnReply, ConnWriteExpires,
                                  Await, Goto, States, Job
  <2>9. ASSUME NEW c \in Conn, ConnRequest(c) \/ ConnBroken(c) \/ ConnWritten(c) PROVE WeakType'
    BY <2>9, LimitBound, ServerAssumption DEF WeakType, ConnRequest, ConnBroken, ConnWritten,
                                  HandleBegin, Await, Goto, States, Job
  <2>10. ASSUME NEW j \in Job, HandleEnd(j) \/ Release(j) \/ Signal(j) PROVE WeakType'
    BY <2>10 DEF WeakType, HandleEnd, Release, Signal, Goto, States, Job
  <2>11. ASSUME Drain \/ WaitReturns \/ Drained \/ DrainExpires PROVE WeakType'
    BY <2>11, ServerAssumption DEF WeakType, Drain, DrainLimit, WaitReturns, Drained, DrainExpires, DrainEnd
  <2>12. ASSUME Tick PROVE WeakType'
    BY <2>12, LessNat DEF WeakType, Tick
  <2>13. ASSUME UNCHANGED vars PROVE WeakType'
    BY <2>13 DEF WeakType, vars
  <2>14. QED
    BY <2>1, <2>2, <2>3, <2>4, <2>5, <2>6, <2>7, <2>8, <2>9, <2>10, <2>11, <2>12, <2>13
    DEF Next, Step, Environment
<1>3. QED
  BY <1>1, <1>2, PTL DEF Spec

\* The steps that touch the flags.
LEMMA FlagSteps ==
  ASSUME [Next]_vars
  PROVE  \/ Listen \/ StopUDP \/ StopTCP \/ Cancel \/ Drained \/ DrainExpires
         \/ UNCHANGED <<ctxDone, udpOpen, udpExpired, tcpOpen>>
<1> USE DEF mainVars, sockVars
<1>1. CASE \/ UDPReadExpired \/ UDPReadError \/ UDPRead \/ UDPAdmit \/ UDPSpawn
           \/ TCPAcceptClosed \/ TCPAcceptError \/ TCPAccept \/ TCPAdmit \/ TCPAdmitExpires \/ TCPSpawn
  BY <1>1 DEF UDPReadExpired, UDPReadError, UDPRead, UDPAdmit, UDPSpawn, TCPAcceptClosed,
              TCPAcceptError, TCPAccept, TCPAdmit, TCPAdmitExpires, TCPSpawn
<1>2. ASSUME NEW q \in Query, DatagramBegin(q) \/ DatagramReply(q)
      PROVE  UNCHANGED <<ctxDone, udpOpen, udpExpired, tcpOpen>>
  BY <1>2 DEF DatagramBegin, DatagramReply
<1>3. ASSUME NEW c \in Conn, \/ ConnBegin(c) \/ ConnIdle(c) \/ ConnReply(c) \/ ConnWriteExpires(c)
                             \/ ConnRequest(c) \/ ConnBroken(c) \/ ConnWritten(c)
      PROVE  UNCHANGED <<ctxDone, udpOpen, udpExpired, tcpOpen>>
  BY <1>3 DEF ConnBegin, ConnIdle, ConnReply, ConnWriteExpires, ConnRequest, ConnBroken, ConnWritten
<1>4. ASSUME NEW j \in Job, HandleEnd(j) \/ Release(j) \/ Signal(j)
      PROVE  UNCHANGED <<ctxDone, udpOpen, udpExpired, tcpOpen>>
  BY <1>4 DEF HandleEnd, Release, Signal
<1>5. CASE Drain \/ WaitReturns \/ Tick \/ UNCHANGED vars
  BY <1>5 DEF Drain, WaitReturns, Tick, vars
<1>6. QED
  BY <1>1, <1>2, <1>3, <1>4, <1>5 DEF Next, Step, Environment

\* The flags stay Booleans: only the shutdown and the listeners touch them.
LEMMA BoolTypeInvariant == Spec => []BoolType
<1>1. Init => BoolType
  BY Zenon DEF Init, BoolType
<1>2. BoolType /\ [Next]_vars => BoolType'
  <2> SUFFICES ASSUME BoolType, [Next]_vars PROVE BoolType'
    OBVIOUS
  <2>1. CASE Listen
    BY <2>1, Zenon DEF BoolType, Listen
  <2>2. CASE StopUDP
    BY <2>2, Zenon DEF BoolType, StopUDP
  <2>3. CASE StopTCP
    BY <2>3, Zenon DEF BoolType, StopTCP
  <2>4. CASE Cancel
    BY <2>4, Zenon DEF BoolType, Cancel, sockVars
  <2>5. CASE Drained \/ DrainExpires
    BY <2>5, Zenon DEF BoolType, Drained, DrainExpires, DrainEnd
  <2>6. CASE UNCHANGED <<ctxDone, udpOpen, udpExpired, tcpOpen>>
    BY <2>6, Zenon DEF BoolType
  <2>7. QED
    BY <2>1, <2>2, <2>3, <2>4, <2>5, <2>6, FlagSteps
<1>3. QED
  BY <1>1, <1>2, PTL DEF Spec

-----------------------------------------------------------------------------
In(x, S) == IF x \in S THEN 1 ELSE 0

Where(S) == { j \in Job : st[j] \in S }

\* One job goes from its state to x, and takes along its slot and its count.
Moves(j, x) ==
  /\ st' = [st EXCEPT ![j] = x]
  /\ sem' = sem + In(x, Holding) - In(st[j], Holding)
  /\ wg' = wg + In(x, Counted) - In(st[j], Counted)

\* A step moves one job or none, and slots and counts follow.
LEMMA JobSteps ==
  ASSUME WeakType, [Next]_vars
  PROVE  UNCHANGED <<st, sem, wg>> \/ \E j \in Job, x \in States : Moves(j, x)
<1> DEFINE Goal == UNCHANGED <<st, sem, wg>> \/ \E j \in Job, x \in States : Moves(j, x)
<1>0. sem \in Int /\ wg \in Int /\ Query \subseteq Job /\ Conn \subseteq Job
  BY DEF WeakType, Job
<1>a. ASSUME NEW j \in Job, NEW a \in {"out"}, NEW x \in {"held", "done"},
             st[j] = a, Goto(j, x), sem' = sem, wg' = wg
      PROVE  Goal
  <2>1. Moves(j, x) /\ x \in States
    BY <1>0, <1>a DEF Moves, Goto, In, Holding, Counted, States
  <2>2. QED
    BY <2>1
<1>b. ASSUME NEW j \in Job, st[j] = "held",
             \/ Goto(j, "slot") /\ sem' = sem + 1
             \/ Goto(j, "done") /\ sem' = sem,
             wg' = wg
      PROVE  Goal
  <2>1. Moves(j, "slot") \/ Moves(j, "done")
    BY <1>0, <1>b DEF Moves, Goto, In, Holding, Counted
  <2>2. QED
    BY <2>1 DEF States
<1>c. ASSUME NEW j \in Job, st[j] = "slot", Goto(j, "run"), sem' = sem, wg' = wg + 1
      PROVE  Goal
  <2>1. Moves(j, "run")
    BY <1>0, <1>c DEF Moves, Goto, In, Holding, Counted
  <2>2. QED
    BY <2>1 DEF States
<1>d. ASSUME NEW j \in Job, NEW x \in {"handle", "reply", "idle", "write", "release"},
             st[j] \in {"run", "handle", "reply", "idle", "write"}, Goto(j, x), sem' = sem, wg' = wg
      PROVE  Goal
  <2>1. Moves(j, x) /\ x \in States
    BY <1>0, <1>d DEF Moves, Goto, In, Holding, Counted, States
  <2>2. QED
    BY <2>1
<1>1. ASSUME UDPRead \/ TCPAccept PROVE Goal
  BY <1>0, <1>1, <1>a DEF UDPRead, TCPAccept
<1>2. ASSUME UDPAdmit \/ TCPAdmit \/ TCPAdmitExpires PROVE Goal
  BY <1>0, <1>2, <1>b DEF UDPAdmit, TCPAdmit, TCPAdmitExpires
<1>3. ASSUME UDPSpawn \/ TCPSpawn PROVE Goal
  BY <1>0, <1>3, <1>c DEF UDPSpawn, TCPSpawn
<1>4. ASSUME NEW q \in Query, DatagramBegin(q) \/ DatagramReply(q) PROVE Goal
  BY <1>0, <1>4, <1>d DEF DatagramBegin, DatagramReply, HandleBegin
<1>5. ASSUME NEW c \in Conn, \/ ConnBegin(c) \/ ConnIdle(c) \/ ConnReply(c) \/ ConnWriteExpires(c)
                             \/ ConnRequest(c) \/ ConnBroken(c) \/ ConnWritten(c)
      PROVE  Goal
  BY <1>0, <1>5, <1>d DEF ConnBegin, ConnIdle, ConnReply, ConnWriteExpires, ConnRequest, ConnBroken,
                          ConnWritten, HandleBegin, Await
<1>6. ASSUME NEW j \in Job, HandleEnd(j) PROVE Goal
  BY <1>6, <1>d DEF HandleEnd
<1>7. ASSUME NEW j \in Job, Release(j) \/ Signal(j) PROVE Goal
  <2>1. Moves(j, "signal") \/ Moves(j, "done")
    BY <1>0, <1>7 DEF Release, Signal, Moves, Goto, In, Holding, Counted
  <2>2. QED
    BY <2>1 DEF States
<1>8. ASSUME UDPReadExpired \/ UDPReadError \/ TCPAcceptClosed \/ TCPAcceptError PROVE Goal
  BY <1>8 DEF UDPReadExpired, UDPReadError, TCPAcceptClosed, TCPAcceptError
<1>9. ASSUME Listen \/ StopUDP \/ StopTCP \/ Cancel PROVE Goal
  BY <1>9 DEF Listen, StopUDP, StopTCP, Cancel
<1>10. ASSUME Drain \/ WaitReturns \/ Drained \/ DrainExpires \/ Tick \/ UNCHANGED vars PROVE Goal
  BY <1>10 DEF Drain, WaitReturns, Drained, DrainExpires, DrainEnd, Tick, vars
<1> HIDE DEF Goal
<1>11. Goal
  BY <1>1, <1>2, <1>3, <1>4, <1>5, <1>6, <1>7, <1>8, <1>9, <1>10 DEF Next, Step, Environment
<1>12. QED
  BY <1>11 DEF Goal

\* Counting the jobs of a set of states after one job has moved.
LEMMA CountMove ==
  ASSUME st \in [Job -> States], NEW j \in Job, NEW x \in States,
         st' = [st EXCEPT ![j] = x], NEW S
  PROVE  /\ Cardinality(Where(S)) \in Nat
         /\ Cardinality({ i \in Job : st'[i] \in S }) =
              Cardinality(Where(S)) + In(x, S) - In(st[j], S)
<1> DEFINE old == Where(S)
           new == { i \in Job : st'[i] \in S }
<1>1. IsFiniteSet(Job)
  BY ServerAssumption, FS_Union DEF Job
<1>2. IsFiniteSet(old) /\ IsFiniteSet(new)
  BY <1>1, FS_Subset DEF Where
<1>3. Cardinality(old) \in Nat /\ Cardinality(new) \in Nat
  BY <1>2, FS_CardinalityType
<1>4. CASE x \in S /\ st[j] \notin S
  <2>1. new = old \cup {j} /\ j \notin old
    BY <1>4 DEF Where
  <2> HIDE DEF old, new
  <2>2. Cardinality(new) = Cardinality(old) + 1
    BY <1>2, <2>1, FS_AddElement
  <2>3. QED
    BY <1>3, <1>4, <2>2 DEF In, old, new
<1>5. CASE x \notin S /\ st[j] \in S
  <2>1. new = old \ {j} /\ j \in old
    BY <1>5 DEF Where
  <2> HIDE DEF old, new
  <2>2. Cardinality(new) = Cardinality(old) - 1
    BY <1>2, <2>1, FS_RemoveElement
  <2>3. QED
    BY <1>3, <1>5, <2>2 DEF In, old, new
<1>6. CASE x \in S <=> st[j] \in S
  <2>1. new = old
    BY <1>6 DEF Where
  <2>2. In(x, S) = In(st[j], S) /\ In(x, S) \in Nat
    BY <1>6 DEF In
  <2> HIDE DEF old, new
  <2>3. Cardinality(new) = Cardinality(old) + In(x, S) - In(st[j], S)
    BY <1>3, <2>1, <2>2
  <2>4. QED
    BY <1>3, <2>3 DEF old, new
<1>7. QED
  BY <1>4, <1>5, <1>6

\* The slots taken and the WaitGroup's count are exactly the jobs between the
\* two ends.
Accounts ==
  /\ sem = Cardinality({ j \in Job : st[j] \in Holding })
  /\ wg = Cardinality({ j \in Job : st[j] \in Counted })

\* On every path the slot taken is given back once, and so is the count of
\* the WaitGroup.
LEMMA AccountsInvariant == Spec => []Accounts
<1>1. Init => Accounts
  <2> SUFFICES ASSUME Init PROVE Accounts
    OBVIOUS
  <2>1. { j \in Job : st[j] \in Holding } = {} /\ { j \in Job : st[j] \in Counted } = {}
    BY DEF Init, Holding, Counted
  <2>2. QED
    BY <2>1, FS_EmptySet DEF Accounts, Init
<1>2. WeakType /\ Accounts /\ [Next]_vars => Accounts'
  <2> SUFFICES ASSUME WeakType, Accounts, [Next]_vars PROVE Accounts'
    OBVIOUS
  <2>1. CASE UNCHANGED <<st, sem, wg>>
    BY <2>1 DEF Accounts
  <2>2. ASSUME NEW j \in Job, NEW x \in States, Moves(j, x) PROVE Accounts'
    <3>1. st \in [Job -> States] /\ st' = [st EXCEPT ![j] = x]
      BY <2>2 DEF WeakType, Moves
    <3>2. Cardinality({ i \in Job : st'[i] \in Holding }) =
            Cardinality(Where(Holding)) + In(x, Holding) - In(st[j], Holding)
      BY <3>1, CountMove
    <3>3. Cardinality({ i \in Job : st'[i] \in Counted }) =
            Cardinality(Where(Counted)) + In(x, Counted) - In(st[j], Counted)
      BY <3>1, CountMove
    <3>4. sem = Cardinality(Where(Holding)) /\ wg = Cardinality(Where(Counted))
      BY DEF Accounts, Where
    <3>5. sem' = Cardinality({ i \in Job : st'[i] \in Holding })
      BY <2>2, <3>2, <3>4 DEF Moves
    <3>6. wg' = Cardinality({ i \in Job : st'[i] \in Counted })
      BY <2>2, <3>3, <3>4 DEF Moves
    <3>7. QED
      BY <3>5, <3>6 DEF Accounts
  <2>3. QED
    BY <2>1, <2>2, JobSteps
<1>3. QED
  BY <1>1, <1>2, WeakTypeInvariant, PTL DEF Spec

\* The counts are numbers, so that none of them runs below zero.
LEMMA CountsNat ==
  ASSUME Accounts
  PROVE  sem \in Nat /\ wg \in Nat
<1>1. IsFiniteSet(Job)
  BY ServerAssumption, FS_Union DEF Job
<1>2. ASSUME NEW S PROVE Cardinality({ j \in Job : st[j] \in S }) \in Nat
  <2>1. IsFiniteSet({ j \in Job : st[j] \in S })
    BY <1>1, FS_Subset
  <2>2. QED
    BY <2>1, FS_CardinalityType
<1>3. QED
  BY <1>2 DEF Accounts

\* Slots are taken only below the limit.
SemBound == sem <= MaxConcurrency

\* The limit is kept: UDPAdmit and TCPAdmit look before they take a slot.
LEMMA SemBounded == Spec => []SemBound
<1>1. Init => SemBound
  BY ServerAssumption DEF Init, SemBound
<1>2. Accounts /\ WeakType /\ SemBound /\ [Next]_vars => SemBound'
  <2> SUFFICES ASSUME Accounts, WeakType, SemBound, [Next]_vars PROVE SemBound'
    OBVIOUS
  <2>0. sem \in Nat /\ MaxConcurrency \in Nat
    BY CountsNat, ServerAssumption
  <2>1. CASE UDPAdmit \/ TCPAdmit
    BY <2>0, <2>1 DEF SemBound, UDPAdmit, TCPAdmit
  <2>2. CASE sem' = sem \/ sem' = sem - 1
    BY <2>0, <2>2 DEF SemBound
  <2>3. UDPAdmit \/ TCPAdmit \/ sem' = sem \/ sem' = sem - 1
    BY DEF Next, Step, Environment, Listen, StopUDP, StopTCP, Cancel, UDPReadExpired, UDPReadError,
           UDPRead, UDPSpawn, TCPAcceptClosed, TCPAcceptError, TCPAccept, TCPAdmitExpires, TCPSpawn,
           DatagramBegin, DatagramReply, ConnBegin, ConnIdle, ConnReply, ConnWriteExpires,
           ConnRequest, ConnBroken, ConnWritten, HandleEnd, Release, Signal, Drain, WaitReturns,
           Drained, DrainExpires, DrainEnd, Tick, vars
  <2>4. QED
    BY <2>1, <2>2, <2>3
<1>3. QED
  BY <1>1, <1>2, AccountsInvariant, WeakTypeInvariant, PTL DEF Spec

\* Slots and WaitGroup are balanced, and at most MaxConcurrency slots are taken.
THEOREM SlotsCorrect == Spec => []SlotsAccounted
<1>1. Accounts /\ SemBound => SlotsAccounted
  BY DEF Accounts, SemBound, SlotsAccounted
<1>2. QED
  BY <1>1, AccountsInvariant, SemBounded, PTL

\* Type correctness; at most MaxConcurrency slots are taken.
THEOREM ServerTypeCorrect == Spec => []TypeOK
<1>1. WeakType /\ BoolType /\ Accounts /\ SemBound => TypeOK
  <2> SUFFICES ASSUME WeakType, BoolType, Accounts, SemBound PROVE TypeOK
    OBVIOUS
  <2>1. sem \in 0..MaxConcurrency /\ wg \in Nat
    BY CountsNat, ServerAssumption DEF SemBound
  <2>2. QED
    BY <2>1, Zenon DEF TypeOK, WeakType, BoolType
<1>2. QED
  BY <1>1, WeakTypeInvariant, BoolTypeInvariant, AccountsInvariant, SemBounded, PTL

-----------------------------------------------------------------------------
\* ListenAndServe, its waiter and the loops: once the waiter runs, the loops
\* are over, and before the listeners are up (or when they fail) nothing runs.
PhaseInv ==
  /\ main = "returned" <=> how # "none"
  /\ waiter = "none" <=> main \in {"listen", "serve"} \/ how = "error"
  /\ waiter # "none" => LoopsOver
  /\ main = "listen" \/ how = "error" =>
       /\ udp \in {"new", "off"} /\ tcp \in {"new", "off"} /\ stopper = "none"
       /\ \A j \in Job : st[j] = "out"
  /\ main # "listen" /\ how # "error" => udp # "new" /\ tcp # "new"

\* The job that a loop holds is one, and is where the loop is.
LoopInv ==
  /\ \A q \in Query : /\ st[q] # "out" => udp \notin {"new", "off"}
                      /\ st[q] = "held" => udp = "admit"
                      /\ st[q] = "slot" => udp = "add"
  /\ \A c \in Conn : /\ st[c] = "held" => tcp = "admit"
                     /\ st[c] = "slot" => tcp = "add"
  /\ \A q, r \in Query : st[q] \in {"held", "slot"} /\ st[r] \in {"held", "slot"} => q = r
  /\ \A c, d \in Conn : st[c] \in {"held", "slot"} /\ st[d] \in {"held", "slot"} => c = d

\* Phases are an invariant.
LEMMA PhaseInvariant == Spec => []PhaseInv
<1>1. Init => PhaseInv
  BY DEF Init, PhaseInv, Job
<1>2. WeakType /\ PhaseInv /\ [Next]_vars => PhaseInv'
  <2> SUFFICES ASSUME WeakType, PhaseInv, [Next]_vars PROVE PhaseInv'
    OBVIOUS
  <2>0. Query \subseteq Job /\ Conn \subseteq Job
    BY DEF Job
  <2> USE DEF mainVars, loopVars, LoopsOver
  <2>1. ASSUME Listen \/ StopUDP \/ StopTCP \/ Cancel PROVE PhaseInv'
    BY <2>1 DEF WeakType, PhaseInv, Listen, StopUDP, StopTCP, Cancel
  <2>2. ASSUME UDPReadExpired \/ UDPReadError \/ TCPAcceptClosed \/ TCPAcceptError PROVE PhaseInv'
    BY <2>2 DEF WeakType, PhaseInv, UDPReadExpired, UDPReadError, TCPAcceptClosed, TCPAcceptError
  <2>3. ASSUME UDPRead \/ UDPAdmit \/ UDPSpawn PROVE PhaseInv'
    BY <2>3 DEF WeakType, PhaseInv, UDPRead, UDPAdmit, UDPSpawn
  <2>4. ASSUME TCPAccept \/ TCPAdmit \/ TCPAdmitExpires \/ TCPSpawn PROVE PhaseInv'
    BY <2>4 DEF WeakType, PhaseInv, TCPAccept, TCPAdmit, TCPAdmitExpires, TCPSpawn
  <2>5. ASSUME NEW j \in Job, st[j] # "out", UNCHANGED <<main, how, waiter, stopper, udp, tcp>>
        PROVE  PhaseInv'
    BY <2>5 DEF PhaseInv
  <2>6. ASSUME NEW q \in Query, DatagramBegin(q) \/ DatagramReply(q) PROVE PhaseInv'
    BY <2>0, <2>5, <2>6 DEF DatagramBegin, DatagramReply
  <2>7. ASSUME NEW c \in Conn, \/ ConnBegin(c) \/ ConnIdle(c) \/ ConnReply(c) \/ ConnWriteExpires(c)
                               \/ ConnRequest(c) \/ ConnBroken(c) \/ ConnWritten(c)
        PROVE  PhaseInv'
    BY <2>0, <2>5, <2>7 DEF ConnBegin, ConnIdle, ConnReply, ConnWriteExpires, ConnRequest, ConnBroken,
                            ConnWritten
  <2>8. ASSUME NEW j \in Job, HandleEnd(j) \/ Release(j) \/ Signal(j) PROVE PhaseInv'
    BY <2>5, <2>8 DEF HandleEnd, Release, Signal
  <2>9. ASSUME Drain \/ WaitReturns \/ Drained \/ DrainExpires PROVE PhaseInv'
    BY <2>9 DEF WeakType, PhaseInv, Drain, WaitReturns, Drained, DrainExpires, DrainEnd
  <2>10. ASSUME Tick \/ UNCHANGED vars PROVE PhaseInv'
    BY <2>10 DEF PhaseInv, Tick, vars
  <2>11. QED
    BY <2>1, <2>2, <2>3, <2>4, <2>6, <2>7, <2>8, <2>9, <2>10 DEF Next, Step, Environment
<1>3. QED
  BY <1>1, <1>2, WeakTypeInvariant, PTL DEF Spec

\* Between two steps a loop holds at most one job.
LEMMA LoopInvariant == Spec => []LoopInv
<1>1. Init => LoopInv
  BY DEF Init, LoopInv, Job
<1>2. WeakType /\ PhaseInv /\ LoopInv /\ [Next]_vars => LoopInv'
  <2> SUFFICES ASSUME WeakType, PhaseInv, LoopInv, [Next]_vars PROVE LoopInv'
    OBVIOUS
  <2>0. Query \subseteq Job /\ Conn \subseteq Job /\ (\A q \in Query : q \notin Conn) /\ st \in [Job -> States]
    BY ServerAssumption DEF Job, WeakType
  <2> USE DEF mainVars, loopVars
  <2>1. ASSUME Listen PROVE LoopInv'
    BY <2>0, <2>1 DEF LoopInv, PhaseInv, Listen
  <2>2. ASSUME UDPReadExpired \/ UDPReadError \/ TCPAcceptClosed \/ TCPAcceptError PROVE LoopInv'
    BY <2>2 DEF LoopInv, UDPReadExpired, UDPReadError, TCPAcceptClosed, TCPAcceptError
  <2>3. ASSUME UDPRead PROVE LoopInv'
    BY <2>0, <2>3 DEF LoopInv, UDPRead, Goto
  <2>4. ASSUME UDPAdmit PROVE LoopInv'
    BY <2>0, <2>4 DEF LoopInv, UDPAdmit, Goto
  <2>5. ASSUME UDPSpawn PROVE LoopInv'
    BY <2>0, <2>5 DEF LoopInv, UDPSpawn, Goto
  <2>6. ASSUME TCPAccept PROVE LoopInv'
    BY <2>0, <2>6 DEF LoopInv, TCPAccept, Goto
  <2>7. ASSUME TCPAdmit \/ TCPAdmitExpires PROVE LoopInv'
    BY <2>0, <2>7 DEF LoopInv, TCPAdmit, TCPAdmitExpires, Goto
  <2>8. ASSUME TCPSpawn PROVE LoopInv'
    BY <2>0, <2>8 DEF LoopInv, TCPSpawn, Goto
  <2>9. ASSUME NEW j \in Job, st[j] \notin {"out", "held", "slot"},
               NEW x \in States \ {"out", "held", "slot"}, Goto(j, x), UNCHANGED <<udp, tcp>>
        PROVE  LoopInv'
    BY <2>0, <2>9 DEF LoopInv, Goto
  <2>10. ASSUME NEW q \in Query, DatagramBegin(q) \/ DatagramReply(q) PROVE LoopInv'
    BY <2>0, <2>9, <2>10 DEF DatagramBegin, DatagramReply, HandleBegin, States
  <2>11. ASSUME NEW c \in Conn, \/ ConnBegin(c) \/ ConnIdle(c) \/ ConnReply(c) \/ ConnWriteExpires(c)
                                \/ ConnRequest(c) \/ ConnBroken(c) \/ ConnWritten(c)
         PROVE  LoopInv'
    BY <2>0, <2>9, <2>11 DEF ConnBegin, ConnIdle, ConnReply, ConnWriteExpires, ConnRequest, ConnBroken,
                             ConnWritten, HandleBegin, Await, States
  <2>12. ASSUME NEW j \in Job, HandleEnd(j) \/ Release(j) \/ Signal(j) PROVE LoopInv'
    BY <2>9, <2>12 DEF HandleEnd, Release, Signal, States
  <2>13. ASSUME UNCHANGED <<st, udp, tcp>> PROVE LoopInv'
    BY <2>13 DEF LoopInv
  <2>14. ASSUME \/ StopUDP \/ StopTCP \/ Cancel \/ Drain \/ WaitReturns \/ Drained \/ DrainExpires
                \/ Tick \/ UNCHANGED vars
         PROVE  LoopInv'
    BY <2>13, <2>14 DEF StopUDP, StopTCP, Cancel, Drain, WaitReturns, Drained, DrainExpires, DrainEnd,
                        Tick, vars
  <2>15. QED
    BY <2>1, <2>2, <2>3, <2>4, <2>5, <2>6, <2>7, <2>8, <2>10, <2>11, <2>12, <2>14
    DEF Next, Step, Environment
<1>3. QED
  BY <1>1, <1>2, WeakTypeInvariant, PhaseInvariant, PTL DEF Spec

\* wg.Add is a step of a loop.
LEMMA AddsAreLoops ==
  ASSUME WeakType, Accounts, [Next]_vars
  PROVE  UDPSpawn \/ TCPSpawn \/ wg' <= wg
<1>0. wg \in Nat
  BY CountsNat
<1>1. UDPSpawn \/ TCPSpawn \/ wg' = wg \/ wg' = wg - 1
  BY DEF Next, Step, Environment, Listen, StopUDP, StopTCP, Cancel, UDPReadExpired, UDPReadError,
         UDPRead, UDPAdmit, TCPAcceptClosed, TCPAcceptError, TCPAccept, TCPAdmit, TCPAdmitExpires,
         DatagramBegin, DatagramReply, ConnBegin, ConnIdle, ConnReply, ConnWriteExpires,
         ConnRequest, ConnBroken, ConnWritten, HandleEnd, Release, Signal, Drain, WaitReturns,
         Drained, DrainExpires, DrainEnd, Tick, vars
<1>2. QED
  BY <1>0, <1>1

\* After wg.Wait has been called no further wg.Add happens.
THEOREM NoLateAdd == Spec => NoAddAfterWait
<1>1. WeakType /\ Accounts /\ PhaseInv /\ [Next]_vars => (waiter # "none" => wg' <= wg)
  BY AddsAreLoops DEF PhaseInv, LoopsOver, UDPSpawn, TCPSpawn
<1>2. WeakType /\ Accounts /\ PhaseInv /\ [Next]_vars => [waiter # "none" => wg' <= wg]_vars
  BY <1>1
<1>3. QED
  BY <1>2, WeakTypeInvariant, AccountsInvariant, PhaseInvariant, PTL DEF Spec, NoAddAfterWait

\* When the WaitGroup's count is zero no goroutine of a job runs.
LEMMA NoneCounted ==
  ASSUME Accounts, wg = 0, NEW j \in Job
  PROVE  st[j] \notin Counted
<1> DEFINE S == { i \in Job : st[i] \in Counted }
<1>1. IsFiniteSet(S)
  BY ServerAssumption, FS_Union, FS_Subset DEF Job
<1>2. Cardinality(S) = 0
  BY DEF Accounts
<1> HIDE DEF S
<1>3. S = {}
  BY <1>1, <1>2, FS_EmptySet
<1>4. QED
  BY <1>3 DEF S

-----------------------------------------------------------------------------
\* A datagram that is neither forwarded nor finished has its time within the
\* drain: what is left of its deadline and the grace.
InTime(q) ==
  /\ st[q] = "run" => drainLeft = DrainLimit
  /\ st[q] = "handle" /\ kind[q] # "forward" => left[q] + DrainGrace <= drainLeft
  /\ st[q] \in {"reply", "release", "signal"} /\ kind[q] # "forward" => DrainGrace <= drainLeft

\* The datagram is done with, or forwarded and outlasting the drain.
Outlasts(q) ==
  \/ st[q] \in {"out", "done"}
  \/ st[q] \in {"handle", "reply", "release", "signal"} /\ kind[q] = "forward"

\* The end of the drain, and the socket, which is open until then.
EndInv ==
  /\ waiter = "done" => wg = 0
  /\ how = "drained" => waiter = "done"
  /\ main # "returned" /\ udp \notin {"new", "off"} => udpOpen

\* A datagram before, during and after the drain.
QueryInv(q) ==
  /\ st[q] = "handle" /\ kind[q] # "forward" => left[q] <= OverallTimeout
  /\ main = "drain" => InTime(q)
  /\ how = "timeout" => Outlasts(q)
  /\ outcome[q] = "lost" =>
       how = "timeout" /\ kind[q] = "forward" /\ st[q] \in {"release", "signal", "done"}

DrainInv == EndInv /\ \A q \in Query : QueryInv(q)

\* The waiter has seen a count of zero, which stays, and the socket is closed
\* by the return of ListenAndServe alone.
LEMMA EndInvariant == Spec => []EndInv
<1>1. Init => EndInv
  BY DEF Init, EndInv
<1>2. TypeOK /\ WeakType /\ Accounts /\ PhaseInv /\ EndInv /\ TypeOK' /\ [Next]_vars => EndInv'
  <2> SUFFICES ASSUME TypeOK, WeakType, Accounts, PhaseInv, EndInv, TypeOK', [Next]_vars
               PROVE  EndInv'
    OBVIOUS
  <2>1. (waiter = "done" => wg = 0)'
    <3>1. waiter = "done" => wg' = 0
      <4>1. wg \in Nat /\ wg' \in Nat
        BY DEF TypeOK
      <4>2. waiter # "none" => wg' <= wg
        BY AddsAreLoops DEF PhaseInv, LoopsOver, UDPSpawn, TCPSpawn
      <4>3. QED
        BY <4>1, <4>2 DEF EndInv
    <3>2. CASE WaitReturns
      BY <3>2 DEF WaitReturns
    <3>3. CASE waiter' # "done" \/ waiter' = waiter
      BY <3>1, <3>3
    <3>4. WaitReturns \/ waiter' # "done" \/ waiter' = waiter
      BY DEF Next, Step, Environment, Listen, StopUDP, StopTCP, Cancel, UDPReadExpired, UDPReadError,
             UDPRead, UDPAdmit, UDPSpawn, TCPAcceptClosed, TCPAcceptError, TCPAccept, TCPAdmit,
             TCPAdmitExpires, TCPSpawn, DatagramBegin, DatagramReply, ConnBegin, ConnIdle, ConnReply,
             ConnWriteExpires, ConnRequest, ConnBroken, ConnWritten, HandleEnd, Release, Signal, Drain,
             Drained, DrainExpires, DrainEnd, Tick, vars, mainVars
    <3>5. QED
      BY <3>2, <3>3, <3>4
  <2> DEFINE Rest == /\ how' = "drained" => waiter' = "done"
                     /\ main' # "returned" /\ udp' \notin {"new", "off"} => udpOpen'
  <2> USE DEF mainVars, loopVars, sockVars
  <2>2. ASSUME Listen PROVE Rest
    <3>1. udp' \notin {"new", "off"} /\ main' # "returned" => udpOpen'
      BY <2>2 DEF Listen, PhaseInv
    <3>2. QED
      BY <2>2, <3>1 DEF Listen, EndInv, PhaseInv
  <2>3. ASSUME StopUDP \/ StopTCP \/ Cancel \/ Drain \/ WaitReturns \/ Drained \/ DrainExpires PROVE Rest
    BY <2>3 DEF EndInv, PhaseInv, StopUDP, StopTCP, Cancel, Drain, WaitReturns, Drained, DrainExpires,
                DrainEnd
  <2>4. ASSUME UNCHANGED <<how, waiter, main, udpOpen>>, udp' = udp \/ udp \notin {"new", "off"}
        PROVE  Rest
    BY <2>4 DEF EndInv
  <2>5. ASSUME \/ UDPReadExpired \/ UDPReadError \/ UDPRead \/ UDPAdmit \/ UDPSpawn
               \/ TCPAcceptClosed \/ TCPAcceptError \/ TCPAccept \/ TCPAdmit \/ TCPAdmitExpires \/ TCPSpawn
        PROVE  Rest
    BY <2>4, <2>5 DEF UDPReadExpired, UDPReadError, UDPRead, UDPAdmit, UDPSpawn, TCPAcceptClosed,
                TCPAcceptError, TCPAccept, TCPAdmit, TCPAdmitExpires, TCPSpawn
  <2>6. ASSUME NEW q \in Query, DatagramBegin(q) \/ DatagramReply(q) PROVE Rest
    BY <2>4, <2>6 DEF DatagramBegin, DatagramReply
  <2>7. ASSUME NEW c \in Conn, \/ ConnBegin(c) \/ ConnIdle(c) \/ ConnReply(c) \/ ConnWriteExpires(c)
                               \/ ConnRequest(c) \/ ConnBroken(c) \/ ConnWritten(c)
        PROVE  Rest
    BY <2>4, <2>7 DEF ConnBegin, ConnIdle, ConnReply, ConnWriteExpires, ConnRequest, ConnBroken,
                      ConnWritten
  <2>8. ASSUME NEW j \in Job, HandleEnd(j) \/ Release(j) \/ Signal(j) PROVE Rest
    BY <2>4, <2>8 DEF HandleEnd, Release, Signal
  <2>9. ASSUME Tick \/ UNCHANGED vars PROVE Rest
    BY <2>4, <2>9 DEF Tick, vars
  <2> HIDE DEF Rest
  <2>10. Rest
    BY <2>2, <2>3, <2>5, <2>6, <2>7, <2>8, <2>9 DEF Next, Step, Environment
  <2>11. QED
    BY <2>1, <2>10 DEF EndInv, Rest
<1>3. QED
  BY <1>1, <1>2, ServerTypeCorrect, WeakTypeInvariant, AccountsInvariant, PhaseInvariant, PTL DEF Spec


\* A handler runs on after the return only when the drain has timed out, and
\* then it forwards.
LEMMA RunningLate ==
  ASSUME WeakType, Accounts, PhaseInv, EndInv, NEW q \in Query, QueryInv(q),
         main = "returned", st[q] \in Counted
  PROVE  how = "timeout" /\ kind[q] = "forward"
<1>1. q \in Job
  BY DEF Job
<1>2. how # "none" /\ how # "error"
  BY <1>1 DEF PhaseInv, Counted, Holding
<1>3. how # "drained"
  BY <1>1, NoneCounted DEF EndInv
<1>4. how = "timeout"
  BY <1>2, <1>3 DEF WeakType
<1>5. QED
  BY <1>4 DEF QueryInv, Outlasts, Counted, Holding

\* A datagram's own steps, and those of others, keep it within its time.
LEMMA QueryInvariant == Spec => [](\A q \in Query : QueryInv(q))
<1> DEFINE All == \A q \in Query : QueryInv(q)
<1>1. Init => All
  BY DEF Init, QueryInv, Job
<1>2. WeakType /\ Accounts /\ PhaseInv /\ LoopInv /\ EndInv /\ All /\ [Next]_vars => All'
  <2> SUFFICES ASSUME WeakType, Accounts, PhaseInv, LoopInv, EndInv, [Next]_vars,
                      NEW q \in Query, QueryInv(q)
               PROVE  QueryInv(q)'
    OBVIOUS
  <2>0. /\ q \in Job /\ q \notin Conn /\ Query \subseteq Job /\ Conn \subseteq Job
        /\ st \in [Job -> States] /\ kind \in [Job -> Kinds] /\ left \in [Job -> Nat]
        /\ outcome \in [Query -> {"none", "lost"}]
        /\ drainLeft \in Nat
        /\ OverallTimeout \in Nat \ {0} /\ DrainGrace \in Nat \ {0}
    BY ServerAssumption DEF Job, WeakType
  <2>b. /\ left[q] \in Nat /\ drainLeft \in Nat
        /\ OverallTimeout \in Nat \ {0} /\ DrainGrace \in Nat \ {0}
    BY <2>0
  <2> USE DEF mainVars, loopVars, reqVars
  <2>a. ASSUME UNCHANGED <<st[q], kind[q], left[q], outcome[q], main, how, drainLeft>>
        PROVE  QueryInv(q)'
    BY <2>a DEF QueryInv, InTime, Outlasts
  <2>1. ASSUME udp \notin {"new", "off", "exit"} PROVE main # "drain" /\ how # "timeout"
    BY <2>1 DEF PhaseInv, LoopsOver, WeakType
  <2>2. ASSUME NEW r \in Query, udp \notin {"new", "off", "exit"},
               NEW x \in {"held", "done", "slot", "run"}, Goto(r, x),
               st[r] \in {"out", "held", "slot"},
               UNCHANGED <<kind, left, outcome, main, how, drainLeft>>
        PROVE  QueryInv(q)'
    <3>1. main' # "drain" /\ how' # "timeout"
      BY <2>1, <2>2
    <3>2. CASE q = r
      BY <2>0, <2>2, <3>1, <3>2 DEF QueryInv, Goto
    <3>3. CASE q # r
      BY <2>0, <2>2, <2>a, <3>3 DEF Goto
    <3>4. QED
      BY <3>2, <3>3
  <2>3. ASSUME UDPRead \/ UDPAdmit \/ UDPSpawn PROVE QueryInv(q)'
    BY <2>2, <2>3 DEF UDPRead, UDPAdmit, UDPSpawn
  <2>4. ASSUME NEW j \in Job, j # q, NEW x, Goto(j, x), UNCHANGED <<main, how, drainLeft>>,
               kind[q]' = kind[q], left[q]' = left[q], outcome[q]' = outcome[q]
        PROVE  QueryInv(q)'
    BY <2>0, <2>4, <2>a DEF Goto
  <2>5. ASSUME TCPAccept \/ TCPAdmit \/ TCPAdmitExpires \/ TCPSpawn PROVE QueryInv(q)'
    BY <2>0, <2>4, <2>5 DEF TCPAccept, TCPAdmit, TCPAdmitExpires, TCPSpawn
  <2>6. ASSUME NEW c \in Conn, \/ ConnBegin(c) \/ ConnIdle(c) \/ ConnReply(c) \/ ConnWriteExpires(c)
                               \/ ConnRequest(c) \/ ConnBroken(c) \/ ConnWritten(c)
        PROVE  QueryInv(q)'
    BY <2>0, <2>4, <2>6 DEF ConnBegin, ConnIdle, ConnReply, ConnWriteExpires, ConnRequest, ConnBroken,
                            ConnWritten, HandleBegin, Await
  <2>7. ASSUME NEW r \in Query, r # q, DatagramBegin(r) \/ DatagramReply(r) PROVE QueryInv(q)'
    BY <2>0, <2>4, <2>7 DEF DatagramBegin, DatagramReply, HandleBegin, Lose
  <2>8. ASSUME NEW j \in Job, j # q, HandleEnd(j) \/ Release(j) \/ Signal(j) PROVE QueryInv(q)'
    BY <2>0, <2>4, <2>8 DEF HandleEnd, Release, Signal
  <2>9. ASSUME DatagramBegin(q) PROVE QueryInv(q)'
    <3>1. PICK k \in Kinds : kind' = [kind EXCEPT ![q] = k] /\ left' = [left EXCEPT ![q] = Limit(k)]
      BY <2>9 DEF DatagramBegin, HandleBegin
    <3>2. /\ st[q] = "run" /\ st'[q] = "handle" /\ kind'[q] = k /\ left'[q] = Limit(k)
          /\ UNCHANGED <<main, how, drainLeft, outcome>>
      BY <2>0, <2>9, <3>1 DEF DatagramBegin, HandleBegin, Goto
    <3>3. k # "forward" => Limit(k) <= OverallTimeout
      BY LimitBound
    <3>4. Limit(k) \in Nat
      BY LimitBound
    <3>5. how # "timeout" /\ outcome[q] # "lost" /\ (main = "drain" => drainLeft = DrainLimit)
      BY <3>2 DEF QueryInv, Outlasts, InTime
    <3>6. k # "forward" => /\ left'[q] <= OverallTimeout
                           /\ main = "drain" => left'[q] + DrainGrace <= drainLeft
      BY <2>b, <3>2, <3>3, <3>4, <3>5 DEF DrainLimit
    <3>7. QED
      BY <3>2, <3>5, <3>6 DEF QueryInv, InTime
  <2>10. ASSUME DatagramReply(q) PROVE QueryInv(q)'
    <3>1. /\ st[q] = "reply" /\ st'[q] = "release" /\ kind' = kind
          /\ UNCHANGED <<main, how, drainLeft>>
      BY <2>0, <2>10 DEF DatagramReply, Goto
    <3>2. ASSUME outcome'[q] = "lost" PROVE how = "timeout" /\ kind[q] = "forward"
      <4>1. ~ udpOpen
        BY <2>0, <2>10, <3>1, <3>2 DEF DatagramReply, Lose, QueryInv
      <4>2. main = "returned"
        BY <3>1, <4>1 DEF EndInv, LoopInv
      <4>3. QED
        BY <3>1, <4>2, RunningLate DEF Counted, Holding
    <3>3. QED
      BY <3>1, <3>2 DEF QueryInv, InTime, Outlasts
  <2>11. ASSUME HandleEnd(q) PROVE QueryInv(q)'
    <3>1. /\ st[q] = "handle" /\ st'[q] = "reply"
          /\ UNCHANGED <<main, how, drainLeft, kind, outcome>>
      BY <2>0, <2>11 DEF HandleEnd, Goto
    <3>2. main = "drain" /\ kind[q] # "forward" => DrainGrace <= drainLeft
      BY <2>b, <3>1 DEF QueryInv, InTime
    <3>3. QED
      BY <3>1, <3>2 DEF QueryInv, InTime, Outlasts
  <2>12. ASSUME Release(q) \/ Signal(q) PROVE QueryInv(q)'
    <3>1. /\ \/ st[q] = "release" /\ st'[q] = "signal"
             \/ st[q] = "signal" /\ st'[q] = "done"
          /\ UNCHANGED <<main, how, drainLeft, kind, left, outcome>>
      BY <2>0, <2>12 DEF Release, Signal, Goto
    <3>2. QED
      BY <3>1 DEF QueryInv, InTime, Outlasts
  <2>13. ASSUME Drain PROVE QueryInv(q)'
    <3>1. /\ drainLeft' = DrainLimit /\ UNCHANGED <<st, kind, left, outcome, how>>
          /\ how # "timeout"
      BY <2>13 DEF Drain, PhaseInv
    <3>2. left[q] \in Nat
      BY <2>0
    <3>3. QED
      BY <2>0, <3>1, <3>2 DEF QueryInv, InTime, DrainLimit
  <2>14. ASSUME Drained \/ DrainExpires PROVE QueryInv(q)'
    <3>1. /\ main = "drain" /\ main' = "returned" /\ how = "none"
          /\ UNCHANGED <<st, kind, left, outcome, drainLeft>>
      BY <2>14 DEF Drained, DrainExpires, DrainEnd, PhaseInv
    <3>2. outcome[q] # "lost" /\ InTime(q)
      BY <3>1 DEF QueryInv
    <3>3. ASSUME how' = "timeout" PROVE Outlasts(q)
      <4>1. drainLeft = 0
        BY <2>14, <3>3 DEF Drained, DrainExpires, DrainEnd
      <4>2. left[q] \in Nat
        BY <2>0
      <4>3. st[q] \notin {"held", "slot", "idle", "write"}
        BY <3>1 DEF PhaseInv, LoopsOver, LoopInv, WeakType
      <4>4. st[q] # "run"
        BY <2>0, <3>2, <4>1 DEF InTime, DrainLimit
      <4>5. st[q] = "handle" => kind[q] = "forward"
        BY <2>0, <3>2, <4>1, <4>2 DEF InTime
      <4>6. st[q] \in {"reply", "release", "signal"} => kind[q] = "forward"
        BY <2>0, <3>2, <4>1 DEF InTime
      <4>7. st[q] \in States
        BY <2>0
      <4>8. QED
        BY <4>3, <4>4, <4>5, <4>6, <4>7 DEF Outlasts, States
    <3>4. QED
      BY <3>1, <3>2, <3>3 DEF QueryInv, Outlasts
  <2>15. ASSUME Tick PROVE QueryInv(q)'
    <3>1. /\ UNCHANGED <<st, kind, outcome, main, how>>
          /\ left'[q] = Less(left[q]) /\ drainLeft' = Less(drainLeft)
      BY <2>0, <2>15 DEF Tick
    <3>2. /\ \/ st[q] \in {"out", "held", "done"}
             \/ st[q] \in {"handle", "idle", "write"} /\ left[q] > 0
          /\ main = "drain" => drainLeft > 0
      BY <2>0, <2>15 DEF Tick, Settled
    <3>3. CASE st[q] \in {"out", "held", "done"}
      BY <3>1, <3>3 DEF QueryInv, InTime, Outlasts
    <3>4. CASE st[q] \in {"handle", "idle", "write"} /\ left[q] > 0
      <4>1. left'[q] = left[q] - 1 /\ (main = "drain" => drainLeft' = drainLeft - 1)
        BY <2>b, <3>1, <3>2, <3>4 DEF Less
      <4>2. left[q] <= OverallTimeout => left'[q] <= OverallTimeout
        BY <2>b, <4>1
      <4>3. main = "drain" /\ left[q] + DrainGrace <= drainLeft => left'[q] + DrainGrace <= drainLeft'
        BY <2>b, <4>1
      <4>4. QED
        BY <3>1, <3>4, <4>2, <4>3 DEF QueryInv, InTime, Outlasts
    <3>5. QED
      BY <3>2, <3>3, <3>4
  <2>16. ASSUME \/ UDPReadExpired \/ UDPReadError \/ TCPAcceptClosed \/ TCPAcceptError
                \/ StopUDP \/ StopTCP \/ Cancel \/ WaitReturns \/ UNCHANGED vars
         PROVE  QueryInv(q)'
    BY <2>a, <2>16 DEF UDPReadExpired, UDPReadError, TCPAcceptClosed, TCPAcceptError, StopUDP, StopTCP,
                       Cancel, WaitReturns, vars
  <2>17. ASSUME Listen PROVE QueryInv(q)'
    <3>1. st[q] = "out" /\ UNCHANGED <<st, outcome>> /\ main' # "drain" /\ how' # "timeout"
      BY <2>0, <2>17 DEF Listen, PhaseInv
    <3>2. QED
      BY <3>1 DEF QueryInv
  <2>18. QED
    BY <2>3, <2>5, <2>6, <2>7, <2>8, <2>9, <2>10, <2>11, <2>12, <2>13, <2>14, <2>15, <2>16, <2>17
    DEF Next, Step, Environment
<1>3. QED
  BY <1>1, <1>2, WeakTypeInvariant, AccountsInvariant, PhaseInvariant, LoopInvariant, EndInvariant, PTL DEF Spec

\* After a drain every handler has ended, and a drain that times out cuts off
\* only connections and forwarded queries.
THEOREM DrainCorrect == Spec => []DrainCoversLookups
<1>1. WeakType /\ Accounts /\ PhaseInv /\ LoopInv /\ DrainInv => DrainCoversLookups
  <2> SUFFICES ASSUME WeakType, Accounts, PhaseInv, LoopInv, DrainInv PROVE DrainCoversLookups
    OBVIOUS
  <2>0. Query \subseteq Job /\ st \in [Job -> States] /\ Job = Query \cup Conn
    BY DEF Job, WeakType
  <2>1. ASSUME NEW j \in Job, main = "returned", how # "error" PROVE st[j] \notin {"held", "slot"}
    BY <2>0, <2>1 DEF PhaseInv, LoopsOver, LoopInv
  <2>2. ASSUME how = "drained", NEW j \in Job PROVE st[j] \in {"out", "done"}
    <3>1. main = "returned" /\ st[j] \notin Counted
      BY <2>2, NoneCounted DEF DrainInv, EndInv, PhaseInv
    <3>2. QED
      BY <2>0, <2>1, <2>2, <3>1 DEF Counted, Holding, States
  <2>3. ASSUME main = "returned", NEW q \in Query, st[q] \notin {"out", "done"} \/ outcome[q] = "lost"
        PROVE  how = "timeout" /\ kind[q] = "forward"
    <3>1. CASE outcome[q] = "lost"
      BY <3>1 DEF DrainInv, QueryInv
    <3>2. CASE st[q] \notin {"out", "done"}
      <4>1. how # "error"
        BY <2>0, <3>2 DEF PhaseInv
      <4>2. st[q] \in Counted
        BY <2>0, <2>1, <2>3, <3>2, <4>1 DEF Counted, Holding, States
      <4>3. QED
        BY <2>3, <4>2, RunningLate DEF DrainInv
    <3>3. QED
      BY <2>3, <3>1, <3>2
  <2>4. QED
    BY <2>2, <2>3 DEF DrainCoversLookups
<1>2. QED
  BY <1>1, WeakTypeInvariant, AccountsInvariant, PhaseInvariant, LoopInvariant, EndInvariant, QueryInvariant,
     PTL DEF DrainInv


-----------------------------------------------------------------------------
\* Where the shutdown is in time.  While ListenAndServe waits for the loops,
\* only a connection that waits for a slot takes time.
ServeTime ==
  /\ stopper # "none"
  /\ stopper \in {"tcp", "end"} => udp \in {"off", "exit"} \/ udpExpired
  /\ stopper = "end" => ~ tcpOpen
  /\ since > 0 => stopper = "end"
  /\ since <= TCPAdmitTimeout
  /\ tcp = "admit" => since + admitLeft <= TCPAdmitTimeout

TimeInv ==
  /\ ~ ctxDone => since = 0 /\ stopper \in {"none", "wait"}
  /\ main = "listen" => since = 0
  /\ main = "serve" => ServeTime
  /\ main = "drain" => since + drainLeft <= ShutdownLimit
  /\ since <= ShutdownLimit

\* Time passes in the shutdown only within the two limits.
LEMMA TimeInvariant == Spec => []TimeInv
<1>1. Init => TimeInv
  BY ServerAssumption DEF Init, TimeInv, ShutdownLimit
<1>2. WeakType /\ PhaseInv /\ EndInv /\ TimeInv /\ [Next]_vars => TimeInv'
  <2> SUFFICES ASSUME WeakType, PhaseInv, EndInv, TimeInv, [Next]_vars PROVE TimeInv'
    OBVIOUS
  <2>0. /\ since \in Nat /\ admitLeft \in Nat /\ drainLeft \in Nat
        /\ TCPAdmitTimeout \in Nat /\ OverallTimeout \in Nat /\ DrainGrace \in Nat
    BY ServerAssumption DEF WeakType
  <2> USE DEF mainVars, loopVars, sockVars
  <2>a. ASSUME UNCHANGED <<ctxDone, since, stopper, main, drainLeft, udpExpired, tcpOpen>>,
               udp' = udp \/ udp \notin {"off", "exit"} \/ udp' = "exit",
               tcp' # "admit" \/ UNCHANGED <<tcp, admitLeft>>
        PROVE  TimeInv'
    BY <2>a DEF TimeInv, ServeTime
  <2>1. ASSUME Listen PROVE TimeInv'
    BY <2>0, <2>1 DEF Listen, TimeInv, ServeTime, PhaseInv
  <2>2. ASSUME StopUDP PROVE TimeInv'
    <3>1. main = "serve" => udp \in {"off", "exit"} \/ udpExpired'
      BY <2>2 DEF StopUDP, EndInv, PhaseInv
    <3>2. QED
      BY <2>0, <2>2, <3>1 DEF StopUDP, TimeInv, ServeTime
  <2>3. ASSUME StopTCP PROVE TimeInv'
    BY <2>0, <2>3 DEF StopTCP, TimeInv, ServeTime
  <2>4. ASSUME Cancel PROVE TimeInv'
    BY <2>0, <2>4 DEF Cancel, TimeInv, ServeTime
  <2>5. ASSUME \/ UDPReadExpired \/ UDPReadError \/ UDPRead \/ UDPAdmit \/ UDPSpawn
               \/ TCPAcceptClosed \/ TCPAcceptError \/ TCPAdmit \/ TCPAdmitExpires \/ TCPSpawn
        PROVE  TimeInv'
    BY <2>a, <2>5 DEF UDPReadExpired, UDPReadError, UDPRead, UDPAdmit, UDPSpawn, TCPAcceptClosed,
                      TCPAcceptError, TCPAdmit, TCPAdmitExpires, TCPSpawn
  <2>6. ASSUME TCPAccept PROVE TimeInv'
    <3>1. main = "serve" => since = 0
      BY <2>0, <2>6 DEF TCPAccept, TimeInv, ServeTime
    <3>2. QED
      BY <2>0, <2>6, <3>1 DEF TCPAccept, TimeInv, ServeTime
  <2>7. ASSUME NEW q \in Query, DatagramBegin(q) \/ DatagramReply(q) PROVE TimeInv'
    BY <2>a, <2>7 DEF DatagramBegin, DatagramReply
  <2>8. ASSUME NEW c \in Conn, \/ ConnBegin(c) \/ ConnIdle(c) \/ ConnReply(c) \/ ConnWriteExpires(c)
                               \/ ConnRequest(c) \/ ConnBroken(c) \/ ConnWritten(c)
        PROVE  TimeInv'
    BY <2>a, <2>8 DEF ConnBegin, ConnIdle, ConnReply, ConnWriteExpires, ConnRequest, ConnBroken,
                      ConnWritten
  <2>9. ASSUME NEW j \in Job, HandleEnd(j) \/ Release(j) \/ Signal(j) PROVE TimeInv'
    BY <2>a, <2>9 DEF HandleEnd, Release, Signal
  <2>10. ASSUME Drain PROVE TimeInv'
    <3>1. since <= TCPAdmitTimeout /\ UNCHANGED <<since, ctxDone, stopper>> /\ ctxDone
          /\ main' = "drain" /\ drainLeft' = OverallTimeout + DrainGrace
      BY <2>10 DEF Drain, DrainLimit, TimeInv, ServeTime
    <3>2. since + (OverallTimeout + DrainGrace) <= ShutdownLimit
      BY <2>0, <3>1 DEF ShutdownLimit
    <3>3. QED
      BY <3>1, <3>2 DEF TimeInv
  <2>11. ASSUME WaitReturns \/ UNCHANGED vars PROVE TimeInv'
    BY <2>a, <2>11 DEF WaitReturns, vars
  <2>12. ASSUME Drained \/ DrainExpires PROVE TimeInv'
    BY <2>12 DEF Drained, DrainExpires, DrainEnd, TimeInv
  <2>13. ASSUME Tick PROVE TimeInv'
    <3>0. /\ UNCHANGED <<ctxDone, main, stopper, udp, tcp, udpExpired, tcpOpen>>
          /\ since' = IF ctxDone /\ since <= ShutdownLimit THEN since + 1 ELSE since
          /\ admitLeft' = Less(admitLeft) /\ drainLeft' = Less(drainLeft)
      BY <2>13 DEF Tick
    <3>1. CASE ~ ctxDone
      <4>1. since' = 0 /\ since = 0 /\ stopper \in {"none", "wait"} /\ main # "returned"
            /\ main # "listen"
        BY <2>13, <3>0, <3>1 DEF TimeInv, Tick, Settled
      <4>2. Less(admitLeft) <= admitLeft /\ Less(admitLeft) \in Nat
            /\ Less(drainLeft) <= drainLeft /\ Less(drainLeft) \in Nat
        BY <2>0 DEF Less
      <4>3. ShutdownLimit \in Nat
        BY <2>0 DEF ShutdownLimit
      <4>4. QED
        BY <2>0, <3>0, <3>1, <4>1, <4>2, <4>3 DEF TimeInv, ServeTime
    <3>2. CASE ctxDone /\ main = "serve"
      <4>1. stopper = "end" /\ tcp = "admit" /\ admitLeft > 0
        BY <2>13, <3>2 DEF TimeInv, ServeTime, Tick, Settled, LoopsOver
      <4>2. since + admitLeft <= TCPAdmitTimeout
        BY <3>2, <4>1 DEF TimeInv, ServeTime
      <4>3. since' = since + 1 /\ admitLeft' = admitLeft - 1
        BY <2>0, <3>0, <3>2, <4>1 DEF TimeInv, Less
      <4>4. since' + admitLeft' <= TCPAdmitTimeout /\ since' <= TCPAdmitTimeout
            /\ since' <= ShutdownLimit
        BY <2>0, <4>1, <4>2, <4>3 DEF ShutdownLimit
      <4>5. QED
        BY <3>0, <3>2, <4>1, <4>4 DEF TimeInv, ServeTime
    <3>3. CASE ctxDone /\ main = "drain"
      <4>1. drainLeft > 0 /\ since + drainLeft <= ShutdownLimit
        BY <2>13, <3>3 DEF TimeInv, Tick, Settled
      <4>2. since' = since + 1 /\ drainLeft' = drainLeft - 1
        BY <2>0, <3>0, <3>3, <4>1 DEF TimeInv, Less
      <4>3. ShutdownLimit \in Nat
        BY <2>0 DEF ShutdownLimit
      <4>4. since' + drainLeft' <= ShutdownLimit /\ since' <= ShutdownLimit
        BY <2>0, <4>1, <4>2, <4>3
      <4>5. QED
        BY <3>0, <3>3, <4>4 DEF TimeInv
    <3>4. QED
      BY <2>13, <3>1, <3>2, <3>3 DEF Tick, Settled
  <2>14. QED
    BY <2>1, <2>2, <2>3, <2>4, <2>5, <2>6, <2>7, <2>8, <2>9, <2>10, <2>11, <2>12, <2>13
    DEF Next, Step, Environment
<1>3. QED
  BY <1>1, <1>2, WeakTypeInvariant, PhaseInvariant, EndInvariant, PTL DEF Spec

\* ListenAndServe never takes longer for its shutdown than a wait for a slot
\* and a drain, whatever the clients do.
THEOREM ShutdownInTime == Spec => []ShutdownWithin
<1>1. TimeInv => ShutdownWithin
  BY DEF TimeInv, ShutdownWithin
<1>2. QED
  BY <1>1, TimeInvariant, PTL
=============================================================================
