------------------------------- MODULE Chase --------------------------------
(***************************************************************************)
(* internal/upstream/chase.go: one call of Chase against one upstream, and *)
(* the Client.Exchange of client.go that it calls for each name.           *)
(*                                                                         *)
(* The upstream may answer each query with any member of Reply.  Beside    *)
(* the chase run the timer and the cancellation of the query's context.    *)
(* The clock passes the deadline first and ctx.Err reports it later:       *)
(* hopBudget looks at the clock, everything else at ctx.Err.               *)
(***************************************************************************)
EXTENDS Naturals, Sequences, FiniteSets

CONSTANTS
  Name,     \* normalized domain names
  qname,    \* the name asked for
  Addr,     \* addresses of the queried type
  SOA, NoSOA,
  MaxHops,  \* max_cname_hops
  Reply     \* the DNS messages upstreams may send

\* A message as Chase reads it: its TC bit and rcode, the records of the
\* queried type in order, the CNAME records in order (`own' says whether the
\* record's owner is the name asked), and the SOA of the authority section.
Message ==
  [tc : BOOLEAN, rcode : {"success", "nxdomain", "other"},
   rrs : Seq([ip : Addr, ttl : Nat]),
   cnames : Seq([own : BOOLEAN, target : Name]),
   soa : SOA \cup {NoSOA}]

ASSUME ChaseAssumption ==
  /\ qname \in Name
  /\ IsFiniteSet(Name)
  /\ MaxHops \in Nat
  /\ NoSOA \notin SOA
  /\ Reply \subseteq Message

VARIABLES
  pc,       \* "loop", "budget", "exchange", "udp", "truncated", "tcp" or "done"
  pending,  \* the queue of names
  seen,     \* the names taken from it
  lookups,
  cur,      \* the name being looked up
  err,      \* ctx.Err() # nil
  late,     \* the clock has passed the context's deadline
  res,      \* the policy.Result returned
  sent,     \* (history) the queries sent, in order: <<name, transport>>
  replies   \* (history) the reply used for each name

vars == <<pc, pending, seen, lookups, cur, err, late, res, sent, replies>>

ctxVars == <<err, late>>

Elems(s) == { s[i] : i \in DOMAIN s }

\* policy.Result with its ErrCategory.
Result(state, addrs, soa, ttl, category) ==
  [state |-> state, addrs |-> addrs, soa |-> soa, minTTL |-> ttl, category |-> category]

NoResult == Result("none", {}, NoSOA, 0, "")

\* The names a reply's own CNAMEs lead to.
TargetSet(r) == { r.cnames[i].target : i \in { j \in DOMAIN r.cnames : r.cnames[j].own } }

\* A mutated form: the owner of the CNAME is not compared with the name asked.
NewTargetsAnyOwner(r, done) ==
  [i \in DOMAIN r.cnames |-> r.cnames[i].target]

\* The CNAME targets Chase collects, each at its first occurrence, without
\* those already looked up: ts[i] is what the first i records give.
NewTargets(r, done) ==
  LET cn == r.cnames
      ts[i \in 0..Len(cn)] ==
        IF i = 0 THEN <<>>
        ELSE IF cn[i].own /\ cn[i].target \notin done \cup Elems(ts[i - 1])
             THEN Append(ts[i - 1], cn[i].target)
             ELSE ts[i - 1]
  IN  ts[Len(cn)]

\* A mutated form: the comparison is the wrong way round.
MinTTLGreatest(rrs) ==
  LET m[i \in 0..Len(rrs)] ==
        IF i = 0 THEN 0
        ELSE IF m[i - 1] = 0 \/ rrs[i].ttl > m[i - 1] THEN rrs[i].ttl
        ELSE m[i - 1]
  IN  m[Len(rrs)]

\* The minTTL loop: m[i] is the variable's value after i records.
MinTTL(rrs) ==
  LET m[i \in 0..Len(rrs)] ==
        IF i = 0 THEN 0
        ELSE IF m[i - 1] = 0 \/ rrs[i].ttl < m[i - 1] THEN rrs[i].ttl
        ELSE m[i - 1]
  IN  m[Len(rrs)]

-----------------------------------------------------------------------------
Init ==
  /\ pc = "loop"
  /\ pending = <<qname>>
  /\ seen = {}
  /\ lookups = 0
  /\ cur = qname
  /\ err = FALSE
  /\ late = FALSE
  /\ res = NoResult
  /\ sent = <<>>
  /\ replies = [x \in {} |-> 0]

Return(state, addrs, soa, ttl, category) ==
  /\ pc' = "done"
  /\ res' = Result(state, addrs, soa, ttl, category)

Fail(category) == Return("failure", {}, NoSOA, 0, category)

\* The head of the loop: the context has ended.  Category does not know the
\* context package's errors and files them under "network".
LoopCanceled ==
  /\ pc = "loop" /\ pending # <<>> /\ err
  /\ Fail("network")
  /\ UNCHANGED <<pending, seen, lookups, cur, ctxVars, sent, replies>>

\* A mutated form: `continue' before the head has been taken off the queue.
LoopSkipStuck ==
  /\ pc = "loop" /\ pending # <<>> /\ ~ err
  /\ Head(pending) \in seen
  /\ UNCHANGED vars

\* The head of the queue has been looked up already: continue.
LoopSkip ==
  /\ pc = "loop" /\ pending # <<>> /\ ~ err
  /\ Head(pending) \in seen
  /\ pending' = Tail(pending)
  /\ UNCHANGED <<pc, seen, lookups, cur, ctxVars, res, sent, replies>>

\* A mutated form: the cap takes one hop too many off.
OverCapEarly(k) == k >= MaxHops

OverCap(k) == k > MaxHops

\* A mutated form: the cycle guard is left out.
LoopVisitAgain ==
  /\ pc = "loop" /\ pending # <<>> /\ ~ err
  /\ pending' = Tail(pending)
  /\ cur' = Head(pending)
  /\ seen' = seen \cup {Head(pending)}
  /\ lookups' = lookups + 1
  /\ \/ OverCap(lookups + 1) /\ Fail("cname-maxdepth")
     \/ ~ OverCap(lookups + 1) /\ pc' = "budget" /\ res' = res
  /\ UNCHANGED <<ctxVars, sent, replies>>

\* A new name: it counts, and may be one too many.
LoopVisit ==
  /\ pc = "loop" /\ pending # <<>> /\ ~ err
  /\ Head(pending) \notin seen
  /\ pending' = Tail(pending)
  /\ cur' = Head(pending)
  /\ seen' = seen \cup {Head(pending)}
  /\ lookups' = lookups + 1
  /\ \/ OverCap(lookups + 1) /\ Fail("cname-maxdepth")
     \/ ~ OverCap(lookups + 1) /\ pc' = "budget" /\ res' = res
  /\ UNCHANGED <<ctxVars, sent, replies>>

\* The queue is exhausted without records.
LoopExhausted ==
  /\ pc = "loop" /\ pending = <<>>
  /\ Return("nodata", {}, NoSOA, 0, "")
  /\ UNCHANGED <<pending, seen, lookups, cur, ctxVars, sent, replies>>

HopBudget ==
  /\ pc = "budget"
  /\ \/ late /\ Fail("timeout")
     \/ ~ late /\ pc' = "exchange" /\ res' = res
  /\ UNCHANGED <<pending, seen, lookups, cur, ctxVars, sent, replies>>

\* Exchange: the check of the context, and the query over UDP or, after a
\* truncated reply, over TCP.
Send(from, transport) ==
  /\ pc = from
  /\ \/ err /\ Fail("canceled") /\ sent' = sent
     \/ ~ err /\ pc' = transport /\ res' = res /\ sent' = Append(sent, <<cur, transport>>)
  /\ UNCHANGED <<pending, seen, lookups, cur, ctxVars, replies>>

ExchangeUDP == Send("exchange", "udp")

ExchangeTCP == Send("truncated", "tcp")

\* The exchange ends with an error: no reply within the budget, or another
\* network error.
ExchangeError ==
  /\ pc \in {"udp", "tcp"}
  /\ Fail("timeout") \/ Fail("network")
  /\ UNCHANGED <<pending, seen, lookups, cur, ctxVars, sent, replies>>

\* A mutated form: of several targets only the first is kept.
EnqueueFirst(ts) == pending' = IF ts = <<>> THEN pending ELSE Append(pending, Head(ts))

\* A mutated form: the targets are put in front of the queue.
EnqueueFront(ts) == pending' = ts \o pending

Enqueue(ts) == pending' = pending \o ts

HasAddrs(r) == r.rrs # <<>>

\* What Chase makes of the reply to cur.
UseReply(r) ==
  \/ /\ r.rcode = "nxdomain"
     /\ Return("nxdomain", {}, r.soa, 0, "")
     /\ pending' = pending
  \/ /\ r.rcode = "other"
     /\ Fail("rcode")
     /\ pending' = pending
  \/ /\ r.rcode = "success" /\ HasAddrs(r)
     /\ Return("answer", { r.rrs[i].ip : i \in DOMAIN r.rrs }, NoSOA, MinTTL(r.rrs), "")
     /\ pending' = pending
  \/ /\ r.rcode = "success" /\ ~ HasAddrs(r) /\ TargetSet(r) = {}
     /\ Return("nodata", {}, r.soa, 0, "")
     /\ pending' = pending
  \/ /\ r.rcode = "success" /\ ~ HasAddrs(r) /\ TargetSet(r) # {}
     /\ Enqueue(NewTargets(r, seen))
     /\ pc' = "loop" /\ res' = res

Replied(r) ==
  /\ UseReply(r)
  /\ replies' = [x \in DOMAIN replies \cup {cur} |-> IF x = cur THEN r ELSE replies[x]]

\* A UDP reply: a truncated one is set aside for a retry over TCP.
UDPReply ==
  /\ pc = "udp"
  /\ \E r \in Reply :
       \/ /\ r.tc
          /\ pc' = "truncated"
          /\ UNCHANGED <<pending, res, replies>>
       \/ ~ r.tc /\ Replied(r)
  /\ UNCHANGED <<seen, lookups, cur, ctxVars, sent>>

\* The reply over TCP is used whatever its TC bit says.
TCPReply ==
  /\ pc = "tcp"
  /\ \E r \in Reply : Replied(r)
  /\ UNCHANGED <<seen, lookups, cur, ctxVars, sent>>

Step ==
  \/ LoopCanceled \/ LoopSkip \/ LoopVisit \/ LoopExhausted
  \/ HopBudget \/ ExchangeUDP \/ ExchangeTCP
  \/ ExchangeError \/ UDPReply \/ TCPReply

\* The deadline passes; its timer fires, or the caller cancels.  Nothing looks
\* at the context once Chase has returned.
Deadline ==
  /\ pc # "done" /\ ~ late
  /\ late' = TRUE
  /\ UNCHANGED <<pc, pending, seen, lookups, cur, err, res, sent, replies>>

ContextEnds ==
  /\ pc # "done" /\ ~ err
  /\ err' = TRUE
  /\ UNCHANGED <<pc, pending, seen, lookups, cur, late, res, sent, replies>>

Next == Step \/ Deadline \/ ContextEnds

Spec == Init /\ [][Next]_vars

\* The goroutine runs, and an exchange ends: a reply, an error or the timeout
\* of its budget.  The context need not end.
FairSpec == Spec /\ WF_vars(Step)

-----------------------------------------------------------------------------
Categories == {"", "network", "canceled", "timeout", "cname-maxdepth", "rcode"}

\* Every variable has its type; a result is of the shape Engine relies on:
\* an answer has addresses, and only an answer has a TTL.
TypeOK ==
  /\ pc \in {"loop", "budget", "exchange", "udp", "truncated", "tcp", "done"}
  /\ pending \in Seq(Name)
  /\ seen \subseteq Name
  /\ lookups = Cardinality(seen)
  /\ cur \in Name
  /\ err \in BOOLEAN /\ late \in BOOLEAN
  /\ res \in [state : {"none", "failure", "nodata", "nxdomain", "answer"},
              addrs : SUBSET Addr, soa : SOA \cup {NoSOA}, minTTL : Nat, category : Categories]
  /\ pc = "done" <=> res.state # "none"
  /\ res.state = "answer" <=> res.addrs # {}
  /\ res.state # "answer" => res.minTTL = 0
  /\ res.soa # NoSOA => res.state \in {"nodata", "nxdomain"}
  /\ res.state = "failure" <=> res.category # ""
  /\ sent \in Seq(Name \X {"udp", "tcp"})
  /\ DOMAIN replies \subseteq Name
  /\ \A x \in DOMAIN replies : replies[x] \in Reply

Asked == { q[1] : q \in Elems(sent) }

\* The cycle guard, the cap and the single retry: no name is asked twice over
\* the same transport, TCP only follows UDP, and at most MaxHops names are asked.
AskedOnce ==
  /\ \A i, j \in DOMAIN sent : sent[i] = sent[j] => i = j
  /\ \A x \in Name : <<x, "tcp">> \in Elems(sent) => <<x, "udp">> \in Elems(sent)
  /\ Cardinality(Asked) <= MaxHops

\* S holds the target of every CNAME that a member of S was answered with.
Closed(S) == \A x \in S \cap DOMAIN replies : TargetSet(replies[x]) \subseteq S

\* Chase asks for the name it was given and for what that name's own CNAMEs
\* lead to, nothing else; an answer is made of the records of one of these.
OnlyTheChain ==
  /\ \A S \in SUBSET Name : qname \in S /\ Closed(S) => Asked \subseteq S
  /\ res.state = "answer" =>
       cur \in Asked /\ res.addrs = { rr.ip : rr \in Elems(replies[cur].rrs) }

\* The cap: Chase gives up with "cname-maxdepth" only when MaxHops names have
\* been answered with CNAMEs and there is one more to ask.
DepthCapExact ==
  res.category = "cname-maxdepth" =>
    /\ Cardinality(Asked) = MaxHops
    /\ cur \notin Asked
    /\ \A x \in Asked : x \in DOMAIN replies /\ TargetSet(replies[x]) # {}

\* "Queue exhausted without records": an empty answer that no upstream gave is
\* returned only when all that is reachable has been asked, and is CNAMEs that
\* lead back into themselves.
ExhaustedIsClosed ==
  res.state = "nodata" /\ TargetSet(replies[cur]) # {} =>
    /\ Asked = seen /\ qname \in seen /\ Closed(seen)
    /\ \A x \in seen : ~ HasAddrs(replies[x]) /\ TargetSet(replies[x]) # {}

\* w[d] is the set of the names at most d CNAMEs away from qname.
Within ==
  LET w[d \in 0..Cardinality(Name)] ==
        IF d = 0 THEN {qname}
        ELSE LET near == w[d - 1]
             IN  near \cup UNION { TargetSet(replies[x]) : x \in near \cap DOMAIN replies }
  IN  w

\* Chase's comment, "breadth-first": a name is never asked before one that is
\* fewer CNAMEs away.
BreadthFirst ==
  \A d \in 0..Cardinality(Name) :
    LET near == Within[d]
    IN  \A i, j \in DOMAIN sent : i < j /\ sent[j][1] \in near => sent[i][1] \in near

\* The TTL of an answer is one of its records', and the least of them when
\* none is zero.
AnswerTTL ==
  res.state = "answer" =>
    LET ttls == { rr.ttl : rr \in Elems(replies[cur].rrs) }
    IN  /\ res.minTTL \in ttls
        /\ 0 \notin ttls => \A t \in ttls : res.minTTL <= t

\* Chase returns, whatever CNAMEs the upstream sends: the goroutine that runs
\* it ends.
ChaseReturns == <>(pc = "done")

-----------------------------------------------------------------------------
\* policy.Result's comment on MinTTL, "min rrset TTL among Addrs", for every
\* TTL: the code's marker for `no record yet' is 0, which is also a TTL.
MinTTLIsLeast ==
  res.state = "answer" =>
    \A rr \in Elems(replies[cur].rrs) : res.minTTL <= rr.ttl
=============================================================================
