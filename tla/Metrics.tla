------------------------------ MODULE Metrics -------------------------------
(***************************************************************************)
(* internal/metrics/metrics.go: the per-upstream counters, which are       *)
(* created when they are first needed.                                     *)
(*                                                                         *)
(* counter reads the map without the lock, then takes mu, looks again and  *)
(* inserts.  A Go map is no atomic object: an insertion has a beginning    *)
(* and an end, and what an unlocked read does in between is a choice over  *)
(* what the Go runtime may do, which includes ending the process.          *)
(***************************************************************************)
EXTENDS Tasks

\* The names in an upstream's Results.
Results == {"forwarded", "answer", "failure"}

\* A map of an upstream and a name in it.  No name is used in both maps.
Counter == (1..Upstreams) \X (Failures \cup Results)

SameMap(k, l) == k[1] = l[1] /\ (k[2] \in Failures <=> l[2] \in Failures)

VARIABLES
  created,  \* the counter object of each name: the goroutine that made it
  mu,       \* who holds the mutex
  rec,      \* where each goroutine is: "none", "look", "lock", "insert" or "add"
  todo,     \* the counters each goroutine still has to bump
  obj,      \* the object it found
  crashed   \* the runtime has ended the process

metricsVars == <<created, mu, rec, todo, obj, crashed>>

\* Every variable has its type.
MetricsTypeOK ==
  /\ created \in [Counter -> Task \cup {NoTask}]
  /\ mu \in Task \cup {NoTask}
  /\ rec \in [Task -> {"none", "look", "lock", "insert", "add"}]
  /\ todo \in [Task -> Seq(Counter)]
  /\ obj \in [Task -> Task \cup {NoTask}]
  /\ crashed \in BOOLEAN

MetricsInit ==
  /\ created = [k \in Counter |-> NoTask]
  /\ mu = NoTask
  /\ rec = [t \in Task |-> "none"]
  /\ todo = [t \in Task |-> <<>>]
  /\ obj = [t \in Task |-> NoTask]
  /\ crashed = FALSE

\* RecordUpstreamResult and RecordUpstreamFailure for the counters ks.
Record(t, ks) ==
  /\ todo' = [todo EXCEPT ![t] = ks]
  /\ rec' = [rec EXCEPT ![t] = IF ks = <<>> THEN "none" ELSE "look"]
  /\ UNCHANGED <<created, mu, obj, crashed>>

Found(t, o) ==
  /\ obj' = [obj EXCEPT ![t] = o]
  /\ rec' = [rec EXCEPT ![t] = "add"]

\* The goroutines that are changing the map of counter k.
Inserting(k) == { s \in Task : rec[s] = "insert" /\ SameMap(Head(todo[s]), k) }

\* The read without the lock.  Beside an insertion into the same map it may
\* miss a name, find the new one, or end the process.
Look(t) ==
  /\ rec[t] = "look"
  /\ LET k == Head(todo[t])
     IN  \/ created[k] # NoTask /\ Found(t, created[k]) /\ crashed' = crashed
         \/ /\ created[k] = NoTask \/ Inserting(k) # {}
            /\ rec' = [rec EXCEPT ![t] = "lock"]
            /\ UNCHANGED <<obj, crashed>>
         \/ \E s \in Inserting(k) : Head(todo[s]) = k /\ Found(t, s) /\ crashed' = crashed
         \/ Inserting(k) # {} /\ crashed' = TRUE /\ UNCHANGED <<rec, obj>>
  /\ UNCHANGED <<created, mu, todo>>

\* A mutated form: no second look under the lock.
AcquireBlind(t) ==
  /\ rec[t] = "lock" /\ mu = NoTask
  /\ mu' = t /\ rec' = [rec EXCEPT ![t] = "insert"] /\ obj' = obj
  /\ UNCHANGED <<created, todo, crashed>>

\* The second look; the deferred Unlock when it finds the counter.
Acquire(t) ==
  /\ rec[t] = "lock" /\ mu = NoTask
  /\ LET k == Head(todo[t])
     IN  \/ created[k] # NoTask /\ Found(t, created[k]) /\ mu' = mu
         \/ created[k] = NoTask /\ mu' = t /\ rec' = [rec EXCEPT ![t] = "insert"] /\ obj' = obj
  /\ UNCHANGED <<created, todo, crashed>>

\* A mutated form: the lock is kept.
InsertKeeping(t) ==
  /\ rec[t] = "insert"
  /\ created' = [created EXCEPT ![Head(todo[t])] = t]
  /\ Found(t, t)
  /\ UNCHANGED <<mu, todo, crashed>>

\* The insertion ends, and the deferred Unlock.
Insert(t) ==
  /\ rec[t] = "insert"
  /\ created' = [created EXCEPT ![Head(todo[t])] = t]
  /\ mu' = NoTask
  /\ Found(t, t)
  /\ UNCHANGED <<todo, crashed>>

\* The atomic Add to the object (its value is left out), and the next counter.
Add(t) ==
  /\ rec[t] = "add"
  /\ obj' = [obj EXCEPT ![t] = NoTask]
  /\ todo' = [todo EXCEPT ![t] = Tail(@)]
  /\ rec' = [rec EXCEPT ![t] = IF Tail(todo[t]) = <<>> THEN "none" ELSE "look"]
  /\ UNCHANGED <<created, mu, crashed>>

\* Write renders the counters while one is being inserted: the runtime may
\* notice and end the process.  (Otherwise Write only reads.)
Write ==
  /\ \E t \in Task : rec[t] = "insert"
  /\ crashed' = TRUE
  /\ UNCHANGED <<created, mu, rec, todo, obj>>
=============================================================================
