---------------------------- MODULE ConnectionPool ----------------------------
(***************************************************************************)
(* The database connections that the calls of the backend compete for.     *)
(*                                                                         *)
(* core.module.ts configures neither a pool size nor a timeout, so the     *)
(* driver's pool lends at most ten connections and queues requests for     *)
(* ever, first come first served.  handleTransaction keeps one connection  *)
(* for its query runner, and the repository reads of the handler each take *)
(* a second one for a moment.  The two registerUser methods do the same,   *)
(* but give their connection back only when the transaction is rolled      *)
(* back.  Every other request queries without a transaction.               *)
(***************************************************************************)
EXTENDS Integers, FiniteSets, Sequences

CONSTANTS Calls,          \* calls of the backend
          Transactions,   \* those that run in handleTransaction or updateUserKycDetails
          Registrations,  \* those of registerUser and registerUserNew
          PoolSize,       \* connections the pool lends
          MaxReads        \* bound on the repository reads of one call

ASSUME PoolAssumption ==
  /\ IsFiniteSet(Calls)
  /\ Transactions \subseteq Calls /\ Registrations \subseteq Calls
  /\ Transactions \cap Registrations = {}
  /\ PoolSize \in Nat \ {0} /\ MaxReads \in Nat

VARIABLES phase,    \* what each call is doing
          main,     \* calls whose query runner, or single query, has a connection
          second,   \* calls with a connection for a read beside it
          queue,    \* the pool's waiting line
          reads     \* repository reads a call has begun

poolVars == <<phase, main, second, queue, reads>>

PoolInit ==
  /\ phase = [t \in Calls |-> "new"]
  /\ main = {} /\ second = {} /\ queue = <<>>
  /\ reads = [t \in Calls |-> 0]

InUse == Cardinality(main) + Cardinality(second)

Goto(t, step) == phase' = [phase EXCEPT ![t] = step]

\* queryRunner.connect(), or a plain query asking for its connection.
connect(t) ==
  /\ phase[t] = "new"
  /\ queue' = Append(queue, t)
  /\ Goto(t, "connecting")
  /\ UNCHANGED <<main, second, reads>>

\* A repository read while the transaction's own connection is kept.
read(t) ==
  /\ phase[t] = "running" /\ t \in Transactions \cup Registrations
  /\ reads[t] < MaxReads
  /\ queue' = Append(queue, t)
  /\ reads' = [reads EXCEPT ![t] = @ + 1]
  /\ Goto(t, "asking")
  /\ UNCHANGED <<main, second>>

Dequeued(line) == Tail(line)

\* The pool lends a connection.
lend(t) ==
  /\ queue # <<>> /\ t = Head(queue)
  /\ InUse < PoolSize
  /\ queue' = Dequeued(queue)
  /\ IF phase[t] = "connecting"
     THEN main' = main \cup {t} /\ Goto(t, "running") /\ UNCHANGED second
     ELSE second' = second \cup {t} /\ Goto(t, "reading") /\ UNCHANGED main
  /\ UNCHANGED reads

\* A mutant: the read keeps its connection.
AfterRead_kept(t) == second

AfterRead(t) == second \ {t}

\* The read is answered, or fails: its connection goes back either way.
readDone(t) ==
  /\ phase[t] = "reading"
  /\ second' = AfterRead(t)
  /\ Goto(t, "running")
  /\ UNCHANGED <<main, queue, reads>>

\* A mutant: release() is moved from finally to the end of the try block.
AfterRollback_kept(t) == main

AfterRollback(t) == main \ {t}

\* The catch block: rollback and release.
rollback(t) ==
  /\ phase[t] = "running"
  /\ main' = AfterRollback(t)
  /\ Goto(t, "rolled back")
  /\ UNCHANGED <<second, queue, reads>>

\* The call ends well: a transaction is committed and released in finally, a
\* query gives its connection back, a registration keeps its connection.
finish(t) ==
  /\ phase[t] = "running"
  /\ main' = IF t \in Registrations THEN main ELSE main \ {t}
  /\ Goto(t, "committed")
  /\ UNCHANGED <<second, queue, reads>>

Ended(t) == phase[t] \in {"committed", "rolled back"}

PoolStep(t) == connect(t) \/ read(t) \/ lend(t) \/ readDone(t) \/ rollback(t) \/ finish(t)

\* Nobody that could give a connection back is running, and the line waits.
Jammed ==
  /\ queue # <<>>
  /\ InUse >= PoolSize
  /\ \A t \in Calls : phase[t] \notin {"running", "reading"}

\* All calls have ended, or wait for each other for ever.
Rest ==
  /\ Jammed \/ \A t \in Calls : Ended(t)
  /\ \A t \in Calls : phase[t] # "new"
  /\ UNCHANGED poolVars

PoolNext == Rest \/ \E t \in Calls : PoolStep(t)

PoolSpec == PoolInit /\ [][PoolNext]_poolVars

\* The pool serves its line, the database answers, and calls that have begun run
\* to their end.
FairSpec ==
  /\ PoolSpec
  /\ \A t \in Calls : WF_poolVars(lend(t)) /\ WF_poolVars(readDone(t)) /\ WF_poolVars(rollback(t) \/ finish(t))

-----------------------------------------------------------------------------
Steps == {"new", "connecting", "running", "asking", "reading", "committed", "rolled back"}

\* Every variable stays in its range, and no call waits in the line twice.
PoolTypeOK ==
  /\ phase \in [Calls -> Steps]
  /\ main \subseteq Calls /\ second \subseteq Calls
  /\ queue \in Seq(Calls)
  /\ \A i, j \in 1..Len(queue) : queue[i] = queue[j] => i = j
  /\ reads \in [Calls -> 0..MaxReads]

\* Connections of registrations that have committed.
Leaked == {t \in Registrations : phase[t] = "committed"}

\* No call but a committed registration keeps a connection after its end, on
\* whatever path it ends, and a call that asks for a read holds one already.
OnlyRegistrationsLeak ==
  /\ \A t \in Calls : Ended(t) /\ t \in main \cup second => t \in Leaked
  /\ \A t \in Calls : phase[t] = "asking" => t \in main

\* The calls stop waiting for each other only when every connection of the pool
\* is either lost to a registration or kept by a transaction that waits for a
\* second one.
JamOnlyWhenFull ==
  Jammed =>
    /\ Cardinality(main) = PoolSize
    /\ \A t \in main : t \in Leaked \/ phase[t] = "asking"

\* Transactions and registrations that have asked for a connection so far.
Started == {t \in Transactions \cup Registrations : phase[t] # "new"}

\* While fewer of them have come than the pool has connections, there is always
\* somebody who can go on, whatever reads and other queries are in the line.
NoJam == Cardinality(Started) < PoolSize => ~Jammed

\* And every call that asks for a connection is served and ends, unless the
\* transactions and registrations have become that many in the meantime.
CallsServed ==
  \A t \in Calls : phase[t] # "new" ~> Ended(t) \/ Cardinality(Started) >= PoolSize

\* What makes the invariants inductive: who holds what follows from phase.
Holding ==
  /\ main = {t \in Calls : phase[t] \in {"running", "asking", "reading"}} \cup Leaked
  /\ second = {t \in Calls : phase[t] = "reading"}
  /\ \A t \in Calls : phase[t] \in {"asking", "reading"} => t \in Transactions \cup Registrations
  /\ \A i \in 1..Len(queue) : phase[queue[i]] \in {"connecting", "asking"}
  /\ InUse <= PoolSize

=============================================================================
