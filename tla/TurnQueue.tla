------------------------------ MODULE TurnQueue ------------------------------
(***************************************************************************)
(* How the calls of one organization reach its admission lock.             *)
(*                                                                         *)
(* A T1 (t1 in journal.ts) takes the lock exclusively, a referenced write  *)
(* (writeReferencedCIs in read-admission.ts) shares it.  Both first wait   *)
(* in their process for a turn, in arrival order and without a connection; *)
(* a turn is a promise: `turn = previous.then(() => mine)'.  A T1 gives    *)
(* its turn up when its transaction has ended, a referenced write as soon  *)
(* as it is granted the lock.  Either may expire while it waits.           *)
(*                                                                         *)
(* PostgreSQL serves the lock in the order of the requests.                *)
(***************************************************************************)
EXTENDS Naturals, FiniteSets, SequencesExt

CONSTANTS
  T1,        \* exclusive calls
  Ref,       \* shared calls
  Process,   \* api-server processes
  ProcessOf, \* the process of a call
  PoolSize,  \* connections of a process's shared pool
  None

Call == T1 \cup Ref

ASSUME TurnAssumption ==
  /\ T1 \cap Ref = {} /\ None \notin Call
  /\ ProcessOf \in [Call -> Process]
  /\ PoolSize \in Nat \ {0}

VARIABLES
  phase,    \* where a call is
  prev,     \* the turn a call waits for
  last,     \* t1Turns and lockTurns: the youngest turn of each chain
  mine,     \* calls whose own promise is resolved
  turned,   \* calls whose turn is resolved: their own promise and all before it
  waiting,  \* the lock's wait queue in PostgreSQL
  holding   \* the lock's holders

turnVars == <<prev, last, mine, turned>>
vars     == <<phase, turnVars, waiting, holding>>

\* One chain per process and kind of call.
Chain    == Process \X {"t1", "ref"}
ChainOf(c) == <<ProcessOf[c], IF c \in T1 THEN "t1" ELSE "ref">>

Connected(p) == {c \in Call : ProcessOf[c] = p /\ phase[c] \in {"lock", "held"}}
Over         == {"done", "expired", "failed"}

TypeOK ==
  /\ phase \in [Call -> {"new", "turn", "connect", "lock", "held"} \cup Over]
  /\ prev \in [Call -> Call \cup {None}]
  /\ last \in [Chain -> Call \cup {None}]
  /\ mine \subseteq Call /\ turned \subseteq mine
  /\ waiting \in Seq(Call) /\ IsInjective(waiting)
  /\ ToSet(waiting) = {c \in Call : phase[c] = "lock"}
  /\ holding = {c \in Call : phase[c] = "held"}
  /\ \A p \in Process : Cardinality(Connected(p)) <= PoolSize

Init ==
  /\ phase = [c \in Call |-> "new"]
  /\ prev = [c \in Call |-> None]
  /\ last = [k \in Chain |-> None]
  /\ mine = {} /\ turned = {}
  /\ waiting = <<>> /\ holding = {}

-----------------------------------------------------------------------------
Moves(c, from, to) == phase[c] = from /\ phase' = [phase EXCEPT ![c] = to]

\* Release of a turn; resolving a promise twice changes nothing.
Release(c) == mine' = mine \cup {c}

Arrive(c) ==
  /\ Moves(c, "new", "turn")
  /\ prev' = [prev EXCEPT ![c] = last[ChainOf(c)]]
  /\ last' = [last EXCEPT ![ChainOf(c)] = c]
  /\ UNCHANGED <<mine, turned, waiting, holding>>

\* Mutant: a turn is over once the call just before gave its own up.
MineBefore(c) == prev[c] = None \/ prev[c] \in mine

TurnBefore(c) == prev[c] = None \/ prev[c] \in turned

MyTurn(c) ==
  /\ TurnBefore(c)
  /\ Moves(c, "turn", "connect")
  /\ UNCHANGED <<turnVars, waiting, holding>>

\* Mutant: an expired call keeps its own promise unresolved.
ExpireSilently(c) ==
  /\ Moves(c, "turn", "expired")
  /\ UNCHANGED <<turnVars, waiting, holding>>

\* The budget of 12 s (T1) or 5 s (referenced write) ran out in the process.
Expire(c) ==
  /\ Moves(c, "turn", "expired")
  /\ Release(c)
  /\ UNCHANGED <<prev, last, turned, waiting, holding>>

Connect(c) ==
  /\ Cardinality(Connected(ProcessOf[c])) < PoolSize
  /\ Moves(c, "connect", "lock")
  /\ waiting' = Append(waiting, c)
  /\ UNCHANGED <<turnVars, holding>>

\* No connection in time, or an error before the lock is requested.
ConnectFails(c) ==
  /\ Moves(c, "connect", "failed")
  /\ Release(c)
  /\ UNCHANGED <<prev, last, turned, waiting, holding>>

Compatible(c) == holding = {} \/ (c \in Ref /\ holding \subseteq Ref)

\* A request waits behind every earlier one, compatible or not.
Grant(c) ==
  /\ waiting # <<>> /\ c = Head(waiting) /\ Compatible(c)
  /\ Moves(c, "lock", "held")
  /\ waiting' = Tail(waiting)
  /\ holding' = holding \cup {c}
  /\ IF c \in Ref THEN Release(c) ELSE UNCHANGED mine
  /\ UNCHANGED <<prev, last, turned>>

\* lock_timeout, or a lost connection.
LockTimeout(c) ==
  /\ Moves(c, "lock", "expired")
  /\ \E i \in 1..Len(waiting) : waiting[i] = c /\ waiting' = RemoveAt(waiting, i)
  /\ Release(c)
  /\ UNCHANGED <<prev, last, turned, holding>>

\* COMMIT or ROLLBACK, then the connection and the turn are given back.
Finish(c) ==
  /\ Moves(c, "held", "done")
  /\ holding' = holding \ {c}
  /\ Release(c)
  /\ UNCHANGED <<prev, last, turned, waiting>>

\* Promise jobs.
Resolve(c) ==
  /\ c \in mine \ turned /\ TurnBefore(c)
  /\ turned' = turned \cup {c}
  /\ UNCHANGED <<phase, prev, last, mine, waiting, holding>>

\* Mutants: the map forgets a chain when its youngest call gave up, whatever is
\* before it; only calls that ran clean up.
ForgettableEarly(c)  == c \in mine
ForgettableIfDone(c) == c \in turned /\ phase[c] = "done"

Forgettable(c) == c \in turned

Forget(c) ==
  /\ Forgettable(c) /\ last[ChainOf(c)] = c
  /\ last' = [last EXCEPT ![ChainOf(c)] = None]
  /\ UNCHANGED <<phase, prev, mine, turned, waiting, holding>>

-----------------------------------------------------------------------------
Step(c) ==
  \/ Arrive(c) \/ MyTurn(c) \/ Expire(c) \/ Connect(c) \/ ConnectFails(c)
  \/ Grant(c) \/ LockTimeout(c) \/ Finish(c) \/ Resolve(c) \/ Forget(c)

Next == \E c \in Call : Step(c)

Spec == Init /\ [][Next]_vars

\* Promise jobs run, PostgreSQL grants and transactions end; no call is made to
\* expire or to fail.
Fairness ==
  \A c \in Call : /\ WF_vars(MyTurn(c)) /\ WF_vars(Connect(c)) /\ WF_vars(Grant(c))
                  /\ WF_vars(Finish(c)) /\ WF_vars(Resolve(c)) /\ WF_vars(Forget(c))

FairSpec == Spec /\ Fairness

-----------------------------------------------------------------------------
(* Properties.                                                             *)

\* "only the head ... waits for its admission lock on a shared-pool connection": at
\* most one T1 of a process has or awaits a connection, and at most one referenced
\* write that still waits for the lock, however many calls expired in the queue.
OnlyHeadsConnect ==
  \A c, d \in Call :
    /\ c # d /\ ChainOf(c) = ChainOf(d)
    /\ phase[c] \in {"connect", "lock"}
    => phase[d] \notin {"connect", "lock"} \cup IF c \in T1 THEN {"held"} ELSE {}

\* What a call can do next that is neither a timeout nor a failure.
CanGoOn(c) ==
  \/ phase[c] = "turn" /\ TurnBefore(c)
  \/ phase[c] = "connect" /\ Cardinality(Connected(ProcessOf[c])) < PoolSize
  \/ waiting # <<>> /\ c = Head(waiting) /\ Compatible(c)
  \/ phase[c] = "held"
  \/ c \in mine \ turned /\ TurnBefore(c)

\* Turns, connections and the lock never wait on each other in a circle: while a call
\* waits for its turn, some call of its own chain has got past it or can go on, whoever
\* expired in between; and while any call waits, some call can go on without a timeout.
NobodyIsStuck ==
  \A c \in Call :
    /\ phase[c] = "turn"
         => \E d \in Call : /\ ChainOf(d) = ChainOf(c)
                            /\ (CanGoOn(d) \/ phase[d] \in {"connect", "lock"})
    /\ phase[c] \in {"turn", "connect", "lock"} => \E d \in Call : CanGoOn(d)

TurnsInv == TypeOK /\ OnlyHeadsConnect /\ NobodyIsStuck

\* No call waits forever in the process, even when no timeout helps.
CallsEnd == \A c \in Call : phase[c] = "turn" ~> phase[c] \in Over

\* "idle once predecessors finish too": when its calls are over, the map forgets the
\* chain.
IdleChainIsForgotten ==
  \A k \in Chain : (\A c \in Call : ChainOf(c) = k => phase[c] \in Over) ~> last[k] = None
=============================================================================
