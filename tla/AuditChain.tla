----------------------------- MODULE AuditChain -----------------------------
(***************************************************************************)
(* The hash-chained audit_log of packages/database/src/postgres/           *)
(* audit.service.ts.  Transactions (logAudit's own, a journal T2 with one  *)
(* row per slot) append rows under one advisory lock that they keep until  *)
(* they end.  Each row names the hash of the head it found and is stamped  *)
(* after it; verifyAuditChain reads the rows in (timestamp, id) order.     *)
(*                                                                         *)
(* A hash is collision free, so a row stands for its own hash.  The clock  *)
(* of the database may step backwards and may not advance between two      *)
(* appends; timestamps count its ticks.                                    *)
(***************************************************************************)
EXTENDS Naturals

CONSTANTS
  Entry,    \* the rows that may be appended (their ids and hashes)
  TxOf,     \* the transaction that appends an entry
  Before,   \* the order of ids: the pairs of entries with the smaller id first
  MaxClock, \* bound of the clock
  None

Tx == {TxOf[e] : e \in Entry}

ASSUME ChainAssumption ==
  /\ Before \subseteq Entry \X Entry
  /\ \A d, e \in Entry : d # e => (<<d, e>> \in Before <=> <<e, d>> \notin Before)
  /\ None \notin Entry \cup Tx
  /\ MaxClock \in Nat

VARIABLES
  row,    \* audit_log: entry -> state, timestamp and prev_hash
  clock,  \* clock_timestamp()
  lock,   \* the transaction that holds the chain lock
  tx      \* "open", "locked", or how a transaction ended

vars == <<row, clock, lock, tx>>

Row == [state: {"absent", "inserted", "committed"}, ts: Nat, prev: Entry \cup {None}]

TypeOK ==
  /\ row \in [Entry -> Row]
  /\ clock \in 0 .. MaxClock
  /\ lock \in Tx \cup {None}
  /\ tx \in [Tx -> {"open", "locked", "committed", "rolledback"}]
  /\ \A t \in Tx : tx[t] = "locked" <=> lock = t
  /\ \A e \in Entry : row[e].state = "inserted" => lock = TxOf[e]

Init ==
  /\ row = [e \in Entry |-> [state |-> "absent", ts |-> 0, prev |-> None]]
  /\ clock = 0
  /\ lock = None
  /\ tx = [t \in Tx |-> "open"]

-----------------------------------------------------------------------------
Earlier(d, e) == \/ row[d].ts < row[e].ts
                 \/ row[d].ts = row[e].ts /\ <<d, e>> \in Before

\* Mutant: a transaction does not see the rows it has just inserted.
VisibleCommitted(t) == {e \in Entry : row[e].state = "committed"}

\* READ COMMITTED: a statement of t sees what is committed and what t inserted.
Visible(t) == {e \in Entry : \/ row[e].state = "committed"
                             \/ row[e].state = "inserted" /\ TxOf[e] = t}
Committed  == {e \in Entry : row[e].state = "committed"}

IsHead(h, t) == h \in Visible(t) /\ \A e \in Visible(t) \ {h} : Earlier(e, h)

\* Mutant: the row is stamped with the clock, whatever the head says.
ClockStamp(h) == clock

\* GREATEST(clock_timestamp(), head + 1 microsecond)
Stamp(h) == IF h # None /\ row[h].ts + 1 > clock THEN row[h].ts + 1 ELSE clock

\* pg_advisory_xact_lock(hashtext('global'))
Lock(t) ==
  /\ tx[t] = "open" /\ lock = None
  /\ tx' = [tx EXCEPT ![t] = "locked"]
  /\ lock' = t
  /\ UNCHANGED <<row, clock>>

\* One appendAuditEntry under the lock: head and timestamp in one statement, then
\* the insert.
Append(t, e, h) ==
  /\ lock = t /\ TxOf[e] = t /\ row[e].state = "absent"
  /\ IF Visible(t) = {} THEN h = None ELSE IsHead(h, t)
  /\ row' = [row EXCEPT ![e] = [state |-> "inserted", ts |-> Stamp(h), prev |-> h]]
  /\ UNCHANGED <<clock, lock, tx>>

\* COMMIT or ROLLBACK, of everything the transaction appended; a transaction that
\* waits for the lock in vain (55P03) rolls back too.
End(t, to, state) ==
  /\ tx[t] = "locked" \/ (tx[t] = "open" /\ to = "rolledback")
  /\ tx' = [tx EXCEPT ![t] = to]
  /\ lock' = IF lock = t THEN None ELSE lock
  /\ row' = [e \in Entry |-> IF TxOf[e] = t /\ row[e].state = "inserted"
               THEN [row[e] EXCEPT !.state = state] ELSE row[e]]
  /\ UNCHANGED clock

ClockMoves ==
  /\ clock' \in 0 .. MaxClock
  /\ UNCHANGED <<row, lock, tx>>

Next ==
  \/ \E t \in Tx : Lock(t) \/ End(t, "committed", "committed") \/ End(t, "rolledback", "absent")
  \/ \E t \in Tx, e \in Entry, h \in Entry \cup {None} : Append(t, e, h)
  \/ ClockMoves

Spec == Init /\ [][Next]_vars

-----------------------------------------------------------------------------
(* Properties.                                                             *)

\* Whenever it runs, verifyAuditChain finds one unbroken chain: in (timestamp, id)
\* order every row names the row just before it and only the first names none,
\* although the clock steps back, transactions roll back and one appends many rows.
ChainVerifies ==
  \A e \in Committed :
    IF row[e].prev = None
    THEN \A d \in Committed \ {e} : Earlier(e, d)
    ELSE /\ row[e].prev \in Committed /\ Earlier(row[e].prev, e)
         /\ \A d \in Committed \ {e, row[e].prev} : Earlier(d, row[e].prev) \/ Earlier(e, d)

\* A verification that succeeded is never undone: rows only join the chain behind
\* every row a verifier may have seen.
ChainGrowsAtItsEnd ==
  [][\A e \in Entry : row'[e].state = "committed" /\ row[e].state # "committed" =>
       \A d \in Committed : row[d].ts < row'[e].ts]_vars

Book == INSTANCE Ledger WITH
  book   <- Committed,
  before <- [e \in Entry |-> {d \in Committed \ {e} : e \in Committed /\ Earlier(d, e)}],
  seal   <- [e \in Entry |-> IF e \in Committed THEN row[e].prev ELSE None],
  ended  <- {t \in Tx : tx[t] \in {"committed", "rolledback"}}

\* "(timestamp, id) order is the chain order": in it each transaction's rows appear
\* at once, next to each other and at the end, chained, and stay as they are.
ImplementsLedger == Book!Spec
=============================================================================
