-------------------------- MODULE AuditChainProofs --------------------------
(***************************************************************************)
(* The audit chain verifies in every reachable state, for any number of    *)
(* transactions and rows, any clock and any order of the ids.              *)
(*                                                                         *)
(* ChainVerifies speaks of committed rows only.  Its strengthening links   *)
(* the committed rows and those of the lock's holder into one chain, with  *)
(* strictly increasing timestamps and the uncommitted rows at its end.     *)
(***************************************************************************)
EXTENDS AuditChain, TLAPS

Present == {e \in Entry : row[e].state # "absent"}

\* The rows of S form one chain, ordered by timestamp alone.
Linked(S) ==
  \A e \in S :
    IF row[e].prev = None
    THEN \A d \in S \ {e} : row[e].ts < row[d].ts
    ELSE /\ row[e].prev \in S /\ row[row[e].prev].ts < row[e].ts
         /\ \A d \in S \ {e, row[e].prev} :
              row[d].ts < row[row[e].prev].ts \/ row[e].ts < row[d].ts

Distinct == \A d, e \in Present : d # e => row[d].ts # row[e].ts

CommittedFirst ==
  \A d, e \in Entry : row[d].state = "committed" /\ row[e].state = "inserted"
                        => row[d].ts < row[e].ts

ChainInv == TypeOK /\ Linked(Present) /\ Distinct /\ CommittedFirst

-----------------------------------------------------------------------------
\* The committed rows alone form a chain: no committed row hangs on an uncommitted
\* one, which a rollback could take away.
LEMMA CommittedLinked == ChainInv => Linked(Committed)
<1> SUFFICES ASSUME ChainInv, NEW e \in Committed
             PROVE  IF row[e].prev = None
                    THEN \A d \in Committed \ {e} : row[e].ts < row[d].ts
                    ELSE /\ row[e].prev \in Committed /\ row[row[e].prev].ts < row[e].ts
                         /\ \A d \in Committed \ {e, row[e].prev} :
                              row[d].ts < row[row[e].prev].ts \/ row[e].ts < row[d].ts
  BY DEF Linked
<1>1. Committed \subseteq Present /\ Present \subseteq Entry
  BY DEF Committed, Present
<1>2. CASE row[e].prev = None
  BY <1>1, <1>2 DEF ChainInv, Linked
<1>3. CASE row[e].prev # None
  <2>1. row[e].prev \in Present /\ row[row[e].prev].ts < row[e].ts
    BY <1>1, <1>3 DEF ChainInv, Linked
  <2>2. row[row[e].prev].state # "inserted"
    <3>1. row[e].ts \in Nat /\ row[row[e].prev].ts \in Nat
      BY <1>1, <2>1 DEF ChainInv, TypeOK, Row
    <3> QED BY <1>1, <2>1, <3>1 DEF ChainInv, CommittedFirst, Committed
  <2>3. row[e].prev \in Committed
    BY <1>1, <2>1, <2>2 DEF ChainInv, TypeOK, Row, Present, Committed
  <2> QED BY <1>1, <1>3, <2>1, <2>3 DEF ChainInv, Linked
<1> QED BY <1>2, <1>3

\* A new row goes behind every row its transaction can see.
LEMMA StampIsLast ==
  ASSUME ChainInv, NEW t \in Tx, NEW e \in Entry, NEW h \in Entry \cup {None}, Append(t, e, h)
  PROVE  /\ row'[e].ts \in Nat
         /\ \A d \in Present : row[d].ts < row'[e].ts
         /\ Present = {} => h = None
         /\ Present # {} => h \in Present /\ \A d \in Present \ {h} : row[d].ts < row[h].ts
<1>1. \A d \in Present : row[d].ts \in Nat
  BY DEF ChainInv, TypeOK, Row, Present
<1>2. Visible(t) = Present
  BY DEF Visible, Present, Append, ChainInv, TypeOK, Row
<1>3. row'[e].ts = Stamp(h) /\ clock \in Nat
  BY DEF Append, ChainInv, TypeOK
<1>4. CASE Present = {}
  <2>1. h = None
    BY <1>2, <1>4 DEF Append
  <2> QED BY <1>3, <1>4, <2>1 DEF Stamp
<1>5. CASE Present # {}
  <2>1. h \in Present /\ \A d \in Present \ {h} : Earlier(d, h)
    BY <1>2, <1>5 DEF Append, IsHead
  <2>2. \A d \in Present \ {h} : row[d].ts < row[h].ts
    BY <1>1, <2>1 DEF Earlier, ChainInv, Distinct
  <2>3. h # None
    BY <2>1, ChainAssumption DEF Present
  <2>4. Stamp(h) \in Nat /\ row[h].ts < Stamp(h)
    BY <1>1, <1>3, <2>1, <2>3 DEF Stamp
  <2>5. \A d \in Present : row[d].ts < Stamp(h)
    BY <1>1, <2>1, <2>2, <2>4
  <2> QED BY <1>3, <1>5, <2>1, <2>2, <2>4, <2>5
<1> QED BY <1>4, <1>5

-----------------------------------------------------------------------------
LEMMA InitChain == Init => ChainInv
BY ChainAssumption DEF Init, ChainInv, TypeOK, Row, Linked, Present, Distinct, CommittedFirst

LEMMA LockChain == ASSUME ChainInv, NEW t \in Tx, Lock(t) PROVE ChainInv'
<1>1. row' = row /\ Present' = Present
  BY DEF Lock, Present
<1>2. TypeOK'
  <2>1. \A s \in Tx : tx'[s] = IF s = t THEN "locked" ELSE tx[s]
    BY DEF ChainInv, TypeOK, Lock
  <2>2. /\ \A s \in Tx : tx[s] # "locked"
        /\ \A e \in Entry : row[e].state # "inserted"
    BY ChainAssumption DEF ChainInv, TypeOK, Lock, Tx
  <2>3. tx' \in [Tx -> {"open", "locked", "committed", "rolledback"}]
    BY DEF ChainInv, TypeOK, Lock
  <2>4. \A s \in Tx : tx'[s] = "locked" <=> lock' = s
    BY <2>1, <2>2 DEF Lock
  <2> QED BY <1>1, <2>2, <2>3, <2>4 DEF ChainInv, TypeOK, Lock
<1> QED BY <1>1, <1>2 DEF ChainInv, Linked, Distinct, CommittedFirst

LEMMA ClockChain == ChainInv /\ ClockMoves => ChainInv'
<1> SUFFICES ASSUME ChainInv, ClockMoves PROVE ChainInv'
  OBVIOUS
<1>1. row' = row /\ Present' = Present
  BY DEF ClockMoves, Present
<1>2. TypeOK'
  BY DEF ChainInv, TypeOK, ClockMoves
<1> QED BY <1>1, <1>2 DEF ChainInv, Linked, Distinct, CommittedFirst

LEMMA AppendChain ==
  ASSUME ChainInv, NEW t \in Tx, NEW e \in Entry, NEW h \in Entry \cup {None}, Append(t, e, h)
  PROVE  ChainInv'
<1>1. /\ row'[e].ts \in Nat
      /\ \A d \in Present : row[d].ts < row'[e].ts
      /\ Present = {} => h = None
      /\ Present # {} => h \in Present /\ \A d \in Present \ {h} : row[d].ts < row[h].ts
  BY StampIsLast
<1>2. /\ \A d \in Entry \ {e} : row'[d] = row[d]
      /\ row'[e].state = "inserted" /\ row'[e].prev = h
      /\ row[e].state = "absent" /\ lock = t /\ TxOf[e] = t
  BY DEF Append, ChainInv, TypeOK
<1>3. Present' = Present \cup {e} /\ e \notin Present
  BY <1>2 DEF Present
<1>4. \A d \in Present : row'[d] = row[d] /\ row[d].ts \in Nat
  BY <1>2, <1>3 DEF ChainInv, TypeOK, Row, Present
<1>5. TypeOK'
  <2>1. row' \in [Entry -> Row]
    <3>1. [state |-> "inserted", ts |-> Stamp(h), prev |-> h] \in Row
      BY <1>1 DEF Row, Append, ChainInv, TypeOK
    <3> QED BY <3>1 DEF Append, ChainInv, TypeOK
  <2> QED BY <1>2, <2>1 DEF Append, ChainInv, TypeOK
<1>6. Linked(Present)'
  <2> SUFFICES ASSUME NEW f \in Present'
               PROVE  IF row'[f].prev = None
                      THEN \A d \in Present' \ {f} : row'[f].ts < row'[d].ts
                      ELSE /\ row'[f].prev \in Present' /\ row'[row'[f].prev].ts < row'[f].ts
                           /\ \A d \in Present' \ {f, row'[f].prev} :
                                row'[d].ts < row'[row'[f].prev].ts \/ row'[f].ts < row'[d].ts
    BY DEF Linked
  <2>1. CASE f = e /\ Present = {}
    BY <1>1, <1>2, <1>3, <2>1
  <2>2. CASE f = e /\ Present # {}
    <3>1. h \in Present /\ h # None
      BY <1>1, <2>2, ChainAssumption DEF Present
    <3> QED BY <1>1, <1>2, <1>3, <1>4, <2>2, <3>1
  <2>3. CASE f \in Present /\ row[f].prev = None
    <3>1. \A d \in Present \ {f} : row[f].ts < row[d].ts
      BY <2>3 DEF ChainInv, Linked
    <3> QED BY <1>1, <1>3, <1>4, <2>3, <3>1
  <2>4. CASE f \in Present /\ row[f].prev # None
    <3>1. /\ row[f].prev \in Present /\ row[row[f].prev].ts < row[f].ts
          /\ \A d \in Present \ {f, row[f].prev} :
               row[d].ts < row[row[f].prev].ts \/ row[f].ts < row[d].ts
      BY <2>4 DEF ChainInv, Linked
    <3> QED BY <1>1, <1>3, <1>4, <2>4, <3>1
  <2> QED BY <1>3, <2>1, <2>2, <2>3, <2>4
<1>7. Distinct'
  BY <1>1, <1>3, <1>4 DEF ChainInv, Distinct
<1>8. CommittedFirst'
  <2> SUFFICES ASSUME NEW d \in Entry, NEW f \in Entry,
                      row'[d].state = "committed", row'[f].state = "inserted"
               PROVE  row'[d].ts < row'[f].ts
    BY DEF CommittedFirst
  <2>1. d # e /\ row[d].state = "committed" /\ d \in Present
    BY <1>2 DEF Present
  <2>2. CASE f = e
    BY <1>1, <1>2, <2>1, <2>2
  <2>3. CASE f # e
    BY <1>2, <2>1, <2>3 DEF ChainInv, CommittedFirst
  <2> QED BY <2>2, <2>3
<1> QED BY <1>5, <1>6, <1>7, <1>8 DEF ChainInv

\* COMMIT and ROLLBACK keep every timestamp and link, and leave no inserted row.
LEMMA EndChain ==
  ASSUME ChainInv, NEW t \in Tx,
         End(t, "committed", "committed") \/ End(t, "rolledback", "absent")
  PROVE  ChainInv'
<1>1. \A e \in Entry : /\ row[e] \in Row /\ row'[e].ts = row[e].ts /\ row'[e].prev = row[e].prev
                       /\ row'[e].state # row[e].state => row[e].state = "inserted" /\ TxOf[e] = t
  BY DEF End, ChainInv, TypeOK, Row
<1>2. \A e \in Entry : row[e].state = "inserted" => lock = TxOf[e] /\ tx[TxOf[e]] = "locked"
  BY DEF ChainInv, TypeOK, Tx
<1>3. TypeOK'
  <2>1. row' \in [Entry -> Row]
    BY DEF End, ChainInv, TypeOK, Row
  <2>2. \A e \in Entry : row'[e].state = "inserted" => row[e].state = "inserted" /\ TxOf[e] # t
    BY <1>1 DEF End, ChainInv, TypeOK, Row
  <2>3. tx' \in [Tx -> {"open", "locked", "committed", "rolledback"}] /\ lock' \in Tx \cup {None}
    BY DEF End, ChainInv, TypeOK
  <2>4. \A s \in Tx : tx'[s] = "locked" <=> lock' = s
    BY ChainAssumption DEF End, ChainInv, TypeOK
  <2>5. \A e \in Entry : row'[e].state = "inserted" => lock' = TxOf[e]
    BY <1>2, <2>2 DEF End
  <2> QED BY <2>1, <2>3, <2>4, <2>5 DEF End, ChainInv, TypeOK
<1>4. CommittedFirst'
  <2> SUFFICES ASSUME NEW d \in Entry, NEW f \in Entry,
                      row'[d].state = "committed", row'[f].state = "inserted"
               PROVE  row'[d].ts < row'[f].ts
    BY DEF CommittedFirst
  <2>1. row[f].state = "inserted" /\ TxOf[f] # t
    BY DEF End, ChainInv, TypeOK, Row
  <2>2. row[d].state = "committed"
    BY <1>1, <1>2, <2>1
  <2> QED BY <1>1, <2>1, <2>2 DEF ChainInv, CommittedFirst
<1>5. Present' \subseteq Present
  BY <1>1 DEF Present, Row
<1>6. Distinct'
  BY <1>1, <1>5 DEF ChainInv, Distinct, Present
<1>7. CASE Present' = Present
  <2>1. Linked(Present)'
    BY <1>1, <1>7 DEF ChainInv, Linked, Present
  <2> QED BY <1>3, <1>4, <1>6, <2>1 DEF ChainInv
<1>8. CASE Present' # Present
  <2>1. PICK e \in Entry : row[e].state = "inserted" /\ TxOf[e] = t /\ row'[e].state = "absent"
    BY <1>1, <1>5, <1>8 DEF Present
  <2>2. Present' = Committed
    BY <1>1, <1>2, <2>1 DEF End, Present, Committed, ChainInv, TypeOK, Row
  <2>3. Linked(Committed)
    BY CommittedLinked
  <2>4. Linked(Present)'
    BY <1>1, <2>2, <2>3 DEF Linked, Committed
  <2> QED BY <1>3, <1>4, <1>6, <2>4 DEF ChainInv
<1> QED BY <1>7, <1>8

-----------------------------------------------------------------------------
\* The strengthened invariant of the chain holds in every reachable state.
THEOREM ChainIsInvariant == Spec => []ChainInv
<1>1. Init => ChainInv
  BY InitChain
<1>2. ChainInv /\ [Next]_vars => ChainInv'
  <2> SUFFICES ASSUME ChainInv, [Next]_vars PROVE ChainInv'
    OBVIOUS
  <2>1. CASE \E t \in Tx : Lock(t)
    BY <2>1, LockChain
  <2>2. CASE \E t \in Tx : End(t, "committed", "committed") \/ End(t, "rolledback", "absent")
    BY <2>2, EndChain
  <2>3. CASE \E t \in Tx, e \in Entry, h \in Entry \cup {None} : Append(t, e, h)
    BY <2>3, AppendChain
  <2>4. CASE ClockMoves
    BY <2>4, ClockChain
  <2>5. CASE UNCHANGED vars
    BY <2>5 DEF vars, ChainInv, TypeOK, Linked, Present, Distinct, CommittedFirst
  <2> QED BY <2>1, <2>2, <2>3, <2>4, <2>5 DEF Next
<1> QED BY <1>1, <1>2, PTL DEF Spec

\* verifyAuditChain succeeds whenever it runs.
THEOREM ChainAlwaysVerifies == Spec => []ChainVerifies
<1>1. ChainInv => ChainVerifies
  <2> SUFFICES ASSUME ChainInv PROVE ChainVerifies
    OBVIOUS
  <2>1. Linked(Committed)
    BY CommittedLinked
  <2> QED BY <2>1 DEF Linked, ChainVerifies, Earlier
<1> QED BY <1>1, ChainIsInvariant, PTL

\* Rows only join the chain behind every row a verifier may have seen.
THEOREM ChainOnlyGrows == Spec => ChainGrowsAtItsEnd
<1>1. ChainInv /\ [Next]_vars =>
        [\A e \in Entry : row'[e].state = "committed" /\ row[e].state # "committed" =>
           \A d \in Committed : row[d].ts < row'[e].ts]_vars
  <2> SUFFICES ASSUME ChainInv, Next, NEW e \in Entry, NEW d \in Committed,
                      row'[e].state = "committed", row[e].state # "committed"
               PROVE  row[d].ts < row'[e].ts
    OBVIOUS
  <2>1. row[e].state = "inserted" /\ row'[e].ts = row[e].ts
    BY DEF Next, Lock, Append, End, ClockMoves, ChainInv, TypeOK, Row
  <2> QED BY <2>1 DEF ChainInv, CommittedFirst, Committed
<1> QED BY <1>1, ChainIsInvariant, PTL DEF Spec, ChainGrowsAtItsEnd

-----------------------------------------------------------------------------
(* The chain is a ledger.                                                  *)

Over == {t \in Tx : tx[t] \in {"committed", "rolledback"}}

Places == [e \in Entry |-> {d \in Committed \ {e} : e \in Committed /\ Earlier(d, e)}]

Seals == [e \in Entry |-> IF e \in Committed THEN row[e].prev ELSE None]

\* In the verifier's order committed rows are ordered by their timestamps alone.
LEMMA PlacesByTime ==
  ChainInv => \A e \in Entry : Places[e] = {d \in Committed : e \in Committed /\ row[d].ts < row[e].ts}
<1> SUFFICES ASSUME ChainInv, NEW e \in Entry
             PROVE  Places[e] = {d \in Committed : e \in Committed /\ row[d].ts < row[e].ts}
  OBVIOUS
<1>1. Committed \subseteq Entry
  BY DEF Committed
<1>2. ASSUME NEW d \in Committed, e \in Committed
      PROVE  (d # e /\ Earlier(d, e)) <=> row[d].ts < row[e].ts
  <2>1. row[d].ts \in Nat /\ row[e].ts \in Nat
    BY <1>1 DEF ChainInv, TypeOK, Row
  <2>2. d # e => row[d].ts # row[e].ts
    BY <1>2 DEF ChainInv, Distinct, Present, Committed
  <2> QED BY <2>1, <2>2 DEF Earlier
<1> QED BY <1>1, <1>2 DEF Places

LEMMA LedgerBegins == Init => Book!Init
<1> SUFFICES ASSUME Init PROVE Book!Init
  OBVIOUS
<1>1. Committed = {}
  BY DEF Init, Committed
<1>2. Over = {}
  BY DEF Init, Over
<1>3. Places = [e \in Entry |-> {}] /\ Seals = [e \in Entry |-> None]
  BY <1>1 DEF Places, Seals
<1> QED BY <1>1, <1>2, <1>3 DEF Book!Init, Places, Seals, Over

\* A step that leaves the committed rows as they are leaves their places and seals.
LEMMA NothingShows ==
  ASSUME Committed' = Committed, \A e \in Committed : row'[e] = row[e]
  PROVE  UNCHANGED <<Committed, Places, Seals>>
<1>1. Committed \subseteq Entry
  BY DEF Committed
<1>2. \A d, e \in Committed : Earlier(d, e)' <=> Earlier(d, e)
  BY DEF Earlier
<1>3. Places' = Places
  BY <1>2 DEF Places
<1>4. Seals' = Seals
  BY <1>1 DEF Seals
<1> QED BY <1>3, <1>4

\* A commit puts what its transaction inserted behind the book, chained.
LEMMA CommitsAreEntered ==
  ASSUME ChainInv, ChainInv', NEW t \in Tx, End(t, "committed", "committed")
  PROVE  Book!Commit(t)
<1>0. PICK S : S = {e \in Entry : row[e].state = "inserted" /\ TxOf[e] = t}
  OBVIOUS
<1>t. /\ row \in [Entry -> Row] /\ Committed \subseteq Entry /\ None \notin Entry
      /\ \A e \in Entry : row[e].ts \in Nat
  BY ChainAssumption DEF ChainInv, TypeOK, Row, Committed
<1>1. \A e \in Entry : /\ row'[e].ts = row[e].ts /\ row'[e].prev = row[e].prev
                       /\ row'[e].state = IF e \in S THEN "committed" ELSE row[e].state
  BY <1>0, <1>t DEF End, Row
<1>2. Committed' = Committed \cup S /\ S \subseteq Entry /\ S \cap Committed = {}
  BY <1>0, <1>1 DEF Committed
<1>3. \A e \in Entry : row[e].state = "inserted" => e \in S
  BY <1>0 DEF ChainInv, TypeOK, End
<1>4. Present' = Committed'
  BY <1>1, <1>3, <1>t DEF Present, Committed, Row
<1>5. Over' = Over \cup {t}
  BY DEF Over, End, ChainInv, TypeOK
<1>6. S \in SUBSET Book!Of(t)
  BY <1>0 DEF Book!Of
<1>7. \A d \in Committed, e \in S : row[d].ts < row[e].ts
  BY <1>0 DEF ChainInv, CommittedFirst, Committed
<1>8. \A d, e \in Committed \cup S : d # e => row[d].ts # row[e].ts
  <2>1. \A d, e \in Present' : d # e => row'[d].ts # row'[e].ts
    BY DEF ChainInv, Distinct
  <2> QED BY <1>1, <1>2, <1>4, <1>t, <2>1
<1>9. \A e \in Committed \cup S : Places'[e] = {d \in Committed \cup S : row[d].ts < row[e].ts}
  <2>1. (ChainInv => \A e \in Entry :
          Places[e] = {d \in Committed : e \in Committed /\ row[d].ts < row[e].ts})'
    BY PlacesByTime, PTL
  <2>2. \A e \in Committed \cup S :
          Places'[e] = {d \in Committed \cup S : row'[d].ts < row'[e].ts}
    BY <1>t, <1>2, <2>1
  <2>3. \A d, e \in Committed \cup S : row'[d].ts = row[d].ts /\ row'[e].ts = row[e].ts
    BY <1>t, <1>1, <1>2
  <2> QED BY <2>2, <2>3
<1>10. \A e \in Entry \ S : Places'[e] = Places[e] /\ Seals'[e] = Seals[e]
  <2> SUFFICES ASSUME NEW e \in Entry \ S PROVE Places'[e] = Places[e] /\ Seals'[e] = Seals[e]
    OBVIOUS
  <2>1. CASE e \in Committed
    <3>1. Places[e] = {d \in Committed : row[d].ts < row[e].ts}
      BY <1>t, <2>1, PlacesByTime
    <3>2. \A d \in S : ~(row[d].ts < row[e].ts)
      <4>1. \A d \in S : row[e].ts < row[d].ts /\ row[e].ts \in Nat /\ row[d].ts \in Nat
        BY <1>t, <1>2, <1>7, <2>1
      <4> QED BY <4>1
    <3>3. Places'[e] = Places[e]
      BY <1>9, <2>1, <3>1, <3>2
    <3> QED BY <1>1, <1>2, <2>1, <3>3 DEF Seals
  <2>2. CASE e \notin Committed
    <3>1. e \notin Committed'
      BY <1>2, <2>2
    <3> QED BY <2>2, <3>1 DEF Places, Seals
  <2> QED BY <2>1, <2>2
<1>11. ASSUME NEW e \in S
       PROVE  /\ Committed \subseteq Places'[e] /\ Places'[e] \subseteq (Committed \cup S) \ {e}
              /\ \A d \in S \ {e} : d \in Places'[e] \/ e \in Places'[d]
              /\ \A d \in Places'[e] : Places'[d] \subseteq Places'[e]
  <2>1. \A d \in Committed \cup S : row[d].ts \in Nat
    BY <1>t, <1>2
  <2>2. Places'[e] = {d \in Committed \cup S : row[d].ts < row[e].ts}
    BY <1>9
  <2>3. Committed \subseteq Places'[e] /\ Places'[e] \subseteq (Committed \cup S) \ {e}
    BY <1>7, <2>1, <2>2
  <2>4. ASSUME NEW d \in S \ {e} PROVE d \in Places'[e] \/ e \in Places'[d]
    <3>1. row[d].ts < row[e].ts \/ row[e].ts < row[d].ts
      BY <1>8, <2>1
    <3> QED BY <1>9, <3>1
  <2>5. ASSUME NEW d \in Places'[e] PROVE Places'[d] \subseteq Places'[e]
    <3>1. d \in Committed \cup S /\ row[d].ts < row[e].ts
      BY <2>2
    <3>2. Places'[d] = {c \in Committed \cup S : row[c].ts < row[d].ts}
      BY <1>9, <3>1
    <3>3. \A c \in Committed \cup S : row[c].ts < row[d].ts => row[c].ts < row[e].ts
      BY <2>1, <3>1
    <3> QED BY <2>2, <3>2, <3>3
  <2> QED BY <2>3, <2>4, <2>5
<1>12. ASSUME NEW e \in S
       PROVE  IF Places'[e] = {} THEN Seals'[e] = None
              ELSE Seals'[e] \in Places'[e] /\ Places'[e] = Places'[Seals'[e]] \cup {Seals'[e]}
  <2> DEFINE p == row[e].prev
  <2>0. \A d \in Committed \cup S : row[d].ts \in Nat /\ row'[d].ts = row[d].ts
    BY <1>t, <1>1, <1>2
  <2>1. Seals'[e] = p /\ row'[e].prev = p
    BY <1>1, <1>2 DEF Seals
  <2>2. Places'[e] = {d \in Committed \cup S : row[d].ts < row[e].ts}
    BY <1>9
  <2>3. IF row'[e].prev = None
        THEN \A d \in Present' \ {e} : row'[e].ts < row'[d].ts
        ELSE /\ row'[e].prev \in Present' /\ row'[row'[e].prev].ts < row'[e].ts
             /\ \A d \in Present' \ {e, row'[e].prev} :
                  row'[d].ts < row'[row'[e].prev].ts \/ row'[e].ts < row'[d].ts
    BY <1>2, <1>4 DEF ChainInv, Linked
  <2> HIDE DEF p
  <2>4. CASE p = None
    <3>1. \A d \in (Committed \cup S) \ {e} : row[e].ts < row[d].ts
      BY <1>2, <1>4, <2>0, <2>1, <2>3, <2>4
    <3>2. Places'[e] = {}
      BY <2>0, <2>2, <3>1
    <3> QED BY <2>1, <2>4, <3>2
  <2>5. CASE p # None
    <3>1. /\ p \in Committed \cup S /\ row[p].ts < row[e].ts
          /\ \A d \in (Committed \cup S) \ {e, p} : row[d].ts < row[p].ts \/ row[e].ts < row[d].ts
      BY <1>2, <1>4, <2>0, <2>1, <2>3, <2>5
    <3>2. Places'[p] = {d \in Committed \cup S : row[d].ts < row[p].ts}
      BY <1>9, <3>1
    <3>3. \A d \in Committed \cup S : row[d].ts < row[e].ts <=> (d = p \/ row[d].ts < row[p].ts)
      BY <2>0, <3>1
    <3>4. Places'[e] = Places'[p] \cup {p}
      BY <2>2, <3>1, <3>2, <3>3
    <3> QED BY <2>1, <3>4
  <2> QED BY <2>4, <2>5
<1>13. \A e \in S : Book!Placed(e, S) /\ Book!Sealed(e)
  BY <1>11, <1>12 DEF Book!Placed, Book!Sealed, Places, Seals
<1>14. \E T \in SUBSET Book!Of(t) :
         /\ Committed' = Committed \cup T
         /\ \A e \in T : Book!Placed(e, T) /\ Book!Sealed(e)
         /\ \A e \in Entry \ T : Places'[e] = Places[e] /\ Seals'[e] = Seals[e]
  BY <1>2, <1>6, <1>10, <1>13
<1> QED BY <1>5, <1>14 DEF Book!Commit, Over, Places, Seals

LEMMA StepIsEntered ==
  ASSUME ChainInv, ChainInv', Next
  PROVE  Book!Next \/ UNCHANGED Book!vars
<1>1. ASSUME Committed' = Committed, \A e \in Committed : row'[e] = row[e], Over' = Over
      PROVE  UNCHANGED Book!vars
  BY <1>1, NothingShows DEF Book!vars, Places, Seals, Over
<1>2. ASSUME NEW t \in Tx, Lock(t) PROVE UNCHANGED Book!vars
  <2>1. row' = row /\ Over' = Over
    BY <1>2 DEF Lock, Over, ChainInv, TypeOK
  <2> QED BY <1>1, <2>1 DEF Committed
<1>3. ASSUME NEW t \in Tx, NEW e \in Entry, NEW h \in Entry \cup {None}, Append(t, e, h)
      PROVE  UNCHANGED Book!vars
  <2>1. /\ \A d \in Entry \ {e} : row'[d] = row[d]
        /\ row[e].state = "absent" /\ row'[e].state = "inserted" /\ tx' = tx
    BY <1>3 DEF Append, ChainInv, TypeOK
  <2>2. Committed' = Committed /\ (\A d \in Committed : row'[d] = row[d]) /\ Over' = Over
    BY <2>1 DEF Committed, Over
  <2> QED BY <1>1, <2>2
<1>4. CASE ClockMoves
  BY <1>1, <1>4 DEF ClockMoves, Committed, Over
<1>5. ASSUME NEW t \in Tx, End(t, "committed", "committed") PROVE Book!Next
  <2>1. Book!Commit(t)
    BY <1>5, CommitsAreEntered
  <2>2. t \notin Over /\ t \in {TxOf[e] : e \in Entry}
    BY <1>5 DEF End, Over, Tx
  <2> QED BY <2>1, <2>2 DEF Book!Next, Over
<1>6. ASSUME NEW t \in Tx, End(t, "rolledback", "absent") PROVE Book!Next
  <2>1. Committed' = Committed /\ \A e \in Committed : row'[e] = row[e]
    BY <1>6 DEF End, Committed, ChainInv, TypeOK, Row
  <2>2. UNCHANGED <<Committed, Places, Seals>>
    BY <2>1, NothingShows
  <2>3. Over' = Over \cup {t}
    BY <1>6 DEF Over, End, ChainInv, TypeOK
  <2>4. Book!Discard(t)
    BY <2>2, <2>3 DEF Book!Discard, Places, Seals, Over
  <2>5. t \notin Over /\ t \in {TxOf[e] : e \in Entry}
    BY <1>6 DEF End, Over, Tx
  <2> QED BY <2>4, <2>5 DEF Book!Next, Over
<1> QED BY <1>2, <1>3, <1>4, <1>5, <1>6 DEF Next

\* In the verifier's order the audit log is a ledger: whatever the clock does and whoever
\* rolls back, transactions add their rows whole, at its end and chained.
THEOREM ChainIsLedger == Spec => ImplementsLedger
<1>1. ASSUME ChainInv, ChainInv', [Next]_vars PROVE [Book!Next]_Book!vars
  <2>1. CASE Next
    BY <1>1, <2>1, StepIsEntered
  <2>2. CASE UNCHANGED vars
    <3>1. Committed' = Committed /\ row' = row /\ Over' = Over
      BY <2>2 DEF vars, Committed, Over
    <3>2. UNCHANGED <<Committed, Places, Seals>>
      BY <3>1, NothingShows
    <3> QED BY <3>1, <3>2 DEF Book!vars, Places, Seals, Over
  <2> QED BY <1>1, <2>1, <2>2
<1> QED
  BY <1>1, LedgerBegins, ChainIsInvariant, PTL DEF Spec, ImplementsLedger, Book!Spec
=============================================================================
