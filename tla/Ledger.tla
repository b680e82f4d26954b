------------------------------- MODULE Ledger -------------------------------
(***************************************************************************)
(* What the audit chain of audit.service.ts promises: a book to which a    *)
(* transaction adds its entries together, behind all there are, each       *)
(* sealed with the one just before it; no entry, place or seal ever        *)
(* changes.                                                                *)
(***************************************************************************)
CONSTANTS Entry, TxOf, None

VARIABLES
  book,    \* the entries
  before,  \* the entries before each of them
  seal,    \* the entry each of them is chained to
  ended    \* the transactions that are over

vars == <<book, before, seal, ended>>

Init ==
  /\ book = {} /\ ended = {}
  /\ before = [e \in Entry |-> {}]
  /\ seal = [e \in Entry |-> None]

Of(t) == {e \in Entry : TxOf[e] = t}

\* e comes after the whole book, in one order with the entries that come with it.
Placed(e, S) ==
  /\ book \subseteq before'[e] /\ before'[e] \subseteq (book \cup S) \ {e}
  /\ \A d \in S \ {e} : d \in before'[e] \/ e \in before'[d]
  /\ \A d \in before'[e] : before'[d] \subseteq before'[e]

\* It names its predecessor, the first of all names none.
Sealed(e) ==
  IF before'[e] = {} THEN seal'[e] = None
  ELSE seal'[e] \in before'[e] /\ before'[e] = before'[seal'[e]] \cup {seal'[e]}

Commit(t) ==
  /\ ended' = ended \cup {t}
  /\ \E S \in SUBSET Of(t) :
       /\ book' = book \cup S
       /\ \A e \in S : Placed(e, S) /\ Sealed(e)
       /\ \A e \in Entry \ S : before'[e] = before[e] /\ seal'[e] = seal[e]

Discard(t) ==
  /\ ended' = ended \cup {t}
  /\ UNCHANGED <<book, before, seal>>

Next == \E t \in {TxOf[e] : e \in Entry} \ ended : Commit(t) \/ Discard(t)

Spec == Init /\ [][Next]_vars
=============================================================================
