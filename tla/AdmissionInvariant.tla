------------------------- MODULE AdmissionInvariant -------------------------
(***************************************************************************)
(* The inductive invariant behind the properties of ReadAdmission.  What   *)
(* has been read so far is only as good as the epoch or the lock that will *)
(* vouch for it: the invariant says what holds while it still can.         *)
(***************************************************************************)
EXTENDS ReadAdmission, JournalInvariant

\* What the list `before' left out is all that may differ: no other CI has entered
\* a gap or got new evidence, and what was read of it is what the cut named.
CutStands(l) ==
  \A c \in CI \ before[l].pending :
    /\ ~Gap(c)
    /\ recorded[c] = cut[l][c]
    /\ c \in unread[l] \/ page[l][c] = cut[l][c]

\* Without the lock an equal epoch vouches for the cut, under it the lock does.
ListRead(l) ==
  /\ at[l] = "read" => /\ before[l].epoch <= epoch
                       /\ before[l].epoch = epoch => CutStands(l)
  /\ at[l] = "reread" /\ l \in locked => CutStands(l)
  /\ at[l] \in {"commit", "answered"} =>
       \A c \in CI \ before[l].pending : page[l][c] = cut[l][c]

\* The value read was evidenced during the read, or it is the landed change of a
\* row that is still open: T2 will evidence it, and until then the gap shows.
Accounted(s, c) ==
  \/ page[s][c] \in evidenced[s]
  \/ \E o \in Op : /\ CiOf[o] = c /\ Open(o)
                   /\ w[GroupOf[o]] = "applied" /\ GroupOf[o] = page[s][c]

SingleRead(s) ==
  \A c \in Names[s] :
    /\ at[s] # "start" => recorded[c] \in evidenced[s]
    /\ at[s] \in {"read", "recheck"} => c \in unread[s] \/ Accounted(s, c)
    /\ at[s] = "answered" => page[s][c] \in evidenced[s]

InFallback == {l \in List : at[l] \in Fallback}

\* Requests, locks, snapshots and slots stay consistent with the journal.
AdmissionInv ==
  /\ JournalInv
  /\ AdmissionTypeOK
  /\ \A l \in List : ListRead(l)
  /\ \A s \in Single : SingleRead(s)
  /\ NamedStayOutOfGap
  /\ IsFiniteSet(InFallback) /\ SlotsAreConserved
=============================================================================
