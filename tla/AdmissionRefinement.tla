------------------------- MODULE AdmissionRefinement -------------------------
(***************************************************************************)
(* Read admission beside the journal implements AtomicReads: the writes    *)
(* are mapped as in JournalRefinement, a list's snapshot is the evidence   *)
(* of its cut, and what a single read's CI has shown is what was evidenced.*)
(***************************************************************************)
EXTENDS ReadAdmission, JournalRefinement

\* A request that was refused, or met a gap, is one that never began.
ViewOf(l) == IF at[l] \in {"start", "refused"} THEN {}
             ELSE {[c \in CI \ before[l].pending |-> cut[l][c]]}

HadBy(s) == IF at[s] \in {"start", "gap"} THEN {} ELSE evidenced[s]

\* A list shows what it did not leave out, a single read what it was asked for.
Shown(r) == IF r \in List THEN CI \ before[r].pending ELSE Names[r]

AnswersOf(r) == IF at[r] = "answered" THEN {[c \in Shown(r) |-> page[r][c]]} ELSE {}

Reads == INSTANCE AtomicReads WITH
  Targets <- [g \in Group |-> {CiOf[o] : o \in Slots(g)}],
  status  <- [g \in Group |-> StatusOf(g)],
  visible <- [c \in CI |-> IF Gap(c) THEN recorded[c] ELSE graph[c]],
  told    <- [g \in Group |-> ToldTo(g)],
  view    <- [l \in List |-> ViewOf(l)],
  had     <- [s \in Single |-> HadBy(s)],
  answers <- [r \in Single \cup List |-> AnswersOf(r)],
  kept    <- {r \in Writer : at[r] = "answered"}

\* Beside the two-store writes, a list is a snapshot of an atomic write's CIs, a single
\* read returns what its CI showed meanwhile, and references name no CI in doubt.
ImplementsAtomicReads == Reads!ReadsSpec
=============================================================================
