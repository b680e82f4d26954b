-------------------------- MODULE JournalRefinement --------------------------
(***************************************************************************)
(* The journal implements AtomicWrite.  A reader refuses a CI in the gap   *)
(* (assertNoCIGap), so there the mapping shows the last recorded change;   *)
(* outside the gap it shows the graph itself.                              *)
(***************************************************************************)
EXTENDS Journal

StatusOf(g) ==
  LET s == ops[CHOOSE o \in Slots(g) : TRUE].state
  IN CASE s = "none"                  -> "new"
       [] s \in {"pending", "failed"} -> "open"
       [] s = "committed"             -> "done"
       [] s = "aborted"               -> "dropped"

ToldTo(g) ==
  CASE pc[g] = "ok" -> "yes"
    [] pc[g] \in {"gap", "refused", "declined", "aborted", "missing"} -> "no"
    [] OTHER -> "nothing"

Atomic == INSTANCE AtomicWrite WITH
  Targets <- [g \in Group |-> {CiOf[o] : o \in Slots(g)}],
  status  <- [g \in Group |-> StatusOf(g)],
  visible <- [c \in CI |-> IF Gap(c) THEN recorded[c] ELSE graph[c]],
  told    <- [g \in Group |-> ToldTo(g)]

\* Seen by admitted readers and by callers, the two-store protocol with its
\* leases, fences, sweeps and crashes is an atomic multi-CI write.
ImplementsAtomicWrite == Atomic!Spec
=============================================================================
