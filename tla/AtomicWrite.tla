----------------------------- MODULE AtomicWrite -----------------------------
(***************************************************************************)
(* What ReconciliationJournal.run promises: a write of a set of CIs takes  *)
(* effect on all of them in one step or on none, writes of one CI exclude  *)
(* each other, and an answer given to the caller is never taken back.      *)
(* `visible' is what a reader admitted by the gap check sees of a CI.      *)
(***************************************************************************)
CONSTANTS Group, CI, Targets, None

VARIABLES
  status,   \* each write: not begun, holding its CIs, or decided
  visible,  \* the last write of each CI, as admitted readers see it
  told      \* what the caller has been told

vars == <<status, visible, told>>

Init ==
  /\ status = [g \in Group |-> "new"]
  /\ visible = [c \in CI |-> None]
  /\ told = [g \in Group |-> "nothing"]

Begin(g) ==
  /\ status[g] = "new" /\ told[g] = "nothing"
  /\ \A h \in Group : status[h] = "open" => Targets[h] \cap Targets[g] = {}
  /\ status' = [status EXCEPT ![g] = "open"]
  /\ UNCHANGED <<visible, told>>

\* The change appears on every CI of the write at once; a write that only
\* records evidence (a held merge) changes nothing visible.
TakeEffect(g) ==
  /\ status[g] = "open" /\ told[g] = "nothing"
  /\ status' = [status EXCEPT ![g] = "done"]
  /\ \/ visible' = [c \in CI |-> IF c \in Targets[g] THEN g ELSE visible[c]]
     \/ UNCHANGED visible
  /\ UNCHANGED told

Drop(g) ==
  /\ status[g] = "open"
  /\ status' = [status EXCEPT ![g] = "dropped"]
  /\ told' \in {told, [told EXCEPT ![g] = "no"]}
  /\ UNCHANGED visible

Tell(g) ==
  /\ told[g] = "nothing"
  /\ \/ status[g] = "done" /\ told' = [told EXCEPT ![g] = "yes"]
     \/ status[g] \in {"new", "dropped"} /\ told' = [told EXCEPT ![g] = "no"]
  /\ UNCHANGED <<status, visible>>

Next == \E g \in Group : Begin(g) \/ TakeEffect(g) \/ Drop(g) \/ Tell(g)

Spec == Init /\ [][Next]_vars
=============================================================================
