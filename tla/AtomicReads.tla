----------------------------- MODULE AtomicReads -----------------------------
(***************************************************************************)
(* What read-admission.ts promises beside AtomicWrite: a list answers with *)
(* one snapshot of all that no undecided write holds, a single read with a *)
(* value its CI has shown since the read began, and a reference is kept    *)
(* only to what no undecided write holds.                                  *)
(***************************************************************************)
EXTENDS AtomicWrite

CONSTANTS Single, List, Writer, Names

VARIABLES
  view,     \* a list's snapshot, once it has one
  had,      \* what the CI of a single read has shown since the read began
  answers,  \* the answer of a read, once it has one
  kept      \* the references that were kept

readVars == <<view, had, answers, kept>>

ReadsInit ==
  /\ Init
  /\ view = [l \in List |-> {}]
  /\ had = [s \in Single |-> {}]
  /\ answers = [r \in Single \cup List |-> {}]
  /\ kept = {}

\* What undecided writes hold.
Held == UNION {Targets[g] : g \in {h \in Group : status[h] = "open"}}

\* A list may take its snapshot again, a single read may begin again.
Snap(l) ==
  /\ answers[l] = {}
  /\ view' = [view EXCEPT ![l] = {[c \in CI \ Held |-> visible[c]]}]
  /\ UNCHANGED <<had, answers, kept>>

Ask(s) ==
  /\ answers[s] = {}
  /\ had' = [had EXCEPT ![s] = {visible[c] : c \in Names[s]}]
  /\ UNCHANGED <<view, answers, kept>>

AnswerList(l) ==
  /\ answers[l] = {} /\ view[l] # {}
  /\ answers' = [answers EXCEPT ![l] = view[l]]
  /\ UNCHANGED <<view, had, kept>>

AnswerSingle(s) ==
  /\ answers[s] = {} /\ Names[s] \cap Held = {}
  /\ \E f \in [Names[s] -> had[s]] : answers' = [answers EXCEPT ![s] = {f}]
  /\ UNCHANGED <<view, had, kept>>

\* A read may be refused at any time.
RefuseList(l) ==
  /\ answers[l] = {}
  /\ view' = [view EXCEPT ![l] = {}]
  /\ UNCHANGED <<had, answers, kept>>

RefuseSingle(s) ==
  /\ answers[s] = {}
  /\ had' = [had EXCEPT ![s] = {}]
  /\ UNCHANGED <<view, answers, kept>>

Keep(w) ==
  /\ Names[w] \cap Held = {}
  /\ kept' = kept \cup {w}
  /\ UNCHANGED <<view, had, answers>>

Read ==
  /\ UNCHANGED vars
  /\ \/ \E l \in List : Snap(l) \/ AnswerList(l) \/ RefuseList(l)
     \/ \E s \in Single : Ask(s) \/ AnswerSingle(s) \/ RefuseSingle(s)
     \/ \E w \in Writer : Keep(w)

\* A step of the writes, which the single reads under way may see.
Write ==
  /\ UNCHANGED <<view, answers, kept>>
  /\ had' = [s \in Single |-> IF had[s] = {} THEN {}
                              ELSE had[s] \cup {visible'[c] : c \in Names[s]}]
  /\ Next

\* Most steps of an implementation: TLC tries this one first.
Unseen == UNCHANGED <<vars, readVars>>

ReadsNext == Unseen \/ Read \/ Write

ReadsSpec == ReadsInit /\ [][ReadsNext]_<<vars, readVars>>
=============================================================================
