--------------------------- MODULE AtomicRotation ---------------------------
(***************************************************************************)
(* What rotate-user-password.ts promises: a rotation that was asked for is *)
(* applied in one step or called off, once and for good; it is told as it  *)
(* was decided; and the next is asked for when all before it were told.    *)
(* A user may change the password meanwhile, in the same generation.       *)
(***************************************************************************)
EXTENDS Naturals

CONSTANTS Rotation, Change, Initial, Reason, None

VARIABLES
  asked,       \* the rotations asked for
  verdict,     \* what became of each
  told,        \* what is recorded of it
  password,
  generation

vars == <<asked, verdict, told, password, generation>>

Init ==
  /\ asked = {}
  /\ verdict = [r \in Rotation |-> None]
  /\ told = [r \in Rotation |-> None]
  /\ password \in Initial
  /\ generation = 0

Ask(r) ==
  /\ r \notin asked /\ \A q \in asked : told[q] # None
  /\ asked' = asked \cup {r}
  /\ UNCHANGED <<verdict, told, password, generation>>

Apply(r) ==
  /\ r \in asked /\ verdict[r] = None
  /\ verdict' = [verdict EXCEPT ![r] = "applied"]
  /\ password' = r /\ generation' = generation + 1
  /\ UNCHANGED <<asked, told>>

CallOff(r) ==
  /\ r \in asked /\ verdict[r] = None
  /\ \E why \in Reason : verdict' = [verdict EXCEPT ![r] = why]
  /\ UNCHANGED <<asked, told, password, generation>>

Tell(r) ==
  /\ verdict[r] # None /\ told[r] = None
  /\ told' = [told EXCEPT ![r] = verdict[r]]
  /\ UNCHANGED <<asked, verdict, password, generation>>

ChangePassword ==
  /\ password' \in Change
  /\ UNCHANGED <<asked, verdict, told, generation>>

\* Most steps of an implementation: TLC tries this one first.
Unseen == UNCHANGED vars

Next ==
  \/ Unseen
  \/ \E r \in Rotation : Ask(r) \/ Apply(r) \/ CallOff(r) \/ Tell(r)
  \/ ChangePassword

Spec == Init /\ [][Next]_vars
=============================================================================
