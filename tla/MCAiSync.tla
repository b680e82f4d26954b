------------------------------ MODULE MCAiSync ------------------------------
(* Instances of AiSync.                                                    *)
EXTENDS AiSync, TLC

CONSTANTS r1, r2, m1

\* Every release pins the model.
PinsDef == [r \in Release |-> {m1}]
=============================================================================
