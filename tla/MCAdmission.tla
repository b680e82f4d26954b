---------------------------- MODULE MCAdmission ----------------------------
EXTENDS AdmissionInvariant, AdmissionRefinement, TLC

CONSTANTS g1, g2, x1, x2, y1, a, b, single, list, writer

\* A write of both CIs and a write of one of them.
OverlapGroupOf == (x1 :> g1) @@ (x2 :> g1) @@ (y1 :> g2)
OverlapCiOf    == (x1 :> a) @@ (x2 :> b) @@ (y1 :> b)

\* What each request names.
AskFor == (single :> {b}) @@ (list :> {a, b}) @@ (writer :> {b})
MCNames == [r \in Request |-> AskFor[r] \cap CI]

\* Bounds: the requests' own interleavings are left to the proofs, each meets every
\* interleaving of the writes but late MERGEs; one that has ended, and gave its lock
\* back, affects nothing any more.
OneAtATime == Cardinality({r \in Request : at[r] # "start"}) <= 1
UnderWay   == OneAtATime /\ late = {} /\ \A r \in Request : at[r] \in Final => r \in locked
=============================================================================
