------------------------------ MODULE MCJournal ------------------------------
EXTENDS JournalRefinement, JournalInvariant, TLC

CONSTANTS g1, g2, x1, x2, y1, a, b

\* g1 writes a relationship between a and b (two slots), g2 updates b.
MCGroupOf == (x1 :> g1) @@ (x2 :> g1) @@ (y1 :> g2)
MCCiOf    == (x1 :> a) @@ (x2 :> b) @@ (y1 :> b)
==============================================================================
