-------------------------------- MODULE MCSlots --------------------------------
EXTENDS JournalRefinement, JournalInvariant, TLC

CONSTANTS g1, x1, x2, a, b

SlotsGroupOf == (x1 :> g1) @@ (x2 :> g1)
SlotsCiOf    == (x1 :> a) @@ (x2 :> b)
=============================================================================
