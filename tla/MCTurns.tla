------------------------------- MODULE MCTurns -------------------------------
EXTENDS TurnQueue, TLC

CONSTANTS t1, t2, t3, r1, here

\* One process: its three T1 form a chain, and the referenced write meets them at the
\* pool and at the lock.
MCProcessOf == [c \in Call |-> here]
=============================================================================
