------------------------------- MODULE MCChain -------------------------------
EXTENDS AuditChain, TLC

CONSTANTS e1, e2, e3, e4, t1, t2, t3

\* t1 is a T2 of two slots; ids are random, so their order is not the chain's.
MCTxOf   == (e1 :> t1) @@ (e2 :> t1) @@ (e3 :> t2) @@ (e4 :> t3)
MCBefore == {<<e3, e1>>, <<e3, e2>>, <<e3, e4>>, <<e2, e1>>, <<e2, e4>>, <<e4, e1>>}
=============================================================================
