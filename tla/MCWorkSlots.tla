----------------------------- MODULE MCWorkSlots -----------------------------
EXTENDS WorkSlots, TLC

CONSTANTS q1, q2, n1, n2, qOrg, qAnn, qBob, nOrg, nAnn

\* Ann and Bob, of one organization, send a query each and Ann two analyses.
MCOrgKey  == [r \in Request |-> IF r \in GraphQL THEN qOrg ELSE nOrg]
MCUserKey == (q1 :> qAnn) @@ (q2 :> qBob) @@ (n1 :> nAnn) @@ (n2 :> nAnn)
MCStoreOf == [k \in Key |-> IF k \in {qOrg, qAnn, qBob} THEN "graphqlLimits" ELSE "limits"]

MCMaxActive == [k \in Key |-> IF k \in {qOrg, nOrg} THEN 2 ELSE 1]
MCMaxRate   == [k \in Key |-> IF k \in {qOrg, nOrg} THEN 2 ELSE 1]
=============================================================================
