--------------------------- MODULE MCCredentials ---------------------------
EXTENDS Credentials

\* Bound: at most three of the requests come, and one comparison runs at a time.
Few ==
  /\ Cardinality({q \in Request : request[q].at # "new"}) <= 3
  /\ Cardinality({l \in Login \cup Scan : check[l].at # "idle"}) <= 1
=============================================================================
