----------------------------- MODULE MCSockets -----------------------------
(***************************************************************************)
(* Sockets for TLC: two sockets of one user and one of another, in one     *)
(* organization; room for two verifications, one re-check lookup and one   *)
(* connection per user.                                                    *)
(***************************************************************************)
EXTENDS Sockets, TLC

CONSTANTS p1, p2, p3, u1, u2, o1

MCUserOf == (p1 :> u1) @@ (p2 :> u1) @@ (p3 :> u2)
MCOrgOf  == (u1 :> o1) @@ (u2 :> o1)

FairSockets == SocketsSpec /\ SocketsFairness
=============================================================================
