---------------------------- MODULE MCAdmission ----------------------------
(* A small instance of Admission: two connections of one process, and one    *)
(* each of two other users; as many users as a table has slots.              *)
EXTENDS Admission, TLC

CONSTANTS c1, c2, c3, c4, u1, u2, u3, p1, p2, p3

MCUids == (c1 :> u1) @@ (c2 :> u1) @@ (c3 :> u2) @@ (c4 :> u3)
MCPids == (c1 :> p1) @@ (c2 :> p1) @@ (c3 :> p2) @@ (c4 :> p3)
=============================================================================
