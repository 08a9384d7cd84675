---------------------------- MODULE MCLeaseAuth ----------------------------
(* Small instances of LeaseAuth. *)
EXTENDS LeaseAuth, TLC

CONSTANTS l1, k1, u1, wm, wc, r1, r2

\* One executable of one user.
OneLease == (l1 :> k1)

OneUser == [k \in Keys |-> u1]

\* RPC connections are interchangeable.
RpcSymmetry == Permutations(Rpcs)
=============================================================================
