------------------------- MODULE MCBackendRegistry -------------------------
(* Small instances of BackendRegistry. *)
EXTENDS BackendRegistry, TLC

CONSTANTS da, db, dc, ca, cb, u, g, h

\* Three daemons of one user.  The second, X11 like the first, gets the
\* process id of the first; the third is KWin's.
OneUser == [d \in Daemons |-> u]
PidReused == [d \in Daemons |-> IF d = dc THEN 2 ELSE 1]
TwoX11OneKwin == [d \in Daemons |-> IF d = dc THEN "KWIN" ELSE "X11"]

ClientsOfU == [c \in Clients |-> u]
SameGroup == [c \in Clients |-> g]
TwoGroups == [c \in Clients |-> IF c = ca THEN g ELSE h]

\* Addresses are interchangeable, and so are clients of one user and group.
Symmetry == Permutations(Relays) \cup Permutations(Clients)
AddressSymmetry == Permutations(Relays)
=============================================================================
