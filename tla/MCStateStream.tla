--------------------------- MODULE MCStateStream ---------------------------
(* Small instances of StateStream. *)
EXTENDS StateStream

CONSTANTS w1, w2

MCContents == {<<0, 0>>, <<1, 0>>, <<1, 1>>}
MCRequests ==
    {[kind |-> "close", win |-> w1, to |-> <<Keep, Keep>>],
     [kind |-> "set", win |-> w1, to |-> <<1, Keep>>],
     [kind |-> "move", win |-> w1, to |-> <<1, 1>>]}
=============================================================================
