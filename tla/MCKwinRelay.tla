---------------------------- MODULE MCKwinRelay ----------------------------
(* A small instance of KwinRelay: two threads, either of which may reuse the *)
(* slot of a call that the other gave up.                                    *)
EXTENDS KwinRelay

CONSTANTS a, b
=============================================================================
