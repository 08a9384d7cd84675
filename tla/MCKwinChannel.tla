--------------------------- MODULE MCKwinChannel ---------------------------
(* A small instance of KwinChannel: a request of the slow lane, then two of  *)
(* the fast lane, which find the slots of the queue in either order.         *)
EXTENDS KwinChannel

MCLaneOf == <<"slow", "fast", "fast">>
=============================================================================
