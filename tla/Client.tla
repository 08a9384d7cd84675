------------------------------- MODULE Client -------------------------------
(***************************************************************************)
(* The lease connection of the client library (src/src/client.c), as       *)
(* operators on the record of one connection.                              *)
(*                                                                         *)
(* Events and responses share the socket.  While a call waits for its      *)
(* response the events it meets are queued; ksd_state_next serves the      *)
(* queue before the socket.  The application sleeps on one poll            *)
(* descriptor: an epoll set of the socket and an eventfd that stands for   *)
(* what a select on the socket alone would miss, the queue and a           *)
(* connection that has failed.                                             *)
(***************************************************************************)
EXTENDS Integers, Sequences

CONSTANT MaxEvents          \* KSD_CLIENT_MAX_EVENTS

\* open is descriptor >= 0; signalled says that the eventfd is readable;
\* waiting is the request whose response is being read, or "none".
NewConnection ==
    [open |-> TRUE, queue |-> <<>>, signalled |-> FALSE, waiting |-> "none"]

\* system_failure: the socket is closed for good and the eventfd signalled.
SystemFailure(c) ==
    [c EXCEPT !.open = FALSE, !.waiting = "none", !.signalled = TRUE]

\* queue_event; a full queue fails the connection.
QueueEvent(c, event) ==
    IF Len(c.queue) >= MaxEvents THEN SystemFailure(c)
    ELSE [c EXCEPT !.queue = Append(@, event), !.signalled = TRUE]

\* Mutant: taking the last event always drains the eventfd.
TakeAndDrain(c) ==
    [c EXCEPT !.queue = Tail(@), !.signalled = @ /\ Len(c.queue) > 1]

\* take_event: the eventfd is drained with the last event, except that a
\* failed connection stays readable.
TakeEvent(c) ==
    [c EXCEPT !.queue = Tail(@),
              !.signalled = @ /\ (Len(c.queue) > 1 \/ ~c.open)]

\* request, up to the end of write_request.
SendRequest(c, call) == [c EXCEPT !.waiting = call]

\* read_response meets a frame: an event is queued and the wait goes on, the
\* response of the call ends it, anything else is a protocol error.
ReadResponse(c, frame) ==
    CASE frame.kind = "response" /\ frame.call = c.waiting ->
           [c EXCEPT !.waiting = "none"]
      [] frame.kind = "response" /\ frame.call # c.waiting -> SystemFailure(c)
      [] frame.kind # "response" -> QueueEvent(c, frame)

\* read_event takes a frame from the socket when its queue is empty; a response
\* that no call waits for is a protocol error.
ReadEvent(c, frame) == IF frame.kind = "response" THEN SystemFailure(c) ELSE c

\* The poll descriptor is readable: input is what the socket holds, ended says
\* that the service closed it.
Readable(c, input, ended) ==
    c.signalled \/ (c.open /\ (input # <<>> \/ ended))
=============================================================================
