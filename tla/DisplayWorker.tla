---------------------------- MODULE DisplayWorker ----------------------------
(***************************************************************************)
(* The worker that stays: serve_persistently of src/src/capture_worker.c   *)
(* with the X11 and the Wayland back end.  One request in, one answer out, *)
(* over a display connection that is opened when it is first needed and    *)
(* dropped when it has failed.  Captures are followed to their end: the    *)
(* outputs of an area one after another (wl_capture.c), the shared segment *)
(* of the X server (x11_capture.c), the screenshot portal                  *)
(* (portal_capture.c).                                                     *)
(*                                                                         *)
(* The display may die and come back, refuse or be silent; the user may    *)
(* refuse the portal's dialogue; the authority may hang up.                *)
(***************************************************************************)
EXTENDS CaptureImage

CONSTANTS
    Backends,       \* of "X11" and "GENERIC"
    Operations,     \* of "query", "area", "desktop" and "watch"
    Scenes,         \* [area, outputs, screencopy, frames]: what is asked for,
                    \* what is there, by which protocol, and what that one
                    \* sends for each output
    None,
    MaxRequests,    \* bound: requests to one worker
    MaxDeaths       \* bound: how often the display dies

ASSUME DisplayConstants ==
    /\ Backends \subseteq {"X11", "GENERIC"}
    /\ Operations \subseteq {"query", "area", "desktop", "watch"}
    /\ Scenes \subseteq [area: Areas, outputs: Seq(Outputs),
                        screencopy: BOOLEAN, frames: Seq(Frames)]
    /\ \A s \in Scenes : Len(s.frames) = Len(s.outputs)

VARIABLES
    request,        \* what the authority has written and the worker not read
    serve,          \* the worker's thread
    display,        \* the X server or the compositor
    portal,         \* the screenshot portal's view of the request
    hangup,         \* the authority has closed the socket
    requests        \* requests so far

displayVars == <<request, serve, display, portal, hangup, requests>>

NoPortal == [request |-> "none", response |-> None, listening |-> FALSE,
             heard |-> FALSE, replied |-> FALSE, timer |-> FALSE]

DisplayInit ==
    /\ request = None
    /\ \E b \in Backends :
         serve = [backend |-> b, pc |-> "read", op |-> None, status |-> None,
                  conn |-> "none", broken |-> FALSE, clean |-> FALSE,
                  scene |-> None, next |-> 1, segments |-> <<>>,
                  which |-> <<>>, image |-> FALSE]
    /\ display = [up |-> TRUE, deaths |-> 0, mapped |-> FALSE,
                  detaching |-> FALSE]
    /\ portal = NoPortal
    /\ hangup = FALSE
    /\ requests = 0

-----------------------------------------------------------------------------
(* The loop. *)

\* What the compositor's answer for output i makes of it.
SegmentOf(i, scene) ==
    LET o == scene.outputs[i]
        part == Intersection(o, scene.area)
    IN IF scene.screencopy THEN ScreencopySegment(o, part, scene.frames[i])
       ELSE ImageCopySegment(o, part)

HasPixels(segment) == segment.pixelW > 0 /\ segment.pixelH > 0

\* The area has pixels on every output that it touches, and touches one.
Covered(scene) ==
    LET touched == {i \in DOMAIN scene.outputs :
                      Intersects(scene.outputs[i], scene.area)}
    IN /\ touched # {}
       /\ \A i \in touched : HasPixels(SegmentOf(i, scene))

\* ksd_x11_request_valid, ksd_wayland_request_valid: the desktop is captured
\* through the portal only, and X11 has none.
Valid(op) == op = "desktop" => serve.backend = "GENERIC"

\* Nothing outside stands in the way of the request: the display is up, or
\* is not needed, and a connection that died has been noticed.
Promising(op, scene) ==
    /\ Valid(op)
    /\ IF serve.conn = "none" THEN display.up
       ELSE \/ op = "desktop"
            \/ display.up /\ (serve.conn = "dead" => serve.broken)
    /\ op = "area" /\ serve.backend = "GENERIC" => Covered(scene)

\* The result is cleared, and the loop goes on if it could be written.
Finished == [serve EXCEPT !.pc = IF hangup THEN "ended" ELSE "read",
                          !.op = None, !.status = None, !.clean = FALSE,
                          !.scene = None, !.next = 1, !.segments = <<>>,
                          !.which = <<>>, !.image = FALSE]

\* The process is gone, and what it held with it.
Gone == [Finished EXCEPT !.pc = "ended", !.conn = "none", !.broken = FALSE]

\* The area asked for and the outputs as they are now.
ScenesOf(op) ==
    IF op = "area" /\ serve.backend = "GENERIC" THEN Scenes ELSE {None}

\* The next frame is read; a frame that does not parse ends the worker.  The
\* alarm is set: from here until the answer the process has a deadline.
ReadRequest ==
    /\ serve.pc = "read" /\ request # None
    /\ request' = None
    /\ \/ \E scene \in ScenesOf(request) :
            serve' = [serve EXCEPT !.pc = IF serve.conn = "none" THEN "open"
                                          ELSE "execute",
                                   !.op = request, !.status = "INTERNAL",
                                   !.scene = scene,
                                   !.clean = Promising(request, scene)]
       \/ serve' = Gone
    /\ UNCHANGED <<display, portal, hangup, requests>>

\* ksd_x11_open_for_session, ksd_wayland_open_for_session, from the session
\* daemon's environment.
Open ==
    /\ serve.pc = "open"
    /\ serve' = IF display.up
                THEN [serve EXCEPT !.conn = "live", !.pc = "execute"]
                ELSE [serve EXCEPT !.status = "UNAVAILABLE", !.pc = "answer"]
    /\ UNCHANGED <<request, display, portal, hangup, requests>>

\* What the operation has come to.
Result(status) == [serve EXCEPT !.pc = "answer", !.status = status,
                                !.broken = @ \/ serve.conn = "dead"]

\* A mutant of Answer that keeps a connection that has failed.
AnswerKeeping ==
    /\ serve.pc = "answer"
    /\ serve' = Finished
    /\ UNCHANGED <<request, display, portal, hangup, requests>>

\* The answer is written whatever the operation came to; a connection that
\* failed is closed, so that the next request opens another.
Answer ==
    /\ serve.pc = "answer"
    /\ serve' = [Finished EXCEPT !.conn = IF serve.broken THEN "none" ELSE @,
                                 !.broken = FALSE]
    /\ UNCHANGED <<request, display, portal, hangup, requests>>

\* The switch of ksd_x11_execute_on and ksd_wayland_execute_on.
Execute ==
    /\ serve.pc = "execute"
    /\ serve' =
         CASE ~Valid(serve.op) ->
                [serve EXCEPT !.pc = "answer", !.status = "INVALID_REQUEST"]
           [] serve.op = "watch" -> [serve EXCEPT !.pc = "watch"]
           [] serve.op = "query" -> [serve EXCEPT !.pc = "query"]
           [] serve.op = "desktop" /\ Valid(serve.op) ->
                [serve EXCEPT !.pc = "portal"]
           [] serve.op = "area" ->
                [serve EXCEPT !.pc = IF serve.backend = "X11" THEN "attach"
                                     ELSE "outputs"]
    /\ UNCHANGED <<request, display, portal, hangup, requests>>

\* A question the display answers, refuses, or cannot answer any more.
Query ==
    /\ serve.pc = "query"
    /\ \/ serve.conn = "live" /\ serve' = Result("OK")
       \/ \E s \in {"UNAVAILABLE", "TIMEOUT"} :
            serve' = [Result(s) EXCEPT !.clean = @ /\ serve.conn = "dead"]
    /\ UNCHANGED <<request, display, portal, hangup, requests>>

\* ksd_x11_watch_run and ksd_wayland_watch_run do not return to the loop.
WatchEnds ==
    /\ serve.pc = "watch"
    /\ serve' = Gone
    /\ UNCHANGED <<request, display, portal, hangup, requests>>

-----------------------------------------------------------------------------
(* An area of a Wayland session: ksd_wayland_capture_area. *)

Scene == serve.scene
Current == Scene.outputs[serve.next]

Segment == SegmentOf(serve.next, Scene)

Taken == [serve EXCEPT !.next = @ + 1, !.segments = Append(@, Segment),
                       !.which = Append(@, serve.next)]

OutputLeft == serve.pc = "outputs" /\ serve.next \in DOMAIN Scene.outputs

SkipOutput ==
    /\ OutputLeft /\ ~Intersects(Current, Scene.area)
    /\ serve' = [serve EXCEPT !.next = @ + 1]
    /\ UNCHANGED <<request, display, portal, hangup, requests>>

\* capture_output or capture_source_image_copy: the compositor describes the
\* buffer and fills it, or fails, or keeps silent for three seconds, or
\* there is no memory.  One output that fails fails the capture.
CaptureOutput ==
    /\ OutputLeft /\ Intersects(Current, Scene.area)
    /\ \/ serve.conn = "live" /\ HasPixels(Segment) /\ serve' = Taken
       \/ /\ serve.conn = "live" /\ ~HasPixels(Segment)
          /\ serve' = Result("UNAVAILABLE")
       \/ /\ serve.conn = "live"
          /\ \E s \in {"UNAVAILABLE", "TIMEOUT", "CANCELLED",
                       "RESOURCE_EXHAUSTED"} :
               serve' = [Result(s) EXCEPT !.clean = FALSE]
       \/ serve.conn = "dead" /\ serve' = Result("UNAVAILABLE")
    /\ UNCHANGED <<request, display, portal, hangup, requests>>

\* The output is unplugged, or another plugged in, in the dispatch that
\* completes its frame.  The loop stands on a list element that has been
\* freed, or comes to one it has no room for: undefined, so that the worker
\* goes on or faults.
OutputChanges ==
    /\ OutputLeft /\ Intersects(Current, Scene.area) /\ serve.conn = "live"
    /\ HasPixels(Segment)
    /\ \/ serve' = [Taken EXCEPT !.clean = FALSE]
       \/ serve' = Gone
    /\ UNCHANGED <<request, display, portal, hangup, requests>>

\* The segments are composed and sealed, if there are any.
ComposeCapture ==
    /\ serve.pc = "outputs" /\ serve.next \notin DOMAIN Scene.outputs
    /\ \/ serve.segments = <<>> /\ serve' = Result("UNAVAILABLE")
       \/ /\ serve.segments # <<>>
          /\ serve' = [serve EXCEPT !.pc = "answer", !.status = "OK",
                                    !.image = TRUE]
       \/ /\ serve.segments # <<>>
          /\ \E s \in {"RESOURCE_EXHAUSTED", "INTERNAL"} :
               serve' = [Result(s) EXCEPT !.clean = FALSE]
    /\ UNCHANGED <<request, display, portal, hangup, requests>>

-----------------------------------------------------------------------------
(* An area of an X11 session: capture_drawable. *)

\* The format and the size are checked and a buffer is allocated and mapped.
\* shm_into_fd: the server maps the segment and writes the picture to it, or
\* fails at either.  The request to unmap it is sent, not awaited.
Attach ==
    /\ serve.pc = "attach"
    /\ \/ /\ serve.conn = "live"
          /\ \E image \in BOOLEAN :
               /\ serve' = [serve EXCEPT !.pc = "sync", !.image = image]
               /\ \E m \in {TRUE, image} :
                    display' = [display EXCEPT !.mapped = m, !.detaching = m]
       \/ /\ serve.conn = "dead"
          /\ serve' = [serve EXCEPT !.pc = "sync"]
          /\ UNCHANGED display
       \/ /\ \E s \in {"UNSUPPORTED", "INVALID_REQUEST", "INTERNAL"} :
               serve' = [serve EXCEPT !.pc = "answer", !.status = s,
                                      !.clean = FALSE]
          /\ UNCHANGED display
    /\ UNCHANGED <<request, portal, hangup, requests>>

\* The server comes to the request.
Detach ==
    /\ display.detaching
    /\ display' = [display EXCEPT !.mapped = FALSE, !.detaching = FALSE]
    /\ UNCHANGED <<request, serve, portal, hangup, requests>>

\* The round trip that follows: its reply comes after everything sent
\* before, or not at all if the server is gone.
Sync ==
    /\ serve.pc = "sync"
    /\ serve.conn = "live" => ~display.detaching
    /\ serve' = [serve EXCEPT !.pc = IF serve.image THEN "seal" ELSE "core",
                              !.broken = @ \/ serve.conn = "dead"]
    /\ UNCHANGED <<request, display, portal, hangup, requests>>

\* core_into_map: the picture comes in the reply.
Core ==
    /\ serve.pc = "core"
    /\ \/ serve.conn = "live"
          /\ serve' = [serve EXCEPT !.pc = "seal", !.image = TRUE]
       \/ serve' = [Result("UNAVAILABLE") EXCEPT
                       !.clean = @ /\ serve.conn = "dead"]
    /\ UNCHANGED <<request, display, portal, hangup, requests>>

\* The worker unmaps the buffer and seals it, which the kernel refuses while
\* anybody has it mapped for writing.
Seal ==
    /\ serve.pc = "seal"
    /\ serve' = IF display.mapped
                THEN [serve EXCEPT !.pc = "answer", !.status = "INTERNAL",
                                   !.image = FALSE]
                ELSE [serve EXCEPT !.pc = "answer", !.status = "OK"]
    /\ UNCHANGED <<request, display, portal, hangup, requests>>

-----------------------------------------------------------------------------
(* The whole desktop: ksd_portal_capture_desktop. *)

\* The bus, the portal's properties, and the subscription to Response
\* signals, before the request that they answer exists.
Subscribe ==
    /\ serve.pc = "portal"
    /\ \/ /\ serve' = [serve EXCEPT !.pc = "call"]
          /\ portal' = [NoPortal EXCEPT !.listening = TRUE]
       \/ /\ serve' = [serve EXCEPT !.pc = "answer", !.clean = FALSE,
                                    !.status = "UNAVAILABLE"]
          /\ UNCHANGED portal
    /\ UNCHANGED <<request, display, hangup, requests>>

Screenshot ==
    /\ serve.pc = "call"
    /\ serve' = [serve EXCEPT !.pc = "reply"]
    /\ portal' = [portal EXCEPT !.request = "open"]
    /\ UNCHANGED <<request, display, hangup, requests>>

\* The call returns, or has failed or taken five seconds.  In the second
\* case there may be a request all the same; it is left open.
Reply ==
    /\ serve.pc = "reply"
    /\ \/ /\ serve' = [serve EXCEPT !.pc = "wait"]
          /\ portal' = [portal EXCEPT !.replied = TRUE, !.listening = TRUE]
       \/ /\ serve' = [serve EXCEPT !.pc = "answer", !.clean = FALSE,
                                    !.status = "UNAVAILABLE"]
          /\ portal' = [portal EXCEPT !.listening = FALSE]
    /\ UNCHANGED <<request, display, hangup, requests>>

\* The user answers the dialogue, perhaps before the call has returned.
Respond ==
    /\ portal.request = "open" /\ portal.response = None
    /\ \E code \in 0 .. 2 :
         /\ portal' = [portal EXCEPT !.response = code, !.request = "over",
                                     !.heard = portal.listening]
         /\ serve' = [serve EXCEPT !.clean =
                         @ /\ (serve.pc \in {"reply", "wait"} => code = 0)]
    /\ UNCHANGED <<request, display, hangup, requests>>

\* Thirty seconds after the call has returned.
ResponseTimeout ==
    /\ serve.pc = "wait" /\ ~portal.timer
    /\ portal' = [portal EXCEPT !.timer = TRUE]
    /\ serve' = [serve EXCEPT !.clean = @ /\ portal.response # None]
    /\ UNCHANGED <<request, display, hangup, requests>>

\* The loop of portal_screenshot and what follows it: a response that has
\* come counts, even beside the timer; without one the request is closed.
AwaitResponse ==
    /\ serve.pc = "wait"
    /\ \/ /\ portal.heard
          /\ serve' = IF portal.response = 0
                      THEN [serve EXCEPT !.pc = "file"]
                      ELSE [serve EXCEPT !.pc = "answer", !.status =
                               IF portal.response = 1 THEN "CANCELLED"
                               ELSE "UNAVAILABLE"]
          /\ portal' = [portal EXCEPT !.listening = FALSE]
       \/ /\ ~portal.heard /\ portal.timer
          /\ serve' = [serve EXCEPT !.pc = "answer", !.status = "TIMEOUT"]
          /\ portal' = [portal EXCEPT !.listening = FALSE,
                            !.request = IF @ = "open" THEN "closed" ELSE @]
    /\ UNCHANGED <<request, display, hangup, requests>>

\* The file is opened, checked, copied to a sealed one and removed.
TakeFile ==
    /\ serve.pc = "file"
    /\ \/ serve' = [serve EXCEPT !.pc = "answer", !.status = "OK",
                                 !.image = TRUE]
       \/ serve' = [serve EXCEPT !.pc = "answer", !.status = "UNAVAILABLE",
                                 !.clean = FALSE]
    /\ UNCHANGED <<request, display, portal, hangup, requests>>

-----------------------------------------------------------------------------
(* The authority, the clock, the display. *)

Busy == serve.pc \notin {"read", "watch", "ended"}

\* The authority's relay sends one request at a time.
Request ==
    /\ serve.pc = "read" /\ request = None /\ ~hangup
    /\ requests < MaxRequests
    /\ request' \in Operations
    /\ requests' = requests + 1
    /\ UNCHANGED <<serve, display, portal, hangup>>

Hangup ==
    /\ ~hangup /\ serve.pc # "ended"
    /\ hangup' = TRUE
    /\ UNCHANGED <<request, serve, display, portal, requests>>

\* watch_authority_connection, a thread of its own, ends the process at any
\* moment once the socket is closed.
MonitorExit ==
    /\ hangup /\ serve.pc # "ended"
    /\ serve' = Gone
    /\ UNCHANGED <<request, display, portal, hangup, requests>>

\* alarm(40) for a capture and alarm(10) for anything else.
Alarm ==
    /\ Busy /\ serve.pc # "answer"
    /\ serve' = Gone
    /\ UNCHANGED <<request, display, portal, hangup, requests>>

DisplayDies ==
    /\ display.up /\ display.deaths < MaxDeaths
    /\ display' = [display EXCEPT !.up = FALSE, !.deaths = @ + 1,
                                  !.mapped = FALSE, !.detaching = FALSE]
    /\ serve' = [serve EXCEPT !.conn = IF @ = "live" THEN "dead" ELSE @,
                              !.clean = FALSE]
    /\ UNCHANGED <<request, portal, hangup, requests>>

DisplayReturns ==
    /\ ~display.up
    /\ display' = [display EXCEPT !.up = TRUE]
    /\ UNCHANGED <<request, serve, portal, hangup, requests>>

-----------------------------------------------------------------------------
ServeStep ==
    \/ ReadRequest \/ Open \/ Execute \/ Query \/ Answer
    \/ SkipOutput \/ CaptureOutput \/ OutputChanges \/ ComposeCapture
    \/ Attach \/ Sync \/ Core \/ Seal
    \/ Subscribe \/ Screenshot \/ Reply \/ AwaitResponse \/ TakeFile

DisplayNext ==
    \/ ServeStep \/ WatchEnds \/ MonitorExit \/ Alarm
    \/ Request \/ Hangup
    \/ Detach \/ DisplayDies \/ DisplayReturns
    \/ Respond \/ ResponseTimeout

-----------------------------------------------------------------------------
(* Properties. *)

\* A request that nothing outside stood in the way of is answered OK: a
\* display that died costs the one request that found out, never the next
\* one; the X server has let go of a segment before it is sealed; the
\* portal's answer is heard even if it comes before its request's handle,
\* and beside the timer.  And a dialogue whose request is known is not left
\* on the screen behind the answer.
HealthyDisplayServes ==
    serve.pc = "answer" =>
        /\ serve.clean => serve.status = "OK"
        /\ portal.replied => portal.request # "open"

\* What capture_output relies on and neither asks for nor checks: the frame
\* of every output that the area touches is the part asked for, upright.
CompositorCrops(scene) ==
    scene.screencopy =>
        \A i \in DOMAIN scene.outputs :
            LET o == scene.outputs[i]
            IN Intersects(o, scene.area) =>
                 UprightCrop(o, Intersection(o, scene.area), scene.frames[i])

\* A picture of a Wayland area shows at every pixel what the user sees
\* there, whatever the scale and the transform of the outputs it is put
\* together from, and nothing where there is no output: always if the
\* compositor sends whole outputs (image copy), and if it sends the parts
\* asked for (screencopy), provided they come upright and of their own size.
PictureIsFaithful ==
    serve.pc = "answer" /\ serve.op = "area" /\ serve.backend = "GENERIC"
      /\ serve.status = "OK" /\ CompositorCrops(Scene) =>
        Shows(Compose(Scene.area, serve.segments, serve.which),
              Scene.area, Scene.outputs)

\* Every request is answered, becomes a watch, or costs the worker its life,
\* and a worker whose authority is gone ends, even one that waits for the user or the X
\* server.
ServeReturns ==
    /\ Busy ~> ~Busy
    /\ hangup ~> serve.pc = "ended"
=============================================================================
