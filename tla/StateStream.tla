---------------------------- MODULE StateStream ----------------------------
(***************************************************************************)
(* Desktop state pushed to a client: the watch that reads the windows      *)
(* (src/src/wayland/wl_watch.c, src/src/x11/x11_watch.c), the window table *)
(* of the lease that turns its events into numbered snapshots and deltas   *)
(* (src/src/authorityd.c), the client library that carries them to the     *)
(* application (Client), and the RPC threads that wait for a window        *)
(* operation to appear in the table (operation_sync).                      *)
(*                                                                         *)
(* The watch runs in a worker process of its own and is relayed by a       *)
(* source thread; both hops are one FIFO here, the pipe.  The lease's      *)
(* thread reads the pipe and writes the lease's socket under the lease's   *)
(* mutex, so a step is one critical section.                               *)
(***************************************************************************)
EXTENDS Client, FiniteSets, SequencesExt

CONSTANTS
    Windows,            \* window handles
    Contents,           \* what a window record says: pairs of components
    Absent,             \* no such window
    Keep,               \* the component a move or resize does not ask for
    Requests,           \* the window operations the application asks for
    Watches,            \* the kinds of watch: "sampled", "native", "x11"
    SocketRoom,         \* frames that fit into the lease's socket
    FailureLimit,       \* KSD_WATCH_REFRESH_FAILURES
    MaxStimuli          \* bound on what users, applications and faults do

ASSUME StreamConstants ==
    /\ IsFiniteSet(Windows) /\ Windows # {} /\ Contents # {} /\ Requests # {}
    /\ Watches \subseteq {"sampled", "native", "x11"}
    /\ \A r \in Requests :
         r.win \in Windows /\ r.kind \in {"close", "set", "move", "restack"}

VARIABLES
    desktop,    \* the windows the compositor has
    aside,      \* those that no list of X11 windows names
    watch,      \* the watch worker
    pipe,       \* frames on their way from the watch to the lease's thread
    lease,      \* the state half of the authority_lease
    socket,     \* frames in the lease's socket
    client,     \* the client library's lease connection
    app,        \* the application's mirror of the windows
    inbox,      \* the request the lease's thread has not served yet
    rpc,        \* an RPC thread that executes a window operation
    spent       \* stimuli so far

vars == <<desktop, aside, watch, pipe, lease, socket, client, app, inbox, rpc, spent>>

\* What the watch and the lease's thread never touch.
userVars == <<client, app, inbox, rpc>>

Tables == [Windows -> Contents \cup {Absent}]
NoWindows == [w \in Windows |-> Absent]

\* window_watch.  known is the last snapshot a Wayland watch diffed against or,
\* through its domain, the windows an X11 watch follows; notices are the X
\* events it has not read; poked is a refresh byte from an operation; owed is
\* the late answer of a round trip that timed out.
Idle ==
    [pc |-> "off", kind |-> "native", known |-> NoWindows, notices |-> <<>>,
     dirty |-> FALSE, poked |-> FALSE, owed |-> FALSE, failures |-> 0]

\* source says that the lane's source thread exists (source_started).
NewLease ==
    [active |-> TRUE, granted |-> TRUE, subscribed |-> FALSE, source |-> FALSE,
     pending |-> FALSE, windows |-> NoWindows, snapshot |-> NoWindows,
     sequence |-> 0]

NoOperation ==
    [pc |-> "idle", request |-> CHOOSE r \in Requests : TRUE,
     before |-> Absent, monitoring |-> FALSE, effective |-> 0]

\* The application's mirror.  valid: a complete snapshot, and neither a reset
\* nor a revocation since.
NoMirror ==
    [valid |-> FALSE, filling |-> FALSE, windows |-> NoWindows,
     snapshot |-> NoWindows, sequence |-> 0, gap |-> FALSE]

Init ==
    /\ desktop = [w \in Windows |-> CHOOSE c \in Contents : TRUE]
    /\ aside = {}
    /\ watch \in {[Idle EXCEPT !.kind = k] : k \in Watches}
    /\ pipe = <<>>
    /\ lease = NewLease
    /\ socket = <<>>
    /\ client = SendRequest(NewConnection, "subscribe")
    /\ app = NoMirror
    /\ inbox = "subscribe"
    /\ rpc = NoOperation
    /\ spent = 0

Event(kind, w, to) == [kind |-> kind, win |-> w, to |-> to]
Bracket(kind) == Event(kind, CHOOSE w \in Windows : TRUE, Absent)

-----------------------------------------------------------------------------
(* The watch *)

Present(table) == {w \in Windows : table[w] # Absent}

\* One event per window of a set, in some fixed order.
ForEach(windows, kind, table) ==
    [i \in 1 .. Cardinality(windows) |->
        LET w == SetToSeq(windows)[i] IN Event(kind, w, table[w])]

\* initial_windows, initial_snapshot: a complete snapshot.
Snapshot(table) ==
    <<Bracket("begin")>> \o ForEach(Present(table), "item", table)
        \o <<Bracket("end")>>

\* Mutant: the diff forgets the windows that are gone.
DiffWithoutClosed(known, now) ==
    ForEach({w \in Present(now) : known[w] # now[w]}, "changed", now)

\* ksd_wayland_watch_diff: new and changed windows, then the closed ones.
Diff(known, now) ==
    ForEach({w \in Present(now) : known[w] # now[w]}, "changed", now)
        \o ForEach(Present(known) \ Present(now), "destroy", now)

\* window_view: Hyprland's windows are sampled, the other lists are pushed.
Wayland == watch.kind \in {"sampled", "native"}

\* ksd_x11_enumerate_windows: the client list and the children of the root.
Enumerated == [w \in Windows |-> IF w \in aside THEN Absent ELSE desktop[w]]

\* An X event, in the order of the X server.
Notify(kind, w) ==
    [watch EXCEPT !.notices = Append(@, [kind |-> kind, win |-> w])]

\* What a change of the desktop leaves for the watch to notice.  A change may
\* be that the window became the active one.  A sampled watch (Hyprland) is not
\* told of every change.
Noticed(w, to) ==
    LET kinds == CASE desktop[w] = Absent -> {"list"}
                   [] desktop[w] # Absent /\ to = Absent -> {"destroy"}
                   [] OTHER -> {"change", "active"}
    IN  IF watch.pc = "off" THEN {watch}
        ELSE CASE watch.kind = "x11" -> {Notify(kind, w) : kind \in kinds}
               [] watch.kind = "native" -> {[watch EXCEPT !.dirty = TRUE]}
               [] watch.kind = "sampled" -> {watch, [watch EXCEPT !.dirty = TRUE]}

\* The user or an application changes a window.
DesktopChange(w, to) ==
    /\ spent < MaxStimuli
    /\ to # desktop[w]
    /\ desktop' = [desktop EXCEPT ![w] = to]
    /\ aside' = IF desktop[w] = Absent THEN aside \ {w} ELSE aside
    /\ watch' \in Noticed(w, to)
    /\ spent' = spent + 1
    /\ UNCHANGED <<pipe, lease, socket, userVars>>

\* An X11 window leaves the lists but exists: its manager withdrew it, or it was
\* reparented, which the watch may not hear of.
Unlist(w) ==
    /\ watch.kind = "x11" /\ spent < MaxStimuli
    /\ desktop[w] # Absent /\ w \notin aside
    /\ aside' = aside \cup {w}
    /\ watch' \in {watch} \cup
          (IF watch.pc = "off" THEN {} ELSE {Notify("list", w)})
    /\ spent' = spent + 1
    /\ UNCHANGED <<desktop, pipe, lease, socket, userVars>>

\* It is mapped, and with that listed, again.
Relist(w) ==
    /\ spent < MaxStimuli
    /\ desktop[w] # Absent /\ w \in aside
    /\ aside' = aside \ {w}
    /\ watch' = IF watch.pc = "off" THEN watch ELSE Notify("map", w)
    /\ spent' = spent + 1
    /\ UNCHANGED <<desktop, pipe, lease, socket, userVars>>

\* The start of ksd_wayland_watch_run and ksd_x11_watch_run: read the windows,
\* answer, and emit the initial snapshot.
WatchStart ==
    /\ watch.pc = "starting"
    /\ watch' = [watch EXCEPT !.pc = "running", !.known = Enumerated]
    /\ pipe' = pipe \o Snapshot(Enumerated)
    /\ UNCHANGED <<desktop, aside, lease, socket, userVars, spent>>

\* A refresh is scheduled by an event (or, for a sampled watch, the tick) or
\* only requested by an operation.  A requested one leaves the schedule alone.
Due(scheduled) ==
    IF scheduled THEN watch.dirty \/ watch.kind = "sampled" ELSE watch.poked

AfterRefresh(scheduled) ==
    [watch EXCEPT !.poked = FALSE, !.dirty = @ /\ ~scheduled]

\* A refresh that succeeds emits what changed since the last one.
WatchRefresh(scheduled) ==
    /\ watch.pc = "running" /\ Wayland
    /\ Due(scheduled)
    /\ watch' = [AfterRefresh(scheduled) EXCEPT !.known = desktop, !.failures = 0]
    /\ pipe' = pipe \o Diff(watch.known, desktop)
    /\ UNCHANGED <<desktop, aside, lease, socket, userVars, spent>>

\* A refresh that fails is not diffed, and its mark is cleared all the same; the
\* last one of a row ends the watch.  An answer is owed if the compositor did not
\* answer in time, and none if snapshot or auxiliary_state failed (no memory, or
\* a title that is not UTF-8).
RefreshFails(scheduled) ==
    /\ watch.pc = "running" /\ Wayland
    /\ Due(scheduled)
    /\ spent < MaxStimuli
    /\ \E late \in BOOLEAN :
         watch' = IF watch.failures + 1 >= FailureLimit
                  THEN [Idle EXCEPT !.kind = watch.kind]
                  ELSE [AfterRefresh(scheduled) EXCEPT
                           !.failures = @ + 1, !.owed = @ \/ late]
    /\ spent' = spent + 1
    /\ UNCHANGED <<desktop, aside, pipe, lease, socket, userVars>>

\* The answer of the round trip that timed out arrives after all.
LateAnswer ==
    /\ watch.owed
    /\ watch' = [watch EXCEPT !.owed = FALSE, !.dirty = TRUE]
    /\ UNCHANGED <<desktop, aside, pipe, lease, socket, userVars, spent>>

\* The windows an X11 watch follows once it has read the lists: those that are
\* listed, and those that it followed and that still exist.
Followed ==
    [w \in Windows |-> IF w \in aside /\ watch.known[w] = Absent THEN Absent
                       ELSE desktop[w]]

\* refresh_clients: follow and announce new windows; of those that left the lists
\* hide the ones that exist and close the gone ones.
RefreshClients ==
    LET known == Present(watch.known)
        listed == Present(Enumerated)
        left == known \ listed
    IN  ForEach(listed \ known, "changed", desktop)
          \o ForEach(left \cap Present(desktop), "changed", desktop)
          \o ForEach(left \ Present(desktop), "destroy", desktop)

\* emit_window: a window that is gone when it is queried emits nothing.
EmitWindow(w) ==
    IF desktop[w] = Absent THEN <<>> ELSE <<Event("changed", w, desktop[w])>>

\* handle_event: a created window, a new client list or a mapped window that is
\* not followed makes the watch read the lists; any other event reads only its
\* window: the active one whether or not it is followed, another only if it is.
HandleEvent ==
    /\ watch.pc = "running" /\ watch.kind = "x11"
    /\ watch.notices # <<>>
    /\ LET notice == Head(watch.notices)
           w == notice.win
           followed == watch.known[w] # Absent
           read == [watch EXCEPT !.notices = Tail(@)]
           readLists == notice.kind = "list" \/ (notice.kind = "map" /\ ~followed)
       IN  \/ /\ readLists
              /\ watch' = [read EXCEPT !.known = Followed]
              /\ pipe' = pipe \o RefreshClients
           \/ /\ notice.kind \in {"change", "active", "map"} /\ ~readLists
              /\ watch' = read
              /\ pipe' = IF followed \/ notice.kind = "active"
                         THEN pipe \o EmitWindow(w) ELSE pipe
           \/ /\ notice.kind = "destroy"
              /\ watch' = [read EXCEPT !.known[w] = Absent]
              /\ pipe' = IF followed
                         THEN Append(pipe, Event("destroy", w, Absent)) ELSE pipe
    /\ UNCHANGED <<desktop, aside, lease, socket, userVars, spent>>

\* A restacking makes the X11 watch send a whole new snapshot (initial_snapshot)
\* and follow what it lists; it closes nothing.
Restacked ==
    /\ watch.pc = "running" /\ watch.kind = "x11"
    /\ spent < MaxStimuli
    /\ watch' = [watch EXCEPT !.known =
           [w \in Windows |-> IF Enumerated[w] = Absent THEN watch.known[w]
                              ELSE desktop[w]]]
    /\ pipe' = pipe \o Snapshot(Enumerated)
    /\ spent' = spent + 1
    /\ UNCHANGED <<desktop, aside, lease, socket, userVars>>

\* The watch ends: its display or its stream failed (perhaps in the middle of
\* a diff), the worker died, or the source thread saw the backend change.
\* What the thread has not relayed is lost.
WatchEnds ==
    /\ watch.pc # "off"
    /\ spent < MaxStimuli
    /\ LET sent == pipe \o (CASE watch.pc = "starting" -> Snapshot(Enumerated)
                             [] watch.pc = "running" /\ Wayland ->
                                  Diff(watch.known, desktop)
                             [] OTHER -> <<>>)
       IN  \E n \in 0 .. Len(sent) : pipe' = SubSeq(sent, 1, n)
    /\ watch' = [Idle EXCEPT !.kind = watch.kind]
    /\ spent' = spent + 1
    /\ UNCHANGED <<desktop, aside, lease, socket, userVars>>

-----------------------------------------------------------------------------
(* The lease's window table and its event writer *)

\* The connection's handler returns false: the lease ends.
Fail(L) == lease' = [L EXCEPT !.active = FALSE, !.granted = FALSE] /\ UNCHANGED socket

\* write_lease_frame never blocks: a full or closed socket fails.
Room == client.open /\ Len(socket) < SocketRoom

\* lease_emit, under the lease's mutex: the event carries the sequence of its
\* domain.  A client that does not drain its socket loses the lease.
Emit(L, event) ==
    IF Room
    THEN /\ socket' = Append(socket, [event EXCEPT !.sequence = L.sequence])
         /\ lease' = L
    ELSE Fail(L)

Numbered(event) ==
    [kind |-> event.kind, win |-> event.win, to |-> event.to, sequence |-> 0]

\* The table is left as it is and nothing is emitted.
Ignore == UNCHANGED <<lease, socket>>

\* Mutant: a window missing from the snapshot stays in the table.
MergedSnapshot(L) ==
    [L EXCEPT !.windows = [w \in Windows |-> IF L.snapshot[w] = Absent
                                             THEN L.windows[w] ELSE L.snapshot[w]],
              !.snapshot = NoWindows, !.pending = FALSE]

\* The end of a snapshot: the collected windows become the table.
SwapSnapshot(L) ==
    [L EXCEPT !.windows = L.snapshot, !.snapshot = NoWindows, !.pending = FALSE]

\* state_window_apply.  A snapshot is collected aside and replaces the table at
\* its end; begin, items and end share one sequence, every delta takes the next.
\* A delta that changes nothing is not emitted.
StateWindowApply(event) ==
    LET L == lease
        w == event.win
        next == [L EXCEPT !.sequence = @ + 1]
    IN  CASE event.kind = "begin" ->
               Emit([next EXCEPT !.pending = TRUE, !.snapshot = NoWindows],
                    Numbered(event))
          [] event.kind \in {"item", "end"} /\ ~L.pending -> Fail(L)
          [] event.kind = "item" /\ L.pending ->
               Emit([L EXCEPT !.snapshot[w] = event.to], Numbered(event))
          [] event.kind = "end" /\ L.pending ->
               Emit(SwapSnapshot(L), Numbered(event))
          [] event.kind = "destroy" ->
               IF L.windows[w] = Absent THEN Ignore
               ELSE Emit([next EXCEPT !.windows[w] = Absent], Numbered(event))
          [] event.kind = "changed" ->
               IF L.windows[w] = event.to THEN Ignore
               ELSE Emit([next EXCEPT !.windows[w] = event.to], Numbered(event))

\* state_source_event: the lease's thread takes a frame of its source; a domain
\* that is not subscribed or no longer granted drops it.
SourceEvent ==
    /\ lease.active /\ lease.source
    /\ pipe # <<>>
    /\ pipe' = Tail(pipe)
    /\ IF lease.subscribed /\ lease.granted
       THEN StateWindowApply(Head(pipe)) ELSE Ignore
    /\ UNCHANGED <<desktop, aside, watch, userVars, spent>>

\* The source's socket ends: the source is joined and a subscribed domain is
\* told by a RESET of its own sequence.  Nothing restarts the source.
SourceEnds ==
    /\ lease.active /\ lease.source
    /\ pipe = <<>> /\ watch.pc = "off"
    /\ LET L == [lease EXCEPT !.source = FALSE]
       IN  IF L.subscribed
           THEN Emit([L EXCEPT !.sequence = @ + 1], Numbered(Bracket("reset")))
           ELSE lease' = L /\ UNCHANGED socket
    /\ UNCHANGED <<desktop, aside, watch, pipe, userVars, spent>>

\* session_refresh finds the monitoring scope revoked: the client is told and
\* the domain ends, so that a later grant cannot resume it in the middle.
Revoke ==
    /\ lease.active /\ lease.granted
    /\ spent < MaxStimuli
    /\ spent' = spent + 1
    /\ Emit([lease EXCEPT !.granted = FALSE, !.subscribed = FALSE],
            Numbered(Bracket("revoked")))
    /\ UNCHANGED <<desktop, aside, watch, pipe, userVars>>

\* The scope is granted again (complete_authorization, or a refresh after the
\* store changed): the client is told; the domain does not resume by itself.
Regrant ==
    /\ lease.active /\ ~lease.granted
    /\ Emit([lease EXCEPT !.granted = TRUE], Numbered(Bracket("granted")))
    /\ UNCHANGED <<desktop, aside, watch, pipe, userVars, spent>>

\* The lease's connection ends: its client is gone, or a frame could not be
\* written.  The sources are stopped and the RPC threads released.
LeaseEnds ==
    /\ lease.active => ~client.open
    /\ lease.active \/ lease.source
    /\ lease' = [lease EXCEPT !.active = FALSE, !.granted = FALSE, !.source = FALSE]
    /\ watch' = [Idle EXCEPT !.kind = watch.kind]
    /\ pipe' = <<>>
    /\ UNCHANGED <<desktop, aside, socket, userVars, spent>>

\* What state_source_stop and state_source_start leave of the source.
Restarted == [Idle EXCEPT !.kind = watch.kind, !.pc = "starting"]

\* forward_response on the lease's socket.
Respond(L, call) ==
    IF Room
    THEN /\ socket' = Append(socket, [kind |-> "response", call |-> call])
         /\ lease' = L
    ELSE Fail(L)

\* handle_state_subscribe without the scope: DENIED, and nothing changes.
SubscribeDenied ==
    /\ inbox = "subscribe" /\ lease.active /\ ~lease.granted
    /\ Respond(lease, inbox)
    /\ inbox' = "none"
    /\ UNCHANGED <<desktop, aside, watch, pipe, client, app, rpc, spent>>

\* handle_state_subscribe: the domains are replaced, the table awaits a new
\* snapshot, and a fresh source takes the place of the old one.
Subscribe ==
    /\ inbox = "subscribe" /\ lease.active /\ lease.granted
    /\ Respond([lease EXCEPT !.subscribed = TRUE, !.pending = TRUE,
                              !.source = TRUE], inbox)
    /\ watch' = Restarted
    /\ pipe' = <<>>
    /\ inbox' = "none"
    /\ UNCHANGED <<desktop, aside, client, app, rpc, spent>>

\* No source can be started: UNAVAILABLE, and the handler's false return ends
\* the connection, with the lease.
SubscribeUnavailable ==
    /\ inbox = "subscribe" /\ lease.active /\ lease.granted
    /\ spent < MaxStimuli
    /\ Respond([lease EXCEPT !.active = FALSE, !.granted = FALSE,
                              !.source = FALSE], inbox)
    /\ watch' = [Idle EXCEPT !.kind = watch.kind]
    /\ pipe' = <<>>
    /\ inbox' = "none"
    /\ spent' = spent + 1
    /\ UNCHANGED <<desktop, aside, client, app, rpc>>

-----------------------------------------------------------------------------
(* The client library and the application's mirror *)

\* The application keeps its mirror as client.h says: a snapshot replaces it at
\* its end, a delta updates it, and a missing sequence number, a RESET or the
\* loss of the scope makes it worthless.
Mirror(a, e) ==
    LET expected == IF e.kind \in {"item", "end"} THEN a.sequence ELSE a.sequence + 1
        heard == [a EXCEPT !.sequence = e.sequence,
                           !.gap = @ \/ e.sequence # expected]
    IN  CASE e.kind = "begin" ->
               [heard EXCEPT !.filling = TRUE, !.snapshot = NoWindows]
          [] e.kind = "item" -> [heard EXCEPT !.snapshot[e.win] = e.to]
          [] e.kind = "end" ->
               [heard EXCEPT !.windows = a.snapshot, !.snapshot = NoWindows,
                             !.filling = FALSE, !.valid = TRUE]
          [] e.kind \in {"changed", "destroy"} ->
               [heard EXCEPT !.windows[e.win] = e.to]
          [] e.kind = "reset" -> [heard EXCEPT !.valid = FALSE, !.filling = FALSE]
          [] e.kind = "revoked" -> [a EXCEPT !.valid = FALSE, !.filling = FALSE]
          [] e.kind = "granted" -> a

\* ksd_state_subscribe: the request is written and its response awaited.
StateSubscribe ==
    /\ client.open /\ client.waiting = "none"
    /\ spent < MaxStimuli
    /\ client' = SendRequest(client, "subscribe")
    /\ inbox' = "subscribe"
    /\ spent' = spent + 1
    /\ UNCHANGED <<desktop, aside, watch, pipe, lease, socket, app, rpc>>

\* A closed socket loses what it still held.
Received(c) == socket' = IF c.open THEN Tail(socket) ELSE <<>>

\* read_response takes the next frame.
ReadFrame ==
    /\ client.open /\ client.waiting # "none" /\ socket # <<>>
    /\ client' = ReadResponse(client, Head(socket))
    /\ Received(client')
    /\ UNCHANGED <<desktop, aside, watch, pipe, lease, app, inbox, rpc, spent>>

\* ksd_state_next takes a queued event.
NextQueued ==
    /\ client.waiting = "none" /\ client.queue # <<>>
    /\ app' = Mirror(app, Head(client.queue))
    /\ client' = TakeEvent(client)
    /\ UNCHANGED <<desktop, aside, watch, pipe, lease, socket, inbox, rpc, spent>>

\* ksd_state_next reads an event from the socket.
NextRead ==
    /\ client.open /\ client.waiting = "none" /\ client.queue = <<>>
    /\ socket # <<>>
    /\ client' = ReadEvent(client, Head(socket))
    /\ app' = IF client'.open THEN Mirror(app, Head(socket)) ELSE app
    /\ Received(client')
    /\ UNCHANGED <<desktop, aside, watch, pipe, lease, inbox, rpc, spent>>

\* The call's deadline passes, or the service has closed the socket.
ClientFails ==
    /\ client.open
    /\ \/ /\ socket = <<>> /\ ~lease.active
          /\ UNCHANGED spent
       \/ /\ client.waiting # "none" /\ spent < MaxStimuli
          /\ spent' = spent + 1
    /\ client' = SystemFailure(client)
    /\ socket' = <<>>
    /\ UNCHANGED <<desktop, aside, watch, pipe, lease, app, inbox, rpc>>

-----------------------------------------------------------------------------
(* An RPC thread: a window operation and its observation *)

\* A request is [kind, win, to].  A close wants the window gone, a "set" (title,
\* visibility, state, ...) its first component, a move or resize the components
\* that are not Keep, a restack an order no table can confirm.
Asked(req, i) == req.to[i] # Keep

\* operation_observed, apart from snapshot_pending.  A compositor may constrain a
\* requested component, so any change of it counts as its effect.
Observed(req, before, now) ==
    CASE req.kind = "close" -> now = Absent
      [] req.kind = "set" -> now # Absent /\ now[1] = req.to[1]
      [] req.kind = "move" ->
           now # Absent /\ \A i \in 1 .. 2 :
             Asked(req, i) =>
               now[i] = req.to[i] \/ (before # Absent /\ now[i] # before[i])
      [] req.kind = "restack" -> TRUE

\* operation_geometry_changed: some requested component moved.
GeometryChanged(req, before, now) ==
    /\ req.kind = "move" /\ before # Absent /\ now # Absent
    /\ \E i \in 1 .. 2 :
         Asked(req, i) /\ req.to[i] # before[i] /\ now[i] # before[i]

\* execute_operation reads the target's record before the work.  An operation
\* counts as two stimuli: what it asks and what the compositor makes of it.
OpBegin(req) ==
    /\ rpc.pc = "idle" /\ lease.active
    /\ spent + 2 <= MaxStimuli
    /\ rpc' = [pc |-> "working", request |-> req,
               before |-> lease.windows[req.win], monitoring |-> FALSE,
               effective |-> 0]
    /\ spent' = spent + 2
    /\ UNCHANGED <<desktop, aside, watch, pipe, lease, socket, client, app, inbox>>

\* What the compositor may make of a request it accepted.
Effects(req, now) ==
    {now} \cup
    (CASE req.kind = "close" -> {Absent}
       [] req.kind = "set" -> {c \in Contents : now # Absent /\ c[1] = req.to[1] /\ c[2] = now[2]}
       [] req.kind = "move" -> {c \in Contents : now # Absent /\
                                 \A i \in 1 .. 2 : c[i] # now[i] => Asked(req, i)}
       [] req.kind = "restack" -> {})

\* The backend answers OK, whatever it did.
OpExecute ==
    /\ rpc.pc = "working"
    /\ \E to \in Effects(rpc.request, desktop[rpc.request.win]) :
         /\ desktop' = [desktop EXCEPT ![rpc.request.win] = to]
         /\ watch' \in IF to = desktop[rpc.request.win] THEN {watch}
                       ELSE Noticed(rpc.request.win, to)
    /\ rpc' = [rpc EXCEPT !.pc = "executed"]
    /\ UNCHANGED <<aside, pipe, lease, socket, client, app, inbox, spent>>

\* operation_sync begins: whether there is anything to wait for is settled here,
\* whatever becomes of the subscription later.
Monitoring == lease.subscribed /\ rpc.request.kind # "restack"

SyncBegins ==
    /\ rpc.pc = "executed"
    /\ rpc' = [rpc EXCEPT !.pc = "syncing", !.monitoring = Monitoring]
    /\ UNCHANGED <<desktop, aside, watch, pipe, lease, socket, client, app,
                   inbox, spent>>

InTable == Observed(rpc.request, rpc.before, lease.windows[rpc.request.win])

\* Mutant: a complete table is enough, whatever it says of the window.
SeenAtOnce == ~lease.pending

\* operation_observed: nothing is seen while a snapshot is due.
Seen == ~lease.pending /\ InTable

\* While it waits for a sampled watch the operation asks for a refresh.
OpPoke ==
    /\ rpc.pc = "syncing" /\ lease.active
    /\ rpc.monitoring /\ ~Seen
    /\ watch.pc = "running" /\ watch.kind = "sampled" /\ ~watch.poked
    /\ watch' = [watch EXCEPT !.poked = TRUE]
    /\ UNCHANGED <<desktop, aside, pipe, lease, socket, userVars, spent>>

OpDone(verdict, sequence) ==
    /\ rpc' = [rpc EXCEPT !.pc = verdict, !.effective = sequence]
    /\ UNCHANGED <<desktop, aside, watch, pipe, lease, socket, client, app, inbox, spent>>

\* operation_sync ends: the effect is in the table and the response carries its
\* sequence; without monitoring it carries none; at the deadline a partial move
\* succeeds without a sequence and anything else times out; a dead lease
\* withholds the result.
OperationSync ==
    /\ rpc.pc = "syncing"
    /\ \/ lease.active /\ rpc.monitoring /\ Seen /\ OpDone("ok", lease.sequence)
       \/ lease.active /\ ~rpc.monitoring /\ OpDone("ok", 0)
       \/ /\ lease.active /\ rpc.monitoring /\ ~Seen
          /\ OpDone(IF ~lease.pending /\ GeometryChanged(rpc.request, rpc.before,
                                          lease.windows[rpc.request.win])
                    THEN "ok" ELSE "timeout", 0)
       \/ ~lease.active /\ OpDone("withheld", 0)

\* The response is read and the next operation may come.
OpReturn ==
    /\ rpc.pc \in {"ok", "timeout", "withheld"}
    /\ rpc' = NoOperation
    /\ UNCHANGED <<desktop, aside, watch, pipe, lease, socket, client, app, inbox, spent>>

-----------------------------------------------------------------------------
WatchStep ==
    \/ WatchStart \/ LateAnswer \/ HandleEvent \/ Restacked \/ WatchEnds
    \/ \E scheduled \in BOOLEAN : WatchRefresh(scheduled) \/ RefreshFails(scheduled)

LeaseStep ==
    \/ SourceEvent \/ SourceEnds \/ Revoke \/ Regrant \/ LeaseEnds
    \/ SubscribeDenied \/ Subscribe \/ SubscribeUnavailable

ClientStep ==
    \/ StateSubscribe \/ ReadFrame \/ NextQueued \/ NextRead \/ ClientFails

OperationStep ==
    \/ \E req \in Requests : OpBegin(req)
    \/ OpExecute \/ SyncBegins \/ OpPoke \/ OperationSync \/ OpReturn

Next ==
    \/ \E w \in Windows, to \in Contents \cup {Absent} : DesktopChange(w, to)
    \/ \E w \in Windows : Unlist(w) \/ Relist(w)
    \/ WatchStep \/ LeaseStep \/ ClientStep \/ OperationStep

Spec == Init /\ [][Next]_vars

-----------------------------------------------------------------------------
(* Properties *)

\* What a mirror becomes by a frame, and by a sequence of frames: a response
\* never reaches it.
Hear(a, f) == IF f.kind = "response" THEN a ELSE Mirror(a, f)

Heard(a, frames) ==
    LET mirror[n \in 0 .. Len(frames)] ==
            IF n = 0 THEN a ELSE Hear(mirror[n - 1], frames[n])
    IN  mirror[Len(frames)]

\* The application's mirror once it has seen all that is between the lease and
\* itself: the queue comes before the socket.
Caught == Heard(Heard(app, client.queue), socket)

\* No event is lost, duplicated or reordered between the lease's table and the
\* application, through the queue and the socket and across resubscriptions:
\* the mirror that has seen everything underway is the table, and its sequence
\* numbers have no gap (the promise of client.h on begin/items/end and deltas).
MirrorFollowsTable ==
    client.open =>
        /\ ~Caught.gap
        /\ lease.active => /\ Caught.sequence = lease.sequence
                           /\ Caught.valid => Caught.windows = lease.windows

\* A sequence number returned by a window operation is a fence: an application
\* that has applied the events up to it sees the requested effect in its
\* mirror (operation_sync), also in the last contents of a mirror that a RESET or
\* a revocation has made void meanwhile.
SequenceIsFence ==
    [][rpc.pc = "syncing" /\ rpc'.pc = "ok" /\ rpc'.effective # 0 /\ client.open
       => /\ Caught.sequence = rpc'.effective
          /\ Observed(rpc.request, rpc.before,
                      Caught.windows[rpc.request.win])]_vars

\* The poll descriptor is readable whenever ksd_state_next has something to
\* report, a failed connection included, and never while it has nothing.
PollIsExact ==
    client.waiting = "none" =>
        (Readable(client, socket, ~lease.active)
           = (client.queue # <<>> \/ ~client.open \/ socket # <<>> \/ ~lease.active))

\* The last refresh of a watch that no tick wakes failed.
Missed == watch.kind = "native" /\ watch.failures > 0

\* An application that keeps reading does not live with a stale mirror: once
\* the desktop rests, a mirror that still counts as valid on an open connection
\* is the desktop (the watch notices, the diff is complete, and a source that
\* ends, a revocation or a lost lease is reported).  Two cases are exempt, for the
\* code promises nothing there: a native watch whose last refresh failed, until
\* the next event (wl_watch.c clears the mark of a failed refresh), and an X11
\* window that no list names, which the mirror may show or not.
Converges ==
    <>[](client.open /\ app.valid /\ ~Missed
         => \A w \in Windows \ aside : app.windows[w] = desktop[w])

\* The loops that serve the stream keep running, every wait in them is bounded,
\* and the application reads its events.
Fairness ==
    /\ WF_vars(WatchStart) /\ WF_vars(WatchRefresh(TRUE))
    /\ WF_vars(HandleEvent) /\ WF_vars(SourceEvent) /\ WF_vars(SourceEnds)
    /\ WF_vars(LeaseEnds)
    /\ WF_vars(SubscribeDenied \/ Subscribe)
    /\ WF_vars(ReadFrame) /\ WF_vars(NextQueued) /\ WF_vars(NextRead)
    /\ WF_vars(ClientFails)

FairSpec == Spec /\ Fairness
=============================================================================
