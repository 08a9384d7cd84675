-------------------------- MODULE BackendRegistry --------------------------
(***************************************************************************)
(* The authority's registry of session daemons (src/src/authorityd.c): one *)
(* registration per user, the relay to its daemon, and per lane the relay  *)
(* to a display worker started on demand with a client's credentials.      *)
(*                                                                         *)
(* Connection threads work from a snapshot of the registration while the   *)
(* daemon may leave, die and be replaced.  A step is one critical section  *)
(* of the state's mutex or of a relay's mutex, or one blocking call        *)
(* between two of them.  Inside a relay, see KwinRelay; here a relay is an *)
(* address with a reference count.                                         *)
(*                                                                         *)
(* A daemon process registers once, so that its backend, its mask and its  *)
(* provider's identity are functions of the daemon and not kept apart.     *)
(* SHELL stands for GNOME and Cinnamon, reached over the session bus.      *)
(***************************************************************************)
EXTENDS Integers, FiniteSets

CONSTANTS
    Daemons,            \* session daemon processes: an identity each
    DaemonUid, PidOf,   \* their users and process ids; a pid may be reused
    BackendOf,          \* the backends they register
    Clients,            \* connection threads serving an application
    ClientUid, ClientGid,
    Lanes,              \* 0, the query lane, and 1, the capture lane
    Slots,              \* KSD_MAX_BACKEND_REGISTRATIONS
    Descriptors,        \* file descriptor numbers
    Relays,             \* addresses of ksd_kwin_relay objects
    None

ASSUME NumbersOK == Slots \subseteq Nat /\ Lanes \subseteq {0, 1}
ASSUME FiniteOK == IsFiniteSet(Slots) /\ IsFiniteSet(Daemons) /\ IsFiniteSet(Clients)
ASSUME NoneOK == None \notin Relays \cup Daemons \cup Descriptors
ASSUME BackendsOK ==
    BackendOf \in [Daemons -> {"KWIN", "SHELL", "X11", "GENERIC"}]

VARIABLES
    backends,   \* state->backends
    relay,      \* the relay objects, allocated or not
    conn,       \* the thread of each daemon's connection
    alive,      \* daemon processes that ksp_identity_revalidate accepts
    client      \* the threads serving applications

vars == <<backends, relay, conn, alive, client>>

Uids == {DaemonUid[d] : d \in Daemons} \cup {ClientUid[c] : c \in Clients}
Gids == {ClientGid[c] : c \in Clients}
MaybeRelay == Relays \cup {None}
MaybeDaemon == Daemons \cup {None}

\* A relay object.  daemon and gid: the session and the group its far end
\* belongs to, None for the relay to the daemon itself.
RelayRecord == [refs: Nat, broken: BOOLEAN, daemon: MaybeDaemon,
                gid: Gids \cup {None}]

Unallocated == [refs |-> 0, broken |-> FALSE, daemon |-> None, gid |-> None]

BackendRecord ==
    [active: BOOLEAN, descriptor: Descriptors \cup {None},
     daemon: MaybeDaemon, relay: MaybeRelay,
     display: [Lanes -> MaybeRelay], displayGid: [Lanes -> Gids \cup {None}]]

EmptyBackend ==
    [active |-> FALSE, descriptor |-> None, daemon |-> None, relay |-> None,
     display |-> [l \in Lanes |-> None],
     displayGid |-> [l \in Lanes |-> None]]

Snapshots == [daemon: MaybeDaemon, descriptor: Descriptors \cup {None},
              relay: MaybeRelay]

NoSnapshot == [daemon |-> None, descriptor |-> None, relay |-> None]

\* The thread of a daemon's connection.  snap is registered_backend's.
ConnRecord ==
    [pc: {"new", "polling", "checking", "leaving", "left", "gone"},
     descriptor: Descriptors \cup {None}, snap: Snapshots]

\* mode: why the thread wants a display worker: x11_observe_window before
\* the operation, the operation itself, or x11_child_sync after it.
\* slot, registration, own: display_relay_for's slot, registration and the
\* relay it created.  display: the worker's relay the thread holds.  child:
\* child_target.  served: the daemon whose session answered the operation.
\* failed: the operation's own call to the worker ended with the relay broken.
\* called, gone: before ksd_kwin_relay_is_broken, and after it said yes; drop
\* and keep: before ksd_kwin_relay_release of a worker that was taken out of
\* its slot, and of one that was left there.
ClientRecord ==
    [pc: {"idle", "taken", "provider", "lookup", "spawn", "install", "retire",
          "call", "called", "gone", "drop", "keep", "final", "release"},
     mode: {"observe", "main", "sync"}, snap: Snapshots,
     lane: Lanes \cup {None}, slot: Slots \cup {None},
     registration: MaybeDaemon, own: MaybeRelay, display: MaybeRelay,
     child: BOOLEAN, failed: BOOLEAN, served: MaybeDaemon,
     verdict: {"none", "released", "withheld"}]

IdleClient ==
    [pc |-> "idle", mode |-> "main", snap |-> NoSnapshot, lane |-> None,
     slot |-> None, registration |-> None, own |-> None, display |-> None,
     child |-> FALSE, failed |-> FALSE, served |-> None, verdict |-> "none"]

Init ==
    /\ backends = [s \in Slots |-> EmptyBackend]
    /\ relay = [r \in Relays |-> Unallocated]
    /\ conn = [d \in Daemons |-> [pc |-> "new", descriptor |-> None,
                                  snap |-> NoSnapshot]]
    /\ alive = [d \in Daemons |-> TRUE]
    /\ client = [c \in Clients |-> IdleClient]

-----------------------------------------------------------------------------
(* Relay objects and lookups. *)

\* ksd_kwin_relay_acquire and ksd_kwin_relay_release accept NULL.
Acquired(objects, r) ==
    IF r = None THEN objects ELSE [objects EXCEPT ![r].refs = @ + 1]

Dropped(objects, r) ==
    IF r = None THEN objects
    ELSE IF objects[r].refs = 1 THEN [objects EXCEPT ![r] = Unallocated]
    ELSE [objects EXCEPT ![r].refs = @ - 1]

\* ksd_kwin_relay_retire: break the channel for whoever still uses it, then
\* drop the owner's reference.
Retired(objects, r) ==
    IF r = None THEN objects
    ELSE Dropped([objects EXCEPT ![r].broken = TRUE], r)

Created(d, gid) ==
    [refs |-> 1, broken |-> FALSE, daemon |-> d, gid |-> gid]

FreeRelays == {r \in Relays : relay[r].refs = 0}

\* The registration of a user, the first one in slot order.
SlotsOf(uid) ==
    {s \in Slots : backends[s].active /\ DaemonUid[backends[s].daemon] = uid}

Lowest(S) == CHOOSE s \in S : \A t \in S : s <= t

\* take_backend_snapshot
SnapshotOf(uid) ==
    LET s == Lowest(SlotsOf(uid)) IN
    IF SlotsOf(uid) = {} THEN NoSnapshot
    ELSE [daemon |-> backends[s].daemon,
          descriptor |-> backends[s].descriptor,
          relay |-> backends[s].relay]

\* A mutant of Current that trusts the descriptor's number.
CurrentByDescriptor(snap) ==
    \E s \in Slots : /\ backends[s].active
                     /\ backends[s].descriptor = snap.descriptor

\* backend_snapshot_current: does not look at the relay.
Current(snap) ==
    \E s \in Slots : /\ backends[s].active
                     /\ backends[s].descriptor = snap.descriptor
                     /\ backends[s].daemon = snap.daemon

\* backend_snapshot_valid
Valid(snap) == snap.descriptor # None /\ alive[snap.daemon] /\ Current(snap)

-----------------------------------------------------------------------------
(* Session daemons. *)

UsedDescriptors == {conn[d].descriptor : d \in Daemons} \ {None}

\* register_backend: the user has a registration or no slot is free.
Refused(d) ==
    \/ SlotsOf(DaemonUid[d]) # {}
    \/ \A s \in Slots : backends[s].active

\* handle_backend_connection refuses the record, the descriptor passed with
\* it or the processes behind it.
Reject(d) ==
    /\ conn[d].pc = "new"
    /\ \E fd \in Descriptors \ UsedDescriptors :
           conn' = [conn EXCEPT ![d].pc = "left", ![d].descriptor = fd]
    /\ UNCHANGED <<backends, relay, alive, client>>

\* handle_backend_connection of a well-formed record from a trusted process.
\* Only KWin's sends a provider socket; ksd_kwin_relay_create may fail,
\* which leaves the registration without a relay.
Register(d) ==
    /\ conn[d].pc = "new"
    /\ \A e \in Daemons \ {d} : PidOf[e] = PidOf[d] =>
           conn[e].pc = "new" \/ ~alive[e]
    /\ \E fd \in Descriptors \ UsedDescriptors :
       LET free == {s \in Slots : ~backends[s].active} IN
          \/ /\ ~Refused(d)
             /\ \E r \in FreeRelays \cup {None} :
                  /\ r # None => BackendOf[d] = "KWIN"
                  /\ backends' = [backends EXCEPT ![Lowest(free)] =
                        [EmptyBackend EXCEPT !.active = TRUE,
                             !.descriptor = fd, !.daemon = d, !.relay = r]]
                  /\ relay' = IF r = None THEN relay
                              ELSE [relay EXCEPT ![r] = Created(d, None)]
             /\ conn' = [conn EXCEPT ![d].pc = "polling", ![d].descriptor = fd]
          \/ /\ Refused(d)
             /\ conn' = [conn EXCEPT ![d].pc = "left", ![d].descriptor = fd]
             /\ UNCHANGED <<backends, relay>>
    /\ UNCHANGED <<alive, client>>

\* send_backend_ack or the poll fails.
PollFails(d) ==
    /\ conn[d].pc = "polling"
    /\ conn' = [conn EXCEPT ![d].pc = "leaving"]
    /\ UNCHANGED <<backends, relay, alive, client>>

\* The poll of handle_backend_connection ends, with an event or without.
\* registered_backend: the snapshot.
Poll(d) ==
    /\ conn[d].pc = "polling"
    /\ LET snap == SnapshotOf(DaemonUid[d]) IN
       /\ conn' = [conn EXCEPT ![d].pc = "checking", ![d].snap = snap]
       /\ relay' = Acquired(relay, snap.relay)
    /\ UNCHANGED <<backends, alive, client>>

\* registered_backend: its answer.  The loop goes on if that is still this
\* backend and the poll saw no event; the daemon may hang up at any time.
PollDone(d) ==
    /\ conn[d].pc = "checking"
    /\ \E pc \in {"polling", "leaving"} :
         /\ pc = "polling" => Valid(conn[d].snap)
         /\ conn' = [conn EXCEPT ![d].snap = NoSnapshot, ![d].pc = pc]
    /\ relay' = Dropped(relay, conn[d].snap.relay)
    /\ UNCHANGED <<backends, alive, client>>

\* Every relay of a registration, retired.
RetiredAll(objects, b) ==
    [r \in Relays |->
        IF r = b.relay \/ \E l \in Lanes : b.display[l] = r
        THEN Retired(objects, r)[r] ELSE objects[r]]

\* unregister_backend
Unregister(d) ==
    /\ conn[d].pc = "leaving"
    /\ LET own == {s \in Slots : /\ backends[s].active
                                 /\ DaemonUid[backends[s].daemon]
                                        = DaemonUid[d]
                                 /\ backends[s].descriptor
                                        = conn[d].descriptor}
       IN IF own = {} THEN UNCHANGED <<backends, relay>>
          ELSE /\ relay' = RetiredAll(relay, backends[Lowest(own)])
               /\ backends' = [backends EXCEPT ![Lowest(own)] = EmptyBackend]
    /\ conn' = [conn EXCEPT ![d].pc = "left"]
    /\ UNCHANGED <<alive, client>>

\* The connection's thread closes the descriptor and ends.
Close(d) ==
    /\ conn[d].pc = "left"
    /\ conn' = [conn EXCEPT ![d].pc = "gone", ![d].descriptor = None]
    /\ UNCHANGED <<backends, relay, alive, client>>

\* The daemon process exits.  A descriptor it passed on may keep the
\* connection open, so that the authority sees no hangup.
Exit(d) ==
    /\ conn[d].pc # "new" /\ alive[d]
    /\ alive' = [alive EXCEPT ![d] = FALSE]
    /\ UNCHANGED <<backends, relay, conn, client>>

-----------------------------------------------------------------------------
(* Threads serving applications. *)

Goto(c, pc) == client' = [client EXCEPT ![c].pc = pc]

\* take_backend_snapshot, by execute_operation or by state_source_start.
Take(c) ==
    /\ client[c].pc = "idle"
    /\ LET snap == SnapshotOf(ClientUid[c]) IN
       /\ snap # NoSnapshot
       /\ client' = [client EXCEPT ![c].pc = "taken", ![c].snap = snap]
       /\ relay' = Acquired(relay, snap.relay)
    /\ UNCHANGED <<backends, conn, alive>>

\* execute_operation refuses the operation, or a state source ends.
Refuse(c) ==
    /\ client[c].pc = "taken"
    /\ Goto(c, "release")
    /\ UNCHANGED <<backends, relay, conn, alive>>

\* The backends an operation can take to a display worker, and how.
DisplayLanes(backend) ==
    IF backend \in {"X11", "GENERIC"} THEN Lanes ELSE Lanes \cap {0}

\* execute_operation admits the operation and routes it: to the daemon's
\* relay, to a display worker (on X11 perhaps with a look at the window
\* first), or to a one-shot worker or the session bus, which need no relay.
Admit(c) ==
    /\ client[c].pc = "taken"
    /\ Valid(client[c].snap)
    /\ LET backend == BackendOf[client[c].snap.daemon] IN
       \/ /\ backend = "KWIN" /\ client[c].snap.relay # None
          /\ Goto(c, "provider")
       \/ /\ backend \in {"KWIN", "SHELL"}
          /\ Goto(c, "final")
       \/ \E l \in DisplayLanes(backend), m \in {"observe", "main"} :
            /\ m = "observe" => backend = "X11" /\ l = 0
            /\ client' = [client EXCEPT ![c].pc = "lookup", ![c].mode = m,
                                        ![c].lane = l]
    /\ UNCHANGED <<backends, relay, conn, alive>>

\* A call on a relay: answered, unanswered or found broken.
CallOutcomes(r) ==
    {o \in [answered: BOOLEAN, broken: BOOLEAN] :
        /\ relay[r].broken => o.broken
        /\ o.broken => ~o.answered}

CallProvider(c) ==
    /\ client[c].pc = "provider"
    /\ LET r == client[c].snap.relay IN
       \E o \in CallOutcomes(r) :
         /\ client' = [client EXCEPT ![c].pc = "final",
                ![c].served = IF o.answered THEN relay[r].daemon ELSE None]
         /\ relay' = [relay EXCEPT ![r].broken = o.broken]
    /\ UNCHANGED <<backends, conn, alive>>

\* The thread when it is done with a display worker, or has none: from the
\* look at the window on to the operation, from the operation to the final
\* check, from x11_child_sync to the end.
Onward(t) ==
    [t EXCEPT !.pc = CASE t.mode = "observe" -> "lookup"
                       [] t.mode = "main" -> "final"
                       [] t.mode = "sync" -> "release",
              !.mode = IF @ = "observe" THEN "main" ELSE @,
              !.failed = FALSE, !.slot = None, !.registration = None,
              !.own = None, !.display = None]

\* display_relay_for up to its first unlock: a worker that is there serves
\* only the group it runs as.
Lookup(c) ==
    /\ client[c].pc = "lookup"
    /\ LET l == client[c].lane
           match == {s \in SlotsOf(ClientUid[c]) :
                       LET own == backends[s].daemon
                           taken == client[c].snap.daemon
                       IN /\ PidOf[own] = PidOf[taken]
                          /\ BackendOf[own] = BackendOf[taken]}
           s == Lowest(match)
           r == backends[s].display[l]
       IN \/ /\ match = {}
             /\ client' = [client EXCEPT ![c] = Onward(@)]
             /\ UNCHANGED relay
          \/ /\ match # {} /\ r = None
             /\ client' = [client EXCEPT ![c].pc = "spawn", ![c].slot = s,
                    ![c].registration = backends[s].daemon]
             /\ UNCHANGED relay
          \/ /\ match # {} /\ r # None
             /\ IF backends[s].displayGid[l] = ClientGid[c]
                THEN /\ client' = [client EXCEPT ![c].pc = "call",
                                                 ![c].display = r]
                     /\ relay' = Acquired(relay, r)
                ELSE /\ client' = [client EXCEPT ![c] = Onward(@)]
                     /\ UNCHANGED relay
    /\ UNCHANGED <<backends, conn, alive>>

\* ksd_capture_worker_spawn and ksd_kwin_relay_create, outside the lock.
Spawn(c) ==
    /\ client[c].pc = "spawn"
    /\ \/ \E r \in FreeRelays :
            /\ client' = [client EXCEPT ![c].pc = "install", ![c].own = r]
            /\ relay' = [relay EXCEPT ![r] =
                    Created(client[c].registration, ClientGid[c])]
       \/ /\ client' = [client EXCEPT ![c] = Onward(@)]
          /\ UNCHANGED relay
    /\ UNCHANGED <<backends, conn, alive>>

\* A mutant of Unmoved that accepts another daemon of the same user.
UnmovedUser(t, uid) ==
    /\ backends[t.slot].active
    /\ DaemonUid[backends[t.slot].daemon] = uid

\* The registration is still the one the worker was started for.
Unmoved(t, uid) ==
    /\ backends[t.slot].active
    /\ DaemonUid[backends[t.slot].daemon] = uid
    /\ backends[t.slot].daemon = t.registration

\* display_relay_for's second section: install the worker, or use the one
\* that another thread installed meanwhile, or give up.
Install(c) ==
    /\ client[c].pc = "install"
    /\ LET t == client[c]
           winner == backends[t.slot].display[t.lane]
           returned == [t EXCEPT !.slot = None, !.registration = None]
       IN \/ /\ ~Unmoved(t, ClientUid[c])
             /\ client' = [client EXCEPT ![c] = [returned EXCEPT !.pc = "retire"]]
             /\ UNCHANGED <<backends, relay>>
          \/ /\ Unmoved(t, ClientUid[c]) /\ winner # None
             /\ client' = [client EXCEPT ![c] =
                    [returned EXCEPT !.pc = "retire", !.display = winner]]
             /\ relay' = Acquired(relay, winner)
             /\ UNCHANGED backends
          \/ /\ Unmoved(t, ClientUid[c]) /\ winner = None
             /\ backends' = [backends EXCEPT
                    ![t.slot].display[t.lane] = t.own,
                    ![t.slot].displayGid[t.lane] = ClientGid[c]]
             /\ client' = [client EXCEPT ![c] =
                    [returned EXCEPT !.pc = "call", !.own = None, !.display = t.own]]
             /\ relay' = Acquired(relay, t.own)
    /\ UNCHANGED <<conn, alive>>

\* A mutant of Retire that retires the winner in place of the surplus.
RetireWinner(c) ==
    /\ client[c].pc = "retire"
    /\ LET t == client[c] IN
       /\ relay' = Retired(relay, IF t.display = None THEN t.own
                                  ELSE t.display)
       /\ client' = [client EXCEPT ![c] =
              IF t.display = None THEN Onward(t)
              ELSE [t EXCEPT !.own = None,
                        !.pc = IF t.display = t.own THEN "drop" ELSE "call"]]
    /\ UNCHANGED <<backends, conn, alive>>

\* ksd_kwin_relay_retire of the relay whose owner the thread is: its own
\* surplus worker, or the one it took out of a slot.
Retire(c) ==
    /\ client[c].pc = "retire"
    /\ LET t == client[c] IN
       /\ relay' = Retired(relay, t.own)
       /\ client' = [client EXCEPT ![c] =
              IF t.display = None THEN Onward(t)
              ELSE [t EXCEPT !.own = None,
                        !.pc = IF t.display = t.own THEN "drop" ELSE "call"]]
    /\ UNCHANGED <<backends, conn, alive>>

\* ksd_kwin_relay_call.  The answer to the operation itself is what will be
\* released, and only after it the thread asks what became of the relay; the
\* answers to the looks at the window before it tell whether it is a child.
Call(c) ==
    /\ client[c].pc = "call"
    /\ LET r == client[c].display IN
       \E o \in CallOutcomes(r) :
         /\ \E child \in BOOLEAN :
            /\ child => client[c].mode = "observe" /\ o.answered
            /\ client' = [client EXCEPT
                  ![c].pc = IF client[c].mode = "main" THEN "called" ELSE "keep",
                  ![c].failed = client[c].mode = "main" /\ o.broken,
                  ![c].child = @ \/ child,
                  ![c].served = IF client[c].mode = "main" /\ o.answered
                                THEN relay[r].daemon ELSE @]
         /\ relay' = [relay EXCEPT ![r].broken = o.broken]
    /\ UNCHANGED <<backends, conn, alive>>

\* ksd_kwin_relay_is_broken, a critical section of its own: the relay may
\* break before it, and again after it, at the hands of another thread.
AskBroken(c) ==
    /\ client[c].pc = "called"
    /\ Goto(c, IF relay[client[c].display].broken THEN "gone" ELSE "keep")
    /\ UNCHANGED <<backends, relay, conn, alive>>

\* Mutants of Forget: a dead worker stays; the thread releases its reference
\* first and then looks for the address.
ForgetNever(c) ==
    /\ client[c].pc = "gone"
    /\ Goto(c, "drop")
    /\ UNCHANGED <<backends, relay, conn, alive>>

ForgetReleased(c) ==
    /\ client[c].pc = "gone"
    /\ LET r == client[c].display
           held == {s \in SlotsOf(ClientUid[c]) :
                      \E l \in Lanes : backends[s].display[l] = r}
       IN \/ /\ client[c].own = None
             /\ relay' = Dropped(relay, r)
             /\ client' = [client EXCEPT ![c].own = r]
             /\ UNCHANGED backends
          \/ /\ client[c].own # None
             /\ client' = [client EXCEPT ![c] = Onward(@)]
             /\ IF held = {} THEN UNCHANGED <<backends, relay>>
                ELSE /\ backends' = [backends EXCEPT
                            ![Lowest(held)].display =
                      [l \in Lanes |-> IF @[l] = r THEN None ELSE @[l]]]
                     /\ relay' = Retired(relay, r)
    /\ UNCHANGED <<conn, alive>>

\* forget_display_relay up to its unlock: take the worker out of its slot.
Forget(c) ==
    /\ client[c].pc = "gone"
    /\ LET r == client[c].display
           held == {s \in SlotsOf(ClientUid[c]) :
                      \E l \in Lanes : backends[s].display[l] = r}
       IN IF held # {}
          THEN /\ backends' = [backends EXCEPT ![Lowest(held)].display =
                      [l \in Lanes |-> IF @[l] = r THEN None ELSE @[l]]]
               /\ client' = [client EXCEPT ![c].pc = "retire", ![c].own = r]
          ELSE /\ Goto(c, "drop")
               /\ UNCHANGED backends
    /\ UNCHANGED <<relay, conn, alive>>

\* ksd_kwin_relay_release of the thread's own reference to the worker.
Drop(c) ==
    /\ client[c].pc \in {"drop", "keep"}
    /\ relay' = Dropped(relay, client[c].display)
    /\ client' = [client EXCEPT ![c] = Onward(@)]
    /\ UNCHANGED <<backends, conn, alive>>

\* execute_operation's last check, and the second look at a child window.
Final(c) ==
    /\ client[c].pc = "final"
    /\ LET verdict == IF Current(client[c].snap) THEN "released"
                      ELSE "withheld"
           sync == verdict = "released" /\ client[c].child
                   /\ client[c].served # None
       IN client' = [client EXCEPT ![c].verdict = verdict,
              ![c].pc = IF sync THEN "lookup" ELSE "release",
              ![c].mode = IF sync THEN "sync" ELSE "main",
              ![c].lane = IF sync THEN @ ELSE None]
    /\ UNCHANGED <<backends, relay, conn, alive>>

\* release_backend_snapshot
Release(c) ==
    /\ client[c].pc = "release"
    /\ relay' = Dropped(relay, client[c].snap.relay)
    /\ client' = [client EXCEPT ![c] = IdleClient]
    /\ UNCHANGED <<backends, conn, alive>>

-----------------------------------------------------------------------------
ConnStep(d) ==
    PollFails(d) \/ Poll(d) \/ PollDone(d) \/ Unregister(d) \/ Close(d)

Step(c) ==
    \/ Refuse(c) \/ Admit(c) \/ CallProvider(c) \/ Lookup(c) \/ Spawn(c)
    \/ Install(c) \/ Retire(c) \/ Call(c) \/ AskBroken(c) \/ Forget(c)
    \/ Drop(c) \/ Final(c) \/ Release(c)

Next ==
    \/ \E d \in Daemons : Reject(d) \/ Register(d) \/ ConnStep(d) \/ Exit(d)
    \/ \E c \in Clients : Take(c) \/ Step(c)

Spec == Init /\ [][Next]_vars

-----------------------------------------------------------------------------
(* Properties. *)

\* Every variable has its type; in particular no count falls below zero.
TypeOK ==
    /\ backends \in [Slots -> BackendRecord]
    /\ relay \in [Relays -> RelayRecord]
    /\ conn \in [Daemons -> ConnRecord]
    /\ alive \in [Daemons -> BOOLEAN]
    /\ client \in [Clients -> ClientRecord]

SlotReferences(r) ==
    Cardinality({s \in Slots : backends[s].relay = r})
    + Cardinality({x \in Slots \X Lanes : backends[x[1]].display[x[2]] = r})

ThreadReferences(r) ==
    Cardinality({d \in Daemons : conn[d].snap.relay = r})
    + Cardinality({c \in Clients : client[c].snap.relay = r})
    + Cardinality({c \in Clients : client[c].display = r})
    + Cardinality({c \in Clients : client[c].own = r})

\* A relay's count is exactly the references that slots and threads hold,
\* through registrations that end under their users, workers started twice
\* for one slot and failures that several threads see at once: so none is
\* freed while a thread or a slot can still reach it and none is leaked
\* ("closed below rather than leaked", "dropped once, not once per
\* witness").
RefsExact ==
    /\ TypeOK
    /\ \A r \in Relays : relay[r].refs = SlotReferences(r) + ThreadReferences(r)

\* A display worker that a registration keeps was started for the session of
\* that registration's daemon, although it was started outside the lock and
\* another daemon of the user may have taken the slot meanwhile.
WorkersOfTheirSession ==
    \A s \in Slots, l \in Lanes :
        backends[s].display[l] # None =>
            relay[backends[s].display[l]].daemon = backends[s].daemon

\* A result is released only if it came from the session the operation was
\* admitted for, even when the daemon's process id and its descriptor's
\* number were given to the next daemon during the operation.
ReleasedFromAdmittedSession ==
    \A c \in Clients :
        client[c].verdict = "released" /\ client[c].served # None =>
            client[c].served = client[c].snap.daemon

\* Only a worker that failed is taken out of a registration that stays: a
\* thread that comes late with the same failure does not remove the worker
\* that replaced it, even at the same address.
OnlyFailedForgotten ==
    [][\A s \in Slots, l \in Lanes :
          /\ backends[s].active /\ backends'[s].active
          /\ backends[s].display[l] # None
          /\ backends'[s].display[l] # backends[s].display[l]
          => relay[backends[s].display[l]].broken]_vars

\* display_relay_for: "A worker is reusable only by a client with its
\* dropped credentials."
CredentialsMatch ==
    \A c \in Clients :
        client[c].pc = "call" =>
            relay[client[c].display].gid = ClientGid[c]

\* No operation leaves a dead worker behind whose death it met: once the call
\* that carries the operation has ended with the relay broken, the thread lets
\* go of that relay only when no registration holds it, whichever of the threads
\* that met the failure took it out ("stays registered for the life of the
\* registration, and every later request on that session pays a failed call").
\* The looks at the window before and after an operation do not ask, and a
\* relay that breaks after ksd_kwin_relay_is_broken is left to the thread whose
\* call broke it, or to the next operation.
DeadWorkerForgotten ==
    [][\A c \in Clients :
         LET r == client[c].display IN
         client[c].failed /\ client'[c].display # r
         => \A s \in Slots, l \in Lanes : backends'[s].display[l] # r]_vars
=============================================================================
