--------------------------- MODULE ProviderCalls ---------------------------
(***************************************************************************)
(* The authority's calls to the shell extension (src/src/provider.c): one  *)
(* cached peer-to-peer D-Bus connection for the user, which threads look   *)
(* up, open, share, and drop when it is closed, while the registration     *)
(* they took the provider's pid from (ShellSession) comes and goes.        *)
(***************************************************************************)
EXTENDS ShellSession, FiniteSets

CONSTANTS
    Callers,        \* threads of the authority that call the extension
    Connections     \* GDBusConnection objects

VARIABLES
    entry,      \* the provider_connection of this user and backend
    conns,      \* the connection objects: peer, epoch and references
    callers     \* what each thread is doing

providerVars == <<entry, conns, callers>>
vars == <<sessionVars, providerVars>>

NoConn == 0

ASSUME CallersFinite == IsFiniteSet(Callers)
ASSUME ConnectionsAssumption == Connections = 1..(Cardinality(Callers) + 1)

NoEntry == [pid |-> NoProcess, conn |-> NoConn]
Unused == [peer |-> NoProcess, epoch |-> 0, refs |-> 0]

\* conn is the reference provider_connection_get returned.  A watch is a call
\* that lasts; the list of windows it asks for first is another caller's call.
Idle == [pc |-> "idle", pid |-> NoProcess, conn |-> NoConn]

ProviderInit ==
    /\ entry = NoEntry
    /\ conns = [k \in Connections |-> Unused]
    /\ callers = [c \in Callers |-> Idle]

Init == SessionInit /\ ProviderInit

\* The extension that accepted the connection still listens.
Open(k) == shell.name /\ conns[k].epoch = shell.epoch

\* g_dbus_connection_is_closed: a connection that has just been closed may not
\* look closed yet.
LooksClosed(k) == {FALSE} \cup {k # NoConn /\ ~Open(k)}

\* g_object_ref, g_object_unref; the last reference closes and frees.
Ref(table, k) == [table EXCEPT ![k].refs = @ + 1]
Unref(table, k) ==
    IF k = NoConn THEN table
    ELSE IF table[k].refs = 1 THEN [table EXCEPT ![k] = Unused]
    ELSE [table EXCEPT ![k].refs = @ - 1]

\* A mutant of Invalidate that drops the cache's reference unasked.
InvalidateUnasked(k, table) ==
    /\ entry' = [entry EXCEPT !.conn = IF @ = k THEN NoConn ELSE @]
    /\ conns' = Unref(Unref(table, k), k)

\* provider_connection_invalidate: only the connection that is cached.
Invalidate(k, table) ==
    IF entry.conn = k
    THEN /\ entry' = [entry EXCEPT !.conn = NoConn]
         /\ conns' = Unref(Unref(table, k), k)
    ELSE /\ entry' = entry
         /\ conns' = Unref(table, k)

-----------------------------------------------------------------------------
Return(c) == callers' = [callers EXCEPT ![c] = Idle]

\* backend_snapshot_provider_valid: the process the registration names lives.
ProviderValid == reg.pid # NoProcess /\ reg.pid = shell.pid

\* An operation or a watch of the SHELL backend.
Begin(c) ==
    /\ callers[c].pc = "idle"
    /\ RegisteredBackend = "SHELL" /\ ProviderValid
    /\ callers' = [callers EXCEPT ![c].pc = "get", ![c].pid = reg.pid]
    /\ UNCHANGED <<entry, conns>>

\* provider_connection_get, the first critical section.
Lookup(c) ==
    /\ callers[c].pc = "get"
    /\ \E closed \in LooksClosed(entry.conn) :
          LET kept == /\ entry.conn # NoConn
                      /\ entry.pid = callers[c].pid
                      /\ ~closed
          IN /\ conns' = IF kept THEN Ref(conns, entry.conn)
                         ELSE Unref(conns, entry.conn)
             /\ entry' = IF kept \/ entry = NoEntry THEN entry
                         ELSE [pid |-> callers[c].pid, conn |-> NoConn]
             /\ callers' = [callers EXCEPT
                    ![c].pc = IF kept THEN "validate" ELSE "open",
                    ![c].conn = IF kept THEN entry.conn ELSE NoConn]

\* provider_peer_valid on a cached connection.
Validate(c) ==
    LET k == callers[c].conn
        valid == conns[k].peer = callers[c].pid /\ conns[k].peer = shell.pid
    IN /\ callers[c].pc = "validate"
       /\ \/ /\ valid
             /\ callers' = [callers EXCEPT ![c].pc = "call"]
             /\ UNCHANGED <<entry, conns>>
          \/ ~valid /\ Invalidate(k, conns) /\ Return(c)

\* provider_connection_open: the far end must be the process the registration
\* names.
OpenConnection(c) ==
    /\ callers[c].pc = "open"
    /\ shell.name /\ shell.pid = callers[c].pid
    /\ LET k == CHOOSE n \in Connections : conns[n].refs = 0
       IN /\ conns' = [conns EXCEPT ![k] =
                 [peer |-> shell.pid, epoch |-> shell.epoch, refs |-> 1]]
          /\ callers' = [callers EXCEPT ![c].pc = "insert", ![c].conn = k]
    /\ UNCHANGED entry

\* The deadline's thread cancels it, cannot be started, or nobody listens.
OpenFails(c) ==
    /\ callers[c].pc = "open"
    /\ Return(c)
    /\ UNCHANGED <<entry, conns>>

\* A mutant of Insert that trusts the entry it finds.
InsertUnchecked(c) ==
    LET own == callers[c].conn
        cached == IF entry.conn = NoConn THEN own ELSE entry.conn
        table == Ref(conns, cached)
    IN /\ callers[c].pc = "insert"
       /\ entry' = [pid |-> IF entry = NoEntry THEN callers[c].pid
                            ELSE entry.pid, conn |-> cached]
       /\ conns' = IF cached = own THEN table ELSE Unref(table, own)
       /\ callers' = [callers EXCEPT ![c].pc = "call", ![c].conn = cached]

\* provider_connection_get, the second critical section.
Insert(c) ==
    LET own == callers[c].conn
    IN /\ callers[c].pc = "insert"
       /\ \/ /\ entry # NoEntry /\ entry.pid # callers[c].pid
             /\ conns' = Unref(conns, own)
             /\ Return(c)
             /\ UNCHANGED entry
          \/ /\ entry = NoEntry \/ entry.pid = callers[c].pid
             /\ LET cached == IF entry.conn = NoConn THEN own ELSE entry.conn
                    table == Ref(conns, cached)
                IN /\ entry' = [pid |-> callers[c].pid, conn |-> cached]
                   /\ conns' = IF cached = own THEN table
                               ELSE Unref(table, own)
                   /\ callers' = [callers EXCEPT ![c].pc = "call",
                                                 ![c].conn = cached]

\* A thread gives its reference back, and with it the cache's when it finds
\* the connection closed.
LetGo(c, closed) ==
    /\ IF closed THEN Invalidate(callers[c].conn, conns)
       ELSE conns' = Unref(conns, callers[c].conn) /\ UNCHANGED entry
    /\ Return(c)

\* provider_call returns; only a call without an answer looks.
CallEnds(c) ==
    /\ callers[c].pc = "call"
    /\ \E answered \in BOOLEAN, closed \in LooksClosed(callers[c].conn) :
          LetGo(c, ~answered /\ closed)

\* ksd_provider_watch ends: cancelled, refused by its consumer, or closed.
WatchEnds(c) ==
    /\ callers[c].pc = "call"
    /\ \E closed \in LooksClosed(callers[c].conn) : LetGo(c, closed)

CallerStep(c) ==
    /\ \/ Begin(c)
       \/ Lookup(c)
       \/ Validate(c)
       \/ OpenConnection(c)
       \/ OpenFails(c)
       \/ Insert(c)
       \/ CallEnds(c)
       \/ WatchEnds(c)
    /\ UNCHANGED sessionVars

\* The cache and the threads go with the authority's process.
CacheIsLost ==
    /\ entry' = NoEntry
    /\ conns' = [k \in Connections |-> Unused]
    /\ callers' = [c \in Callers |-> Idle]

Next ==
    \/ SessionStep /\ UNCHANGED providerVars
    \/ AuthorityRestarts /\ CacheIsLost
    \/ \E c \in Callers : CallerStep(c)

Spec == Init /\ [][Next]_vars

\* systemd restarts the daemon or gives it up, the daemon keeps rechecking, and
\* the authority schedules its threads; the world, time and the callers owe
\* nothing.
FairSpec ==
    /\ Spec
    /\ WF_vars(DaemonStep /\ UNCHANGED providerVars)
    /\ \A s \in Slots : WF_vars(HandlerStep(s) /\ UNCHANGED providerVars)

-----------------------------------------------------------------------------
\* Who refers to a connection: the cache, and each thread that has it.
Holders(k) ==
    (IF entry.conn = k THEN 1 ELSE 0)
        + Cardinality({c \in Callers : callers[c].conn = k})

(***************************************************************************)
(* Whatever order threads look up, open, share, invalidate and finish in,  *)
(* each connection has exactly one reference for everyone who still uses   *)
(* it: none is freed under a call or a watch, and none outlives its last   *)
(* user (provider_connection_get and provider_connection_invalidate).      *)
(***************************************************************************)
ConnectionsCounted == \A k \in Connections : conns[k].refs = Holders(k)

(***************************************************************************)
(* An operation admitted for one shell process never reaches another: the  *)
(* connection a thread calls on is one whose peer was the process of the   *)
(* thread's own registration, even if the cache has moved to a newer       *)
(* registration since (the second check of provider_connection_get).       *)
(***************************************************************************)
CallsReachAdmittedShell ==
    \A c \in Callers :
        callers[c].pc = "call" => conns[callers[c].conn].peer = callers[c].pid

\* The running daemon's registration for the session the manager names now,
\* with the backend that serves it.
Settled ==
    /\ daemon.pc = "serve" /\ reg.slot # NoSlot /\ reg.slot = daemon.slot
    /\ reg.exec = manager
    /\ reg.backend = (IF Desktop[manager] = "X11" THEN "X11"
                      ELSE IF shell.name THEN "SHELL" ELSE "GENERIC")
    /\ reg.operations = Accepted(reg.backend, Requested(reg.backend, manager))

(***************************************************************************)
(* Once logins, shells, extensions, kills, timeouts and restarts of the    *)
(* authority stop, the authority ends up with one registration: that of    *)
(* the daemon that runs, which was started into the session the manager    *)
(* names, for the backend that serves it, upgraded if a provider appeared  *)
(* later (the recheck loop of ksd_daemon_main, and the loop of             *)
(* handle_backend_connection that lets a dead daemon's registration go).   *)
(* Exempt are a unit that systemd gave up because Burst starts followed    *)
(* each other too fast (kills, or registrations refused one after the      *)
(* other), and a shell provider in a session whose environment does not    *)
(* name that shell, which the authority refuses for as long as it lasts.   *)
(***************************************************************************)
Settles ==
    <>[](/\ manager \in Graphical
         /\ shell.name => Desktop[manager] # "NONE"
         /\ daemon.pc # "failed"
         => Settled)

(***************************************************************************)
(* "It re-checks the compositor while registered and restarts its backend  *)
(* when the provider or desktop changes" (docs/integrating.md:209): once   *)
(* all is quiet, a registered shell backend names the shell that runs.     *)
(***************************************************************************)
ProviderFollows ==
    <>[](reg.backend = "SHELL" /\ shell.name => reg.pid = shell.pid)
=============================================================================
