---------------------------- MODULE ShellSession ----------------------------
(***************************************************************************)
(* The session of one user: the environment of the systemd user manager,   *)
(* the shell (GNOME Shell or Cinnamon) with its extension, the session     *)
(* daemon that follows both and registers a backend                        *)
(* (src/src/session_backend.c, src/src/backend.c), and the authority's     *)
(* threads that serve a registration (handle_backend_connection of         *)
(* src/src/authorityd.c).                                                  *)
(*                                                                         *)
(* The daemon has no memory beyond one process: whatever it finds changed  *)
(* ends it, and systemd starts it again, up to StartLimitBurst times in    *)
(* one StartLimitIntervalSec (src/data/keysharp-desktop.service.in).       *)
(***************************************************************************)
EXTENDS Integers

CONSTANTS
    Environments,   \* what the user manager's environment may say
    Graphical,      \* the ones that name a WAYLAND_DISPLAY or a DISPLAY
    Desktop,        \* what session_facts make of each: SHELL, X11 or NONE
    Features,       \* the operations the display of each can serve
    Supported,      \* ksd_backend_operations, for each backend
    AtBoot,         \* the environment the user manager starts with
    Slots,          \* backend connections the authority serves at a time
    MaxAttempts,    \* KSD_BACKEND_STARTUP_ATTEMPTS
    Burst,          \* StartLimitBurst
    MaxChanges      \* bound on imports, starts, loads, kills and restarts

ASSUME EnvironmentsAssumption ==
    /\ Graphical \subseteq Environments
    /\ AtBoot \in Environments \ Graphical
    /\ Burst \in Nat \ {0}

VARIABLES
    manager,    \* the user manager's environment
    shell,      \* the shell's process and its extension
    daemon,     \* the session daemon
    handlers,   \* the authority's threads in handle_backend_connection
    reg,        \* the user's slot among the authority's backends
    changes     \* what the world has done so far

sessionVars == <<manager, shell, daemon, handlers, reg, changes>>

NoSlot == 0
NoProcess == 0

\* pid owns org.gnome.Shell or org.Cinnamon; name says that the extension owns
\* its own name and listens on provider-*.sock; epoch counts its loads.
NoShell == [pid |-> NoProcess, last |-> 0, name |-> FALSE, epoch |-> 0]

\* exec is exec_identity, which /proc/pid/environ shows for good; live is what
\* getenv says after setenv; starts counts systemd's starts of the unit in the
\* present StartLimitIntervalSec.  A unit that systemd has given up is "failed".
NoDaemon ==
    [pc |-> "gone", exec |-> AtBoot, live |-> AtBoot, attempts |-> 0,
     backend |-> "NONE", slot |-> NoSlot, starts |-> 0]

\* open: the far end of the connection is; alive: the process that made it is.
NoHandler ==
    [pc |-> "free", exec |-> AtBoot, backend |-> "NONE", operations |-> {},
     pid |-> NoProcess, open |-> FALSE, alive |-> FALSE]

NotRegistered ==
    [slot |-> NoSlot, exec |-> AtBoot, backend |-> "NONE", operations |-> {},
     pid |-> NoProcess]

\* What register_backend asks for: less than the backend can, by what
\* probe_generic_operations and probe_keyboard_keymap find missing.
Requested(backend, live) ==
    IF backend = "GENERIC" THEN Features[live]
    ELSE IF backend = "X11" THEN Supported[backend]
    ELSE Supported[backend] \ ({"keymap"} \ Features[live])

\* ksd_backend_registration_mask: the table is the ceiling.
Accepted(backend, requested) == requested \cap Supported[backend]

\* The record register_backend sends, as the thread that accepted it holds it.
Offer(exec, live, backend) ==
    [NoHandler EXCEPT
        !.pc = "check", !.open = TRUE, !.alive = TRUE, !.exec = exec,
        !.backend = backend, !.operations = Requested(backend, live)]

\* At boot, and once the extension of a shell serves the session e.
AtBootInit ==
    /\ manager = AtBoot
    /\ shell = NoShell
    /\ daemon = NoDaemon
    /\ handlers = [s \in Slots |-> NoHandler]
    /\ reg = NotRegistered

ServingInit(e) ==
    LET s == CHOOSE t \in Slots : TRUE
        offer == Offer(e, e, "SHELL")
        accepted == Accepted("SHELL", offer.operations)
    IN /\ manager = e
       /\ shell = [pid |-> 1, last |-> 1, name |-> TRUE, epoch |-> 1]
       /\ daemon = [NoDaemon EXCEPT !.pc = "serve", !.exec = e, !.live = e,
                                    !.backend = "SHELL", !.slot = s,
                                    !.starts = 1]
       /\ handlers = [[t \in Slots |-> NoHandler] EXCEPT ![s] =
              [offer EXCEPT !.pc = "poll", !.pid = 1, !.operations = accepted]]
       /\ reg = [slot |-> s, exec |-> e, backend |-> "SHELL",
                 operations |-> accepted, pid |-> 1]

SessionInit ==
    /\ \/ AtBootInit
       \/ \E e \in Graphical : Desktop[e] = "SHELL" /\ ServingInit(e)
    /\ changes = 0

-----------------------------------------------------------------------------
(* The world: the user manager, the shell and its extension. *)

Change == changes < MaxChanges /\ changes' = changes + 1

\* A session imports its environment, or the manager is left without one.
Import(e) ==
    /\ e # manager /\ manager' = e
    /\ Change
    /\ UNCHANGED <<shell, daemon, handlers, reg>>

ShellStarts ==
    /\ shell.pid = NoProcess
    /\ shell' = [shell EXCEPT !.pid = shell.last + 1, !.last = @ + 1]
    /\ Change
    /\ UNCHANGED <<manager, daemon, handlers, reg>>

ShellDies ==
    /\ shell.pid # NoProcess
    /\ shell' = [shell EXCEPT !.pid = NoProcess, !.name = FALSE]
    /\ UNCHANGED <<manager, daemon, handlers, reg, changes>>

ExtensionLoads ==
    /\ shell.pid # NoProcess /\ ~shell.name
    /\ shell' = [shell EXCEPT !.name = TRUE, !.epoch = @ + 1]
    /\ Change
    /\ UNCHANGED <<manager, daemon, handlers, reg>>

ExtensionUnloads ==
    /\ shell.name
    /\ shell' = [shell EXCEPT !.name = FALSE]
    /\ UNCHANGED <<manager, daemon, handlers, reg, changes>>

-----------------------------------------------------------------------------
(* The session daemon. *)

\* ksd_backend_apply_session_environment: a block without a display is not news.
Refreshed(live) == IF manager \in Graphical THEN manager ELSE live

\* The session bus: does the extension have its name, and which process has
\* the shell's.
NameHasOwner == shell.name
ProviderPid == shell.pid

\* ksd_backend_resolve
Resolve(live) ==
    IF Desktop[live] = "X11" THEN "X11"
    ELSE IF NameHasOwner THEN "SHELL" ELSE "NONE"

\* return 1 of ksd_daemon_main, or a kill: the kernel closes the process's end
\* of the connection, and with it the connection, unless another process of the
\* user holds a copy of the descriptor.
Gone == [NoDaemon EXCEPT !.starts = daemon.starts]

DaemonEnds(held) ==
    /\ daemon' = Gone
    /\ handlers' = [s \in Slots |->
           IF s = daemon.slot
           THEN [handlers[s] EXCEPT !.alive = FALSE, !.open = held]
           ELSE handlers[s]]
DaemonExits == DaemonEnds(FALSE)

\* systemd: a new process with the manager's environment.
Launched == [NoDaemon EXCEPT !.pc = "start", !.exec = manager,
                             !.live = manager, !.starts = daemon.starts + 1]

\* Restart=on-failure, after RestartSec, within the limit.
Launch ==
    /\ daemon.pc = "gone" /\ daemon.starts < Burst
    /\ daemon' = Launched
    /\ UNCHANGED <<manager, shell, handlers, reg, changes>>

\* The limit is hit: systemd restarts the unit no more.
GiveUp ==
    /\ daemon.pc = "gone" /\ daemon.starts = Burst
    /\ daemon' = [daemon EXCEPT !.pc = "failed"]
    /\ UNCHANGED <<manager, shell, handlers, reg, changes>>

\* The starts counted so far are StartLimitIntervalSec old.  Nothing looks at
\* the count while the process runs.
IntervalPasses ==
    /\ daemon.pc \in {"gone", "failed"} /\ daemon.starts > 0
    /\ daemon' = [daemon EXCEPT !.starts = 0]
    /\ UNCHANGED <<manager, shell, handlers, reg, changes>>

\* systemctl --user restart, or graphical-session.target of the next login.
StartedAgain ==
    /\ daemon.pc = "failed" /\ daemon.starts < Burst
    /\ Change
    /\ daemon' = Launched
    /\ UNCHANGED <<manager, shell, handlers, reg>>

\* keep_exec_identity and the first refresh.
Start ==
    /\ daemon.pc = "start"
    /\ daemon' = [daemon EXCEPT
           !.pc = IF daemon.exec \in Graphical THEN "resolve" ELSE "wait",
           !.live = Refreshed(@)]
    /\ UNCHANGED <<manager, shell, handlers, reg, changes>>

\* One turn of the loop that waits for a graphical session: an import ends the
\* process, a shell provider ends the wait.
Wait ==
    /\ daemon.pc = "wait"
    /\ \/ manager \in Graphical /\ DaemonExits
       \/ /\ manager \notin Graphical
          /\ Resolve(daemon.live) # "NONE"
          /\ daemon' = [daemon EXCEPT !.pc = "resolve"]
          /\ UNCHANGED handlers
    /\ UNCHANGED <<manager, shell, reg, changes>>

\* One turn of the loop that looks for a provider.
Find ==
    /\ daemon.pc = "resolve"
    /\ \/ daemon.live # daemon.exec /\ DaemonExits
       \/ /\ daemon.live = daemon.exec
          /\ LET found == Resolve(daemon.live)
                 giveUp == \/ Desktop[daemon.live] = "NONE"
                           \/ daemon.attempts >= MaxAttempts
             IN daemon' =
                   IF found = "NONE" /\ ~giveUp
                   THEN [daemon EXCEPT !.pc = "sleep", !.attempts = @ + 1]
                   ELSE [daemon EXCEPT
                            !.pc = "connect",
                            !.backend = IF found = "NONE" THEN "GENERIC"
                                        ELSE found]
          /\ UNCHANGED handlers
    /\ UNCHANGED <<manager, shell, reg, changes>>

Retry ==
    /\ daemon.pc = "sleep"
    /\ daemon' = [daemon EXCEPT !.pc = "resolve", !.live = Refreshed(@)]
    /\ UNCHANGED <<manager, shell, handlers, reg, changes>>

\* connect_backend, and the record of register_backend.
Connect ==
    /\ daemon.pc = "connect"
    /\ \E s \in Slots :
          /\ handlers[s].pc = "free"
          /\ \A t \in Slots : t < s => handlers[t].pc # "free"
          /\ daemon' = [daemon EXCEPT !.pc = "register", !.slot = s]
          /\ handlers' = [handlers EXCEPT ![s] =
                 Offer(daemon.exec, daemon.live, daemon.backend)]
    /\ UNCHANGED <<manager, shell, reg, changes>>

\* A mutant of Current that resolves /proc/self/environ.
CurrentSnapshot ==
    Resolve(daemon.exec)
        = (IF daemon.backend = "GENERIC" THEN "NONE" ELSE daemon.backend)

\* backend_is_current
Current ==
    LET live == Refreshed(daemon.live)
        now == Resolve(live)
    IN /\ live = daemon.exec
       /\ now = (IF daemon.backend = "GENERIC" THEN "NONE" ELSE daemon.backend)

\* The two seconds of the poll have passed.
Recheck ==
    /\ daemon.pc = "serve" /\ daemon.slot # NoSlot
    /\ ~Current /\ DaemonExits
    /\ UNCHANGED <<manager, shell, reg, changes>>

\* The authority's end of the connection is closed.
SeeHangup ==
    /\ daemon.pc \in {"register", "serve"} /\ daemon.slot = NoSlot
    /\ DaemonExits
    /\ UNCHANGED <<manager, shell, reg, changes>>

\* The process cannot connect, waits in vain for its registration to be
\* answered, or is killed.
DaemonFails ==
    /\ daemon.pc \notin {"gone", "failed"} /\ Change
    /\ \E held \in BOOLEAN : DaemonEnds(held)
    /\ UNCHANGED <<manager, shell, reg>>

-----------------------------------------------------------------------------
(* The authority's thread for one backend connection. *)

\* The thread returns and its connection is closed; a daemon that still waits
\* reads KSD_BACKEND_ACK_REJECTED and ends.
Reject(s) ==
    /\ handlers' = [handlers EXCEPT ![s] = NoHandler]
    /\ daemon' = IF handlers[s].alive THEN Gone ELSE daemon
    /\ UNCHANGED <<manager, shell, reg, changes>>

\* trusted_backend_peer: a live process of this program, and the desktop that
\* its initial environment names is the one it registers.
TrustedPeer(h) ==
    /\ h.alive
    /\ h.backend = "GENERIC" \/ Desktop[h.exec] = h.backend

\* The registration record is received, narrowed and checked.
CheckPeer(s) ==
    LET h == handlers[s]
    IN /\ h.pc = "check"
       /\ \/ ~TrustedPeer(h) /\ Reject(s)
          \/ /\ TrustedPeer(h)
             /\ handlers' = [handlers EXCEPT
                    ![s].pc = IF h.backend = "SHELL" THEN "query" ELSE "store",
                    ![s].operations = Accepted(h.backend, @)]
             /\ UNCHANGED <<manager, shell, daemon, reg, changes>>

\* query_provider_pid, a helper process, and trusted_provider_process.
QueryProvider(s) ==
    /\ handlers[s].pc = "query"
    /\ \/ ProviderPid = NoProcess /\ Reject(s)
       \/ /\ ProviderPid # NoProcess
          /\ handlers' = [handlers EXCEPT ![s].pc = "store",
                                          ![s].pid = ProviderPid]
          /\ UNCHANGED <<manager, shell, daemon, reg, changes>>

\* register_backend: one registration for each user.
Store(s) ==
    /\ handlers[s].pc = "store"
    /\ \/ reg # NotRegistered /\ Reject(s)
       \/ /\ reg = NotRegistered
          /\ reg' = [slot |-> s, exec |-> handlers[s].exec,
                     backend |-> handlers[s].backend,
                     operations |-> handlers[s].operations,
                     pid |-> handlers[s].pid]
          /\ handlers' = [handlers EXCEPT ![s].pc = "ack"]
          /\ UNCHANGED <<manager, shell, daemon, changes>>

\* unregister_backend
Unregister(s) ==
    /\ reg' = IF reg.slot = s THEN NotRegistered ELSE reg
    /\ handlers' = [handlers EXCEPT ![s] = NoHandler]

\* send_backend_ack, and ksd_backend_ack_parse in the daemon: an authority
\* that widens the mask is not believed.  Whoever holds the far end, the
\* acknowledgement is written.
Acknowledge(s) ==
    LET h == handlers[s]
    IN /\ h.pc = "ack"
       /\ \/ ~h.open /\ Unregister(s) /\ UNCHANGED daemon
          \/ /\ h.open
             /\ h.alive =>
                   reg.operations \subseteq Requested(h.backend, daemon.live)
             /\ handlers' = [handlers EXCEPT ![s].pc = "poll"]
             /\ daemon' = IF h.alive THEN [daemon EXCEPT !.pc = "serve"]
                          ELSE daemon
             /\ UNCHANGED reg
    /\ UNCHANGED <<manager, shell, changes>>

\* registered_backend: the registration, if the process that made it lives.
RegisteredBackend ==
    IF reg # NotRegistered /\ handlers[reg.slot].alive THEN reg.backend
    ELSE "NONE"

\* A mutant of PollDaemon that waits for the hangup alone.
PollDaemonHangup(s) ==
    /\ handlers[s].pc = "poll" /\ ~handlers[s].open
    /\ Unregister(s)
    /\ UNCHANGED <<manager, shell, daemon, changes>>

\* One turn of the loop that polls the daemon.
PollDaemon(s) ==
    /\ handlers[s].pc = "poll"
    /\ ~handlers[s].open \/ RegisteredBackend # handlers[s].backend
    /\ Unregister(s)
    /\ UNCHANGED <<manager, shell, daemon, changes>>

\* The authority is restarted: its threads and its table are gone.
AuthorityRestarts ==
    /\ Change
    /\ handlers' = [s \in Slots |-> NoHandler]
    /\ reg' = NotRegistered
    /\ daemon' = [daemon EXCEPT !.slot = NoSlot]
    /\ UNCHANGED <<manager, shell>>

-----------------------------------------------------------------------------
World ==
    \/ \E e \in Environments : Import(e)
    \/ ShellStarts
    \/ ShellDies
    \/ ExtensionLoads
    \/ ExtensionUnloads
    \/ IntervalPasses
    \/ StartedAgain

DaemonStep ==
    \/ Launch
    \/ GiveUp
    \/ Start
    \/ Wait
    \/ Find
    \/ Retry
    \/ Connect
    \/ Recheck
    \/ SeeHangup

HandlerStep(s) ==
    \/ CheckPeer(s)
    \/ QueryProvider(s)
    \/ Store(s)
    \/ Acknowledge(s)
    \/ PollDaemon(s)

SessionStep ==
    \/ World
    \/ DaemonStep
    \/ DaemonFails
    \/ \E s \in Slots : HandlerStep(s)
=============================================================================
