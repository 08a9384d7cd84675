------------------------------ MODULE LeaseAuth ------------------------------
(***************************************************************************)
(* Authorization in the authority daemon (src/src/authorityd.c).           *)
(*                                                                         *)
(* A client opens one AUTHORIZATION_LEASE connection, which may prompt the *)
(* user for scopes, and then RPC connections that bind to that lease.      *)
(* Every connection has its own worker thread.  The lease caches the       *)
(* scopes the shared permission store grants to its executable, together   *)
(* with the UID generation at which they were read; a revocation advances  *)
(* the generation, and a thread reloads the cache only when it sees the    *)
(* generation move.  An operation checks its scope before the work and     *)
(* again, against the generation it started from, before it releases the   *)
(* result.                                                                 *)
(*                                                                         *)
(* The store, the prompt and process identities belong to the external     *)
(* library keysharp-permissions and are modelled from how authorityd.c     *)
(* uses them.  A step is one critical section: between two steps any       *)
(* thread, the other authority that shares the store, or the user may act. *)
(***************************************************************************)
EXTENDS Integers, FiniteSets

CONSTANTS
    Leases,         \* lease connections (each owns at most one lease)
    Rpcs,           \* RPC connections
    Keys,           \* grant keys: one executable identity of one user
    Uids,           \* users
    KeyOf,          \* the grant key of the process behind a lease
    UidOf,          \* the user of a grant key
    Scopes,         \* the permission scopes the authority accepts
    Monitored,      \* the scopes that gate a state domain (windows, clipboard)
    WindowControl,  \* the scope of the operations that mutate windows
    NoScope,        \* the scope of a scope-free operation
    NoLease,        \* an RPC connection that is bound to nothing
    MaxGen          \* bound on the UID generations

ASSUME ConstantsOK ==
    /\ KeyOf \in [Leases -> Keys]
    /\ UidOf \in [Keys -> Uids]
    /\ Monitored \subseteq Scopes
    /\ WindowControl \in Scopes
    /\ NoScope \notin Scopes
    /\ NoLease \notin Leases
    /\ MaxGen \in Nat

ASSUME RpcsFinite == IsFiniteSet(Rpcs)

VARIABLES
    grants,      \* store: the scopes granted to each key
    generation,  \* store: the generation of each user
    trusted,     \* does the lease's process still have the captured identity
    lease,       \* the authority_lease objects
    conn,        \* the threads of the lease connections, with their sessions
    rpc,         \* the threads of the RPC connections
    told,        \* the grants each lease client was last told of
    withdrawn,   \* scopes revoked from the key since the lease's prompt opened
    interrupted  \* has the generation moved since this operation was admitted

vars == <<grants, generation, trusted, lease, conn, rpc, told, withdrawn,
          interrupted>>
storeVars == <<grants, generation, withdrawn, interrupted>>

-----------------------------------------------------------------------------
(* State *)

LeaseRecord ==
    [active: BOOLEAN, requested: SUBSET Scopes, granted: SUBSET Scopes,
     generation: Nat, domains: SUBSET Scopes, refs: Int]

NoLeaseRecord ==
    [active |-> FALSE, requested |-> {}, granted |-> {}, generation |-> 0,
     domains |-> {}, refs |-> 0]

\* check .. recheck are the stages of authorize_scopes; finish has its status.
ConnStages == {"closed", "check", "lock", "prompt", "approved", "recheck",
               "finish", "idle", "subscribe", "closing"}
Prompting == {"prompt", "approved", "recheck"}
Statuses == {"OK", "REVOKED", "OTHER"}

ConnRecord ==
    [pc: ConnStages, requested: SUBSET Scopes, granted: SUBSET Scopes,
     generation: Nat, wanted: SUBSET Scopes, status: Statuses,
     source: BOOLEAN]

NoConn ==
    [pc |-> "closed", requested |-> {}, granted |-> {}, generation |-> 0,
     wanted |-> {}, status |-> "OTHER", source |-> FALSE]

RpcStages == {"closed", "bound", "idle", "running", "syncing", "respond",
              "revoked"}
Verdicts == {"none", "result", "withheld"}

RpcRecord ==
    [pc: RpcStages, lease: Leases \cup {NoLease},
     scope: Scopes \cup {NoScope}, before: Nat, verdict: Verdicts]

NoRpc ==
    [pc |-> "closed", lease |-> NoLease, scope |-> NoScope, before |-> 0,
     verdict |-> "none"]

\* The user whose generation the lease follows.
Uid(l) == UidOf[KeyOf[l]]

Init ==
    /\ grants \in [Keys -> SUBSET Scopes]
    /\ generation = [u \in Uids |-> 0]
    /\ trusted = [l \in Leases |-> TRUE]
    /\ lease = [l \in Leases |-> NoLeaseRecord]
    /\ conn = [l \in Leases |-> NoConn]
    /\ rpc = [r \in Rpcs |-> NoRpc]
    /\ told = [l \in Leases |-> {}]
    /\ withdrawn = [l \in Leases |-> {}]
    /\ interrupted = [r \in Rpcs |-> FALSE]

-----------------------------------------------------------------------------
(* The shared permission store *)

\* An operation that is between its admission and its final check notices
\* (or must notice) that the generation of its user moved.
Interrupt(uid) ==
    interrupted' = [r \in Rpcs |->
        interrupted[r] \/ ( /\ rpc[r].pc = "running"
                            /\ rpc[r].scope # NoScope
                            /\ Uid(rpc[r].lease) = uid )]

\* ksp_store_revoke for one key, ksp_store_revoke_uid for every key of a user.
StoreRevoke(uid, targets, scopes) ==
    /\ generation[uid] < MaxGen
    /\ grants' = [k \in Keys |->
                    IF k \in targets THEN grants[k] \ scopes ELSE grants[k]]
    /\ generation' = [generation EXCEPT ![uid] = @ + 1]
    /\ withdrawn' = [l \in Leases |->
                       IF KeyOf[l] \in targets /\ conn[l].pc \in Prompting
                       THEN withdrawn[l] \cup scopes ELSE withdrawn[l]]
    /\ Interrupt(uid)

\* A marker is added.  Whether that also advances the generation is the
\* library's choice; both are allowed here.
StoreGrant(key, scopes) ==
    /\ grants' = [grants EXCEPT ![key] = @ \cup scopes]
    /\ \/ UNCHANGED <<generation, interrupted>>
       \/ /\ generation[UidOf[key]] < MaxGen
          /\ generation' = [generation EXCEPT ![UidOf[key]] = @ + 1]
          /\ Interrupt(UidOf[key])
    /\ UNCHANGED withdrawn

KeysOf(uid) == {k \in Keys : UidOf[k] = uid}

\* Another authority that shares the store, or a second daemon, changes it.
OtherAuthority ==
    /\ \/ \E k \in Keys, s \in Scopes : StoreRevoke(UidOf[k], {k}, {s})
       \/ \E k \in Keys : \E s \in Scopes \ grants[k] : StoreGrant(k, {s})
    /\ UNCHANGED <<trusted, lease, conn, rpc, told>>

\* The client's process exits or executes another program.
IdentityLost(l) ==
    /\ trusted[l]
    /\ trusted' = [trusted EXCEPT ![l] = FALSE]
    /\ UNCHANGED <<grants, generation, lease, conn, rpc, told, withdrawn,
                   interrupted>>

-----------------------------------------------------------------------------
(* session_refresh, with the lease's mutex held throughout *)

\* Mutant: the refresh adopts a new generation without reloading the scopes.
RefreshTrustsCache(l, force) ==
    LET usable == lease[l].active /\ (force => trusted[l])
    IN  {[ok |-> usable, granted |-> IF usable THEN lease[l].granted ELSE {},
          generation |-> generation[Uid(l)]]}

\* What the refresh can conclude from the store: an unreadable generation or a
\* dead lease; a changed identity or a failed reload; an unchanged generation
\* (or nothing requested), which keeps the cached scopes; a reload.
RefreshOutcomes(l, force) ==
    LET L == lease[l]
        now == generation[Uid(l)]
        usable == L.active /\ (force => trusted[l])
        reload == now # L.generation /\ L.requested # {}
    IN  {[ok |-> FALSE, granted |-> {}, generation |-> L.generation]}
        \cup (IF L.active
              THEN {[ok |-> FALSE, granted |-> {}, generation |-> now]}
              ELSE {})
        \cup (IF usable /\ ~reload
              THEN {[ok |-> TRUE, granted |-> L.granted, generation |-> now]}
              ELSE {})
        \cup (IF usable /\ reload
              THEN {[ok |-> TRUE, granted |-> grants[KeyOf[l]] \cap L.requested,
                     generation |-> now]}
              ELSE {})

\* The generation_changed result: this refresh saw the lease's generation move.
GenerationChanged(l, o) == o.generation # lease[l].generation

\* Mutant: only a gained scope is announced.
AnnouncesGains(l, o, notify) == notify /\ ~(o.granted \subseteq lease[l].granted)

\* GRANT_CHANGED is due when the cached scopes differ and the caller notifies.
Announces(l, o, notify) == notify /\ o.granted # lease[l].granted

\* The lease after the refresh.  lease_emit fails on a client that does not
\* drain its socket, and deactivates the lease.
Refreshed(l, o, notify, sent) ==
    LET L == lease[l]
        event == Announces(l, o, notify)
    IN  [L EXCEPT !.generation = o.generation,
                  !.granted = IF event /\ ~sent THEN {} ELSE o.granted,
                  !.active = L.active /\ (event => sent),
                  !.domains = IF event THEN @ \ (L.granted \ o.granted) ELSE @]

Told(l, o, notify, sent) ==
    told' = [told EXCEPT ![l] =
               IF Announces(l, o, notify) /\ sent /\ lease[l].active
               THEN o.granted ELSE @]

\* The value session_refresh returns.
Succeeds(l, o, notify, sent) ==
    o.ok /\ (Announces(l, o, notify) => sent)

\* lease_release of one reference; the last one frees the lease.
Released(L) ==
    IF L.refs = 1 THEN NoLeaseRecord ELSE [L EXCEPT !.refs = @ - 1]

-----------------------------------------------------------------------------
(* The lease connection *)

\* HELLO of a lease connection: the process identity is captured, and a HELLO
\* that asks for scopes runs authorize_scopes before the lease exists.
LeaseHello(l) ==
    /\ conn[l].pc = "closed"
    /\ lease[l].refs = 0
    /\ trusted' = [trusted EXCEPT ![l] = TRUE]
    /\ \E scopes \in SUBSET Scopes :
         conn' = [conn EXCEPT ![l] =
                    [NoConn EXCEPT !.pc = IF scopes = {} THEN "finish" ELSE "check",
                                   !.status = "OK", !.wanted = scopes]]
    /\ UNCHANGED <<grants, generation, lease, rpc, told, withdrawn, interrupted>>

\* The end of an authorize_scopes call.
Finish(l, session, status) ==
    conn' = [conn EXCEPT ![l] =
               [session EXCEPT !.pc = "finish", !.status = status]]

\* A session that has just read the store.
Reread(l, session) ==
    [session EXCEPT !.granted = grants[KeyOf[l]] \cap session.requested,
                    !.generation = generation[Uid(l)]]

\* authorize_scopes, first check: everything is granted, or the mode is CHECK,
\* or the user has to be asked.
CheckGrants(l) ==
    /\ conn[l].pc = "check"
    /\ LET asked == [conn[l] EXCEPT !.requested = @ \cup conn[l].wanted]
           read == Reread(l, asked)
       IN  \/ Finish(l, asked, "OTHER")
           \/ IF conn[l].wanted \subseteq read.granted
              THEN Finish(l, read, "OK")
              ELSE \/ Finish(l, read, "OTHER")
                   \/ conn' = [conn EXCEPT ![l] = [read EXCEPT !.pc = "lock"]]
    /\ UNCHANGED <<trusted, lease, rpc, told, storeVars>>

\* The per-identity prompt lock is held from the moment it is acquired until
\* authorize_scopes returns.
PromptLockFree(l) ==
    \A m \in Leases : KeyOf[m] = KeyOf[l] => conn[m].pc \notin Prompting

\* The prompt lock is acquired, the identity revalidated and the store read
\* again: another holder may have obtained the scopes meanwhile.
AcquirePromptLock(l) ==
    /\ conn[l].pc = "lock"
    /\ \/ /\ Finish(l, conn[l], "OTHER")
          /\ UNCHANGED withdrawn
       \/ /\ PromptLockFree(l)
          /\ trusted[l]
          /\ LET read == Reread(l, conn[l])
             IN  IF conn[l].wanted \subseteq read.granted
                 THEN Finish(l, read, "OK") /\ UNCHANGED withdrawn
                 ELSE /\ conn' = [conn EXCEPT ![l] = [read EXCEPT !.pc = "prompt"]]
                      /\ withdrawn' = [withdrawn EXCEPT ![l] = {}]
    /\ UNCHANGED <<grants, generation, trusted, lease, rpc, told, interrupted>>

\* Mutant: the approval is fenced at the generation it is given at, instead of
\* the one the missing scopes were read at.
PromptRereads(l) ==
    /\ conn[l].pc = "prompt"
    /\ conn' = [conn EXCEPT ![l].pc = "approved",
                            ![l].generation = generation[Uid(l)]]
    /\ UNCHANGED <<trusted, lease, rpc, told, storeVars>>

\* The user answers the prompt, or it is cancelled, unavailable or times out.
PromptAnswer(l) ==
    /\ conn[l].pc = "prompt"
    /\ \/ conn' = [conn EXCEPT ![l].pc = "approved"]
       \/ Finish(l, conn[l], "OTHER")
    /\ UNCHANGED <<trusted, lease, rpc, told, storeVars>>

\* ksp_store_grant_if_generation succeeds only at the generation the missing
\* scopes were read at; a moved generation is REVOKED.
FenceHolds(l) == generation[Uid(l)] = conn[l].generation

\* The approval is stored if the identity still verifies and the fence holds.
FencedGrant(l) ==
    /\ conn[l].pc = "approved"
    /\ \/ /\ Finish(l, conn[l], "OTHER")
          /\ UNCHANGED storeVars
       \/ /\ trusted[l] /\ ~FenceHolds(l)
          /\ Finish(l, conn[l], "REVOKED")
          /\ UNCHANGED storeVars
       \/ /\ trusted[l] /\ FenceHolds(l)
          /\ StoreGrant(KeyOf[l], conn[l].wanted \ conn[l].granted)
          /\ conn' = [conn EXCEPT ![l].pc = "recheck"]
    /\ UNCHANGED <<trusted, lease, rpc, told>>

\* The store is read once more; a revocation may already have undone the grant.
RecheckGrants(l) ==
    /\ conn[l].pc = "recheck"
    /\ LET read == Reread(l, conn[l])
       IN  \/ Finish(l, conn[l], "OTHER")
           \/ Finish(l, read, IF conn[l].wanted \subseteq read.granted
                              THEN "OK" ELSE "REVOKED")
    /\ UNCHANGED <<trusted, lease, rpc, told, storeVars>>

\* The end of a lease's HELLO: with status OK the lease is created and the
\* reply tells the client its grants; otherwise the connection ends.
CreateLease(l) ==
    /\ conn[l].pc = "finish"
    /\ lease[l].refs = 0
    /\ \/ /\ conn[l].status = "OK"
          /\ lease' = [lease EXCEPT ![l] =
               [active |-> TRUE, requested |-> conn[l].requested,
                granted |-> conn[l].granted, generation |-> conn[l].generation,
                domains |-> {}, refs |-> 1]]
          /\ told' = [told EXCEPT ![l] = conn[l].granted]
          /\ conn' = [conn EXCEPT ![l] = [NoConn EXCEPT !.pc = "idle"]]
       \/ /\ conn' = [conn EXCEPT ![l] = NoConn]
          /\ UNCHANGED <<lease, told>>
    /\ UNCHANGED <<trusted, rpc, storeVars>>

\* The lease's thread goes on after a refresh, or ends the connection.
ConnAfter(l, o, notify, sent, session) ==
    conn' = [conn EXCEPT ![l] =
               IF Succeeds(l, o, notify, sent) THEN session
               ELSE [conn[l] EXCEPT !.pc = "closing"]]

\* AUTHORIZE on an idle lease connection: refresh, then authorize_scopes.
\* An empty scope set is refused by authorize_scopes itself.
AuthorizeRequest(l) ==
    /\ conn[l].pc = "idle"
    /\ \E o \in RefreshOutcomes(l, TRUE), sent \in BOOLEAN, scopes \in SUBSET Scopes :
         /\ lease' = [lease EXCEPT ![l] = Refreshed(l, o, TRUE, sent)]
         /\ Told(l, o, TRUE, sent)
         /\ ConnAfter(l, o, TRUE, sent,
              [conn[l] EXCEPT !.pc = IF scopes = {} THEN "finish" ELSE "check",
                              !.status = "OTHER", !.wanted = scopes,
                              !.requested = lease[l].requested,
                              !.granted = o.granted, !.generation = o.generation])
    /\ UNCHANGED <<trusted, rpc, storeVars>>

\* complete_authorization merges the session into the lease under its mutex:
\* the identity and the store are read again, a change is announced, and an OK
\* that no longer holds becomes REVOKED.  Without an event the reply still tells
\* the client about the scopes it asked for.
CompleteAuthorization(l) ==
    /\ conn[l].pc = "finish"
    /\ lease[l].refs > 0
    /\ \E current \in {c \in BOOLEAN : c => lease[l].active /\ trusted[l]},
          sent \in BOOLEAN :
         LET L == lease[l]
             requested == L.requested \cup conn[l].requested
             granted == IF current THEN grants[KeyOf[l]] \cap requested ELSE {}
             announced == granted # L.granted
             ok == current /\ (announced => sent)
         IN  /\ lease' = [lease EXCEPT ![l] =
                  [L EXCEPT !.requested = requested,
                            !.granted = IF announced /\ ~sent THEN {} ELSE granted,
                            !.generation = IF current THEN generation[Uid(l)] ELSE @,
                            !.domains = @ \ (L.granted \ granted),
                            !.active = @ /\ ok]]
             /\ told' = [told EXCEPT ![l] =
                           IF announced /\ sent THEN granted
                           ELSE @ \ (conn[l].wanted \ granted)]
             /\ conn' = [conn EXCEPT ![l] =
                  [NoConn EXCEPT !.pc = IF ok THEN "idle" ELSE "closing",
                                 !.source = conn[l].source]]
    /\ UNCHANGED <<trusted, rpc, storeVars>>

\* The poll loop's idle tick (every 250 ms) or a PING: refresh and carry on.
LeasePoll(l) ==
    /\ conn[l].pc = "idle"
    /\ \E force \in BOOLEAN : \E o \in RefreshOutcomes(l, force), sent \in BOOLEAN :
         /\ lease' = [lease EXCEPT ![l] = Refreshed(l, o, TRUE, sent)]
         /\ Told(l, o, TRUE, sent)
         /\ ConnAfter(l, o, TRUE, sent, conn[l])
    /\ UNCHANGED <<trusted, rpc, storeVars>>

\* STATE_SUBSCRIBE: refresh, and refuse a domain whose scope is not granted.
SubscribeRequest(l) ==
    /\ conn[l].pc = "idle"
    /\ \E o \in RefreshOutcomes(l, TRUE), sent \in BOOLEAN, domains \in SUBSET Monitored :
         /\ lease' = [lease EXCEPT ![l] = Refreshed(l, o, TRUE, sent)]
         /\ Told(l, o, TRUE, sent)
         /\ ConnAfter(l, o, TRUE, sent,
              IF domains \subseteq o.granted
              THEN [conn[l] EXCEPT !.pc = "subscribe", !.wanted = domains]
              ELSE conn[l])
    /\ UNCHANGED <<trusted, rpc, storeVars>>

\* lease_emit failed: the lease is inactive and grants nothing.
Deactivated(L) == [L EXCEPT !.active = FALSE, !.granted = {}]

\* The domains are set in a second critical section; the old sources are
\* stopped and new ones started, or the connection ends on a failed start or
\* reply.  A subscription to the grants domain sends a snapshot of the cached
\* scopes, which may fail like any event.
SubscribeApply(l) ==
    /\ conn[l].pc = "subscribe"
    /\ \E next \in {"idle", "closing"}, lost \in BOOLEAN :
         /\ lost => next = "closing"
         /\ lease' = [lease EXCEPT ![l] =
                        [IF lost THEN Deactivated(lease[l]) ELSE lease[l]
                         EXCEPT !.domains = conn[l].wanted]]
         /\ conn' = [conn EXCEPT ![l].pc = next, ![l].wanted = {},
                                 ![l].source = conn[l].wanted # {}]
    /\ \/ UNCHANGED told
       \/ told' = [told EXCEPT ![l] = lease[l].granted]
    /\ UNCHANGED <<trusted, rpc, storeVars>>

\* A state source's own thread refreshes through the same lease before it
\* forwards an event and between events; it stops when the refresh fails.
SourceRefresh(l) ==
    /\ conn[l].source
    /\ \E force \in BOOLEAN : \E o \in RefreshOutcomes(l, force), sent \in BOOLEAN :
         /\ lease' = [lease EXCEPT ![l] = Refreshed(l, o, TRUE, sent)]
         /\ Told(l, o, TRUE, sent)
         /\ conn' = [conn EXCEPT ![l].source = Succeeds(l, o, TRUE, sent)]
    /\ UNCHANGED <<trusted, rpc, storeVars>>

\* A state event of a source cannot be written to the lease client.
EventFails(l) ==
    /\ conn[l].pc = "idle"
    /\ conn[l].source
    /\ lease' = [lease EXCEPT ![l] = Deactivated(@)]
    /\ conn' = [conn EXCEPT ![l].pc = "closing"]
    /\ UNCHANGED <<trusted, rpc, told, storeVars>>

\* The client closes its lease connection, or a read or a reply fails.
LeaseDisconnect(l) ==
    /\ conn[l].pc = "idle"
    /\ conn' = [conn EXCEPT ![l].pc = "closing"]
    /\ UNCHANGED <<trusted, lease, rpc, told, storeVars>>

\* The end of handle_public_connection: the sources are joined, the lease is
\* deactivated for every RPC bound to it, and the reference dropped.
EndLease(l) ==
    /\ conn[l].pc = "closing"
    /\ lease' = [lease EXCEPT ![l] =
                   Released(Deactivated(@))]
    /\ conn' = [conn EXCEPT ![l] = NoConn]
    /\ UNCHANGED <<trusted, rpc, told, storeVars>>

-----------------------------------------------------------------------------
(* RPC connections *)

\* Mutant: the RPC uses the lease without counting its reference.
RpcBindUncounted(r, l) ==
    /\ rpc[r].pc = "closed"
    /\ lease[l].active
    /\ rpc' = [rpc EXCEPT ![r].pc = "bound", ![r].lease = l]
    /\ UNCHANGED <<trusted, lease, conn, told, storeVars>>

\* lease_bind: an RPC of the lease's own process takes a reference to an
\* active lease.
RpcBind(r, l) ==
    /\ rpc[r].pc = "closed"
    /\ lease[l].active
    /\ lease' = [lease EXCEPT ![l].refs = @ + 1]
    /\ rpc' = [rpc EXCEPT ![r].pc = "bound", ![r].lease = l]
    /\ UNCHANGED <<trusted, conn, told, storeVars>>

\* A refresh by RPC r; when it fails the connection ends and drops its
\* reference.  next is the thread's state otherwise.
RpcRefresh(r, o, notify, sent, next) ==
    LET l == rpc[r].lease
        L == Refreshed(l, o, notify, sent)
        ok == Succeeds(l, o, notify, sent)
    IN  /\ lease' = [lease EXCEPT ![l] = IF ok THEN L ELSE Released(L)]
        /\ Told(l, o, notify, sent)
        /\ rpc' = [rpc EXCEPT ![r] = IF ok THEN next ELSE NoRpc]

\* The HELLO of an RPC connection refreshes WITHOUT notifying the lease client.
RpcHello(r) ==
    /\ rpc[r].pc = "bound"
    /\ \E o \in RefreshOutcomes(rpc[r].lease, TRUE) :
         RpcRefresh(r, o, FALSE, TRUE, [rpc[r] EXCEPT !.pc = "idle"])
    /\ UNCHANGED <<trusted, conn, storeVars>>

\* The poll loop's idle tick or a PING.
RpcPoll(r) ==
    /\ rpc[r].pc = "idle"
    /\ \E force \in BOOLEAN :
       \E o \in RefreshOutcomes(rpc[r].lease, force), sent \in BOOLEAN :
         RpcRefresh(r, o, TRUE, sent, rpc[r])
    /\ UNCHANGED <<trusted, conn, storeVars>>

\* execute_operation may start when the cache, just refreshed, has the scope.
Holds(granted, scope) == scope = NoScope \/ scope \in granted

\* execute_operation up to the work itself: refresh, scope check, then the
\* backend, availability and budget checks, any of which may refuse.
ExecuteBegin(r) ==
    /\ rpc[r].pc = "idle"
    /\ \E o \in RefreshOutcomes(rpc[r].lease, TRUE), sent \in BOOLEAN,
          scope \in Scopes \cup {NoScope} :
         \/ RpcRefresh(r, o, TRUE, sent, rpc[r])
         \/ /\ Holds(o.granted, scope)
            /\ RpcRefresh(r, o, TRUE, sent,
                 [rpc[r] EXCEPT !.pc = "running", !.scope = scope,
                                !.before = o.generation])
    /\ UNCHANGED <<trusted, conn, storeVars>>

\* capture_still_authorized, polled while a capture worker runs: refreshes in
\* the middle of the operation and aborts the work, not the connection.
CaptureCheck(r) ==
    /\ rpc[r].pc = "running"
    /\ \E o \in RefreshOutcomes(rpc[r].lease, TRUE), sent \in BOOLEAN :
         /\ lease' = [lease EXCEPT ![rpc[r].lease] =
                        Refreshed(rpc[r].lease, o, TRUE, sent)]
         /\ Told(rpc[r].lease, o, TRUE, sent)
    /\ UNCHANGED <<trusted, conn, rpc, storeVars>>

\* Mutant: the final check trusts the refreshed cache and forgets the generation
\* the operation was admitted at.
StillHeld(r, o, sent) ==
    /\ Succeeds(rpc[r].lease, o, TRUE, sent)
    /\ \/ rpc[r].scope = NoScope
       \/ ~GenerationChanged(rpc[r].lease, o) /\ rpc[r].scope \in o.granted

\* The final check: the same generation as at admission, the scope still held.
StillValid(r, o, sent) ==
    /\ Succeeds(rpc[r].lease, o, TRUE, sent)
    /\ \/ rpc[r].scope = NoScope
       \/ /\ ~GenerationChanged(rpc[r].lease, o)
          /\ o.generation = rpc[r].before
          /\ rpc[r].scope \in o.granted

\* The work returned.  A valid result is released, unless the backend changed;
\* a successful window mutation first waits for its effect to be observed.
ExecuteCheck(r) ==
    /\ rpc[r].pc = "running"
    /\ \E o \in RefreshOutcomes(rpc[r].lease, TRUE), sent \in BOOLEAN :
         /\ lease' = [lease EXCEPT ![rpc[r].lease] =
                        Refreshed(rpc[r].lease, o, TRUE, sent)]
         /\ Told(rpc[r].lease, o, TRUE, sent)
         /\ \/ rpc' = [rpc EXCEPT ![r].pc = "respond", ![r].verdict = "withheld"]
            \/ /\ StillValid(r, o, sent)
               /\ rpc' = [rpc EXCEPT ![r].pc = "respond", ![r].verdict = "result"]
            \/ /\ StillValid(r, o, sent)
               /\ rpc[r].scope = WindowControl
               /\ rpc' = [rpc EXCEPT ![r].pc = "syncing"]
    /\ UNCHANGED <<trusted, conn, storeVars>>

\* operation_sync ends: observed, given up at the deadline (TIMEOUT, which
\* carries no result), or the cached grant or the lease is gone (REVOKED).
OperationSync(r) ==
    /\ rpc[r].pc = "syncing"
    /\ LET L == lease[rpc[r].lease]
       IN  \E verdict \in {"result", "withheld"} :
             /\ verdict = "result" => L.active /\ WindowControl \in L.granted
             /\ rpc' = [rpc EXCEPT ![r].pc = "respond", ![r].verdict = verdict]
    /\ UNCHANGED <<trusted, lease, conn, told, storeVars>>

\* x11_child_sync instead asks the display worker about a child window and
\* does not look at the lease again.
ChildSync(r) ==
    /\ rpc[r].pc = "syncing"
    /\ \E verdict \in {"result", "withheld"} :
         rpc' = [rpc EXCEPT ![r].pc = "respond", ![r].verdict = verdict]
    /\ UNCHANGED <<trusted, lease, conn, told, storeVars>>

\* The response is written and the thread is ready for the next request.
\* interrupted describes one operation, so it is cleared with it.
Respond(r) ==
    /\ rpc[r].pc = "respond"
    /\ rpc' = [rpc EXCEPT ![r].pc = "idle", ![r].verdict = "none",
                          ![r].scope = NoScope, ![r].before = 0]
    /\ interrupted' = [interrupted EXCEPT ![r] = FALSE]
    /\ UNCHANGED <<grants, generation, trusted, lease, conn, told, withdrawn>>

\* PERMISSIONS_REVOKE: one executable or every executable of the own user.
PermissionsRevoke(r) ==
    /\ rpc[r].pc = "idle"
    /\ lease[rpc[r].lease].active
    /\ \E scopes \in SUBSET Scopes \ {{}} :
         LET uid == Uid(rpc[r].lease)
         IN  \E targets \in {{k} : k \in KeysOf(uid)} \cup {KeysOf(uid)} :
               StoreRevoke(uid, targets, scopes)
    /\ rpc' = [rpc EXCEPT ![r].pc = "revoked"]
    /\ UNCHANGED <<trusted, lease, conn, told>>

\* The revoking session refreshes before it acknowledges.
RevokeAck(r) ==
    /\ rpc[r].pc = "revoked"
    /\ \E o \in RefreshOutcomes(rpc[r].lease, TRUE), sent \in BOOLEAN :
         RpcRefresh(r, o, TRUE, sent, [rpc[r] EXCEPT !.pc = "idle"])
    /\ UNCHANGED <<trusted, conn, storeVars>>

\* Mutant: the closed connection still names its lease.
RpcCloseBound(r) ==
    /\ rpc[r].pc = "idle"
    /\ lease' = [lease EXCEPT ![rpc[r].lease] = Released(@)]
    /\ rpc' = [rpc EXCEPT ![r].pc = "closed"]
    /\ UNCHANGED <<trusted, conn, told, storeVars>>

\* The client closes the connection, or a request finds the lease inactive
\* (session_identity_refresh).
RpcClose(r) ==
    /\ rpc[r].pc = "idle"
    /\ lease' = [lease EXCEPT ![rpc[r].lease] = Released(@)]
    /\ rpc' = [rpc EXCEPT ![r] = NoRpc]
    /\ UNCHANGED <<trusted, conn, told, storeVars>>

-----------------------------------------------------------------------------
LeaseStep(l) ==
    \/ LeaseHello(l) \/ CheckGrants(l) \/ AcquirePromptLock(l)
    \/ PromptAnswer(l) \/ FencedGrant(l) \/ RecheckGrants(l)
    \/ CreateLease(l) \/ AuthorizeRequest(l) \/ CompleteAuthorization(l)
    \/ LeasePoll(l) \/ SubscribeRequest(l) \/ SubscribeApply(l)
    \/ SourceRefresh(l) \/ EventFails(l) \/ LeaseDisconnect(l) \/ EndLease(l)

RpcStep(r) ==
    \/ \E l \in Leases : RpcBind(r, l)
    \/ RpcHello(r) \/ RpcPoll(r) \/ ExecuteBegin(r) \/ CaptureCheck(r)
    \/ ExecuteCheck(r) \/ OperationSync(r) \/ ChildSync(r) \/ Respond(r)
    \/ PermissionsRevoke(r) \/ RevokeAck(r) \/ RpcClose(r)

Next ==
    \/ \E l \in Leases : LeaseStep(l) \/ IdentityLost(l)
    \/ \E r \in Rpcs : RpcStep(r)
    \/ OtherAuthority

Spec == Init /\ [][Next]_vars

-----------------------------------------------------------------------------
(* Properties *)

\* Every variable has its type, and a thread that works for a lease names one.
TypeOK ==
    /\ grants \in [Keys -> SUBSET Scopes]
    /\ generation \in [Uids -> Nat]
    /\ trusted \in [Leases -> BOOLEAN]
    /\ lease \in [Leases -> LeaseRecord]
    /\ conn \in [Leases -> ConnRecord]
    /\ rpc \in [Rpcs -> RpcRecord]
    /\ told \in [Leases -> SUBSET Scopes]
    /\ withdrawn \in [Leases -> SUBSET Scopes]
    /\ interrupted \in [Rpcs -> BOOLEAN]
    /\ \A r \in Rpcs : (rpc[r].pc = "closed") = (rpc[r].lease = NoLease)

\* A cache of the store never claims a generation from the future nor a scope
\* it did not ask for, and while its generation is the store's current one it
\* holds no scope that the store does not grant.
Coherent(cache, l) ==
    /\ cache.generation <= generation[Uid(l)]
    /\ cache.granted \subseteq cache.requested
    /\ cache.generation = generation[Uid(l)]
         => cache.granted \subseteq grants[KeyOf[l]]

\* Every lease's cached grants are coherent with the store, whichever threads
\* refresh it (so the unchanged-generation path of session_refresh, which
\* trusts the cache without reading the store, is safe).
CacheCoherent == \A l \in Leases : Coherent(lease[l], l)

\* An operation is admitted (enters its work) only in a state in which the
\* store grants its scope to the executable behind the lease: execute_operation
\* never starts scoped work on the strength of a stale cache.
AdmittedOnlyWhileGranted ==
    [][\A r \in Rpcs :
         /\ rpc[r].pc # "running"
         /\ rpc'[r].pc = "running"
         /\ rpc'[r].scope # NoScope
         => rpc'[r].scope \in grants[KeyOf[rpc'[r].lease]]]_vars

\* A result is released only if the generation of the user stood still from
\* the admission of the operation to its final check, whatever other threads
\* refreshed the shared lease in between (execute_operation's second check).
ReleasedOnlyUninterrupted ==
    \A r \in Rpcs : rpc[r].verdict = "result" => ~interrupted[r]

\* A late approval never recreates a grant: no step stores a scope that was
\* revoked from the executable while the approving prompt was open
\* (ksp_store_grant_if_generation in authorize_scopes).
NoLateGrant ==
    [][\A l \in Leases :
         conn[l].pc = "approved" /\ conn'[l].pc = "recheck"
         => withdrawn[l] \cap (grants'[KeyOf[l]] \ grants[KeyOf[l]]) = {}]_vars

\* The session of a lease connection, which becomes the lease's cache when the
\* lease is created, is as coherent as the cache itself.
SessionCoherent == \A l \in Leases : Coherent(conn[l], l)

\* While the user is asked, a revocation from the executable leaves the
\* session's generation behind the store's, so that the fence fails.
FenceRemembers ==
    \A l \in Leases :
        conn[l].pc \in {"prompt", "approved"} /\ withdrawn[l] # {}
        => conn[l].generation < generation[Uid(l)]

\* An operation that the store has moved under started from an older
\* generation, and only a checked operation carries a verdict.
OperationCoherent ==
    \A r \in Rpcs :
        /\ rpc[r].pc = "running" => rpc[r].before <= generation[Uid(rpc[r].lease)]
        /\ rpc[r].pc # "respond" => rpc[r].verdict = "none"
        /\ interrupted[r] =>
             /\ rpc[r].pc \in {"running", "respond"}
             /\ rpc[r].scope # NoScope
             /\ rpc[r].pc = "running"
                  => rpc[r].before < generation[Uid(rpc[r].lease)]

\* The inductive invariant of the safety proofs.
Inductive ==
    /\ TypeOK
    /\ CacheCoherent
    /\ SessionCoherent
    /\ FenceRemembers
    /\ OperationCoherent
    /\ ReleasedOnlyUninterrupted

\* References: one for the lease connection while it lives, one per bound RPC.
\* lease_release frees a lease exactly when the last holder lets go, so no
\* thread ever holds a freed lease and no freed lease is active.
LeaseReferences ==
    \A l \in Leases :
        /\ lease[l].refs
             = Cardinality({r \in Rpcs : rpc[r].lease = l})
               + (IF conn[l].pc \in {"closed"} \/ lease[l].refs = 0 THEN 0 ELSE 1)
        /\ conn[l].pc \in {"idle", "subscribe", "closing"} => lease[l].refs > 0
        /\ lease[l].active => conn[l].pc # "closed"
        /\ ~lease[l].active => lease[l].granted = {}

\* The abstract operation an RPC thread stands for.
AbstractOp(r) ==
    LET phase == CASE rpc[r].pc = "running" -> "working"
                   [] rpc[r].pc = "syncing" -> "checked"
                   [] rpc[r].pc = "respond" /\ rpc[r].verdict = "result" -> "released"
                   [] rpc[r].pc = "respond" /\ rpc[r].verdict # "result" -> "withheld"
                   [] OTHER -> "idle"
    IN  IF phase = "idle"
        THEN [phase |-> "idle", key |-> NoLease, scope |-> NoScope, clean |-> TRUE]
        ELSE [phase |-> phase, key |-> KeyOf[rpc[r].lease],
              scope |-> rpc[r].scope, clean |-> ~interrupted[r]]

Guard == INSTANCE GrantGuard WITH
            Ops <- Rpcs, NoKey <- NoLease, op <- [r \in Rpcs |-> AbstractOp(r)]

\* The daemon's leases, cached scopes and generation checks implement the
\* promise of GrantGuard for every operation execute_operation runs.
ImplementsGuard == Guard!Spec

\* A revocation is reported: a lease client that believes it has a scope the
\* store does not grant is eventually told, loses its lease, or regains the
\* scope.
RevocationReported ==
    \A l \in Leases, s \in Scopes :
        (lease[l].active /\ s \in told[l] /\ s \notin grants[KeyOf[l]])
        ~> (~lease[l].active \/ s \notin told[l] \/ s \in grants[KeyOf[l]])

\* The lease's thread keeps running: its poll loop ticks every 250 ms, a prompt
\* ends within 120 s, and the other stages of a request do not block.
LeaseFairness ==
    \A l \in Leases :
        /\ WF_vars(LeasePoll(l))
        /\ WF_vars(CheckGrants(l))
        /\ WF_vars(AcquirePromptLock(l))
        /\ WF_vars(PromptAnswer(l))
        /\ WF_vars(FencedGrant(l))
        /\ WF_vars(RecheckGrants(l))
        /\ WF_vars(CompleteAuthorization(l))
        /\ WF_vars(SubscribeApply(l))
        /\ WF_vars(EndLease(l))

FairSpec == Spec /\ LeaseFairness
=============================================================================
