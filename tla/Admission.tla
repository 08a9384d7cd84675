----------------------------- MODULE Admission -----------------------------
(***************************************************************************)
(* Connection admission and budgets of the authority daemon                *)
(* (src/src/authorityd.c, src/src/worker_pool.c).                          *)
(*                                                                         *)
(* One thread serves each connection.  Its kind is unknown when it is      *)
(* accepted, so every connection is admitted on probation; a slot from the *)
(* reserve is kept only by the registration of a session backend.  A       *)
(* public connection then spends budgets: memory for a chunked request,    *)
(* captures, KWin jobs.  What each user or process holds is counted in     *)
(* fixed tables of slots, all under one mutex; a step is one critical      *)
(* section.                                                                *)
(***************************************************************************)
EXTENDS Integers, FiniteSets

CONSTANTS
    Conns,              \* connections
    Keys,               \* users and processes, the keys of the usage tables
    NoKey,              \* the key of a slot that was never used
    UidOf, PidOf,       \* the user and the process behind a connection
    MaxWorkers,         \* KSD_MAX_AUTHORITY_WORKERS
    WorkersPerUid,      \* KSD_MAX_AUTHORITY_WORKERS_PER_UID
    Reserve,            \* KSD_AUTHORITY_REGISTRATION_RESERVE
    KwinPerPid,         \* KSD_MAX_KWIN_INFLIGHT_PER_PID
    MaxCaptures,        \* captures that fit into the in-flight bytes
    CapturesPerUid, CapturesPerPid,
    MaxAssemblies,      \* requests that fit into the assembly bytes
    AssembliesPerUid,
    MaxChunks,          \* frames of the longest chunked request
    Kinds               \* the budgeted operations connections execute

ASSUME LimitsOK ==
    /\ UidOf \in [Conns -> Keys] /\ PidOf \in [Conns -> Keys]
    /\ {MaxWorkers, WorkersPerUid, KwinPerPid, MaxCaptures, CapturesPerUid,
        CapturesPerPid, MaxAssemblies, AssembliesPerUid} \subseteq Nat \ {0}
    /\ Reserve \in 1 .. MaxWorkers
    /\ CapturesPerUid < MaxCaptures /\ AssembliesPerUid < MaxAssemblies
    /\ MaxChunks \in Nat
    /\ Kinds \subseteq {"kwin", "capture"}
    /\ NoKey \notin Keys

ASSUME ConnsFinite == IsFiniteSet(Conns)

VARIABLES
    workers,            \* state->workers
    usage,              \* the five usage tables
    captures,           \* state->inflight_bytes, in captures
    assemblies,         \* state->assembly_bytes, in requests
    conn                \* the connections and their threads

vars == <<workers, usage, captures, assemblies, conn>>

Slots == 1 .. MaxWorkers
NoSlot == 0
Tables == {"worker", "kwin", "capture", "capture_pid", "assembly"}

Stages == {"closed", "accepted", "probation", "registered", "idle", "working",
           "closing", "leaving"}

\* chunks is the length of the request being assembled, 0 while there is none.
ConnRecord ==
    [pc: Stages, from_reserve: BOOLEAN, public: BOOLEAN,
     chunks: 0 .. MaxChunks, kind: Kinds \cup {"none"}]

NoConn ==
    [pc |-> "closed", from_reserve |-> FALSE, public |-> FALSE, chunks |-> 0,
     kind |-> "none"]

EmptySlot == [key |-> NoKey, count |-> 0]

Init ==
    /\ workers = 0
    /\ usage = [t \in Tables |-> [i \in Slots |-> EmptySlot]]
    /\ captures = 0
    /\ assemblies = 0
    /\ conn = [c \in Conns |-> NoConn]

-----------------------------------------------------------------------------
(* Usage tables *)

First(slots) == CHOOSE i \in slots : \A j \in slots : i <= j

\* find_usage_slot: the slot that counts the key, else the first empty one.
FindSlot(table, key) ==
    LET used == {i \in Slots : table[i].count # 0 /\ table[i].key = key}
        empty == {i \in Slots : table[i].count = 0}
    IN  IF used # {} THEN First(used)
        ELSE IF empty # {} THEN First(empty) ELSE NoSlot

\* The count of the key, as the admission checks read it.
Count(table, key) ==
    LET i == FindSlot(table, key) IN IF i = NoSlot THEN 0 ELSE table[i].count

\* add_usage to the slot that was found.
Add(table, key) ==
    LET i == FindSlot(table, key)
    IN  [table EXCEPT ![i] = [key |-> key, count |-> @.count + 1]]

\* Mutant: the last unit of a key is never given back.
ReleaseButLast(table, key) ==
    LET i == FindSlot(table, key)
    IN  IF i # NoSlot /\ table[i].count > 1 /\ table[i].key = key
        THEN [table EXCEPT ![i].count = @ - 1] ELSE table

\* release_usage.  The key that an emptied slot keeps in the code is read by
\* nothing, so the slot becomes the empty one.
Release(table, key) ==
    LET i == FindSlot(table, key)
    IN  IF i # NoSlot /\ table[i].count # 0 /\ table[i].key = key
        THEN [table EXCEPT ![i] = IF @.count = 1 THEN EmptySlot
                                  ELSE [key |-> key, count |-> @.count - 1]]
        ELSE table

-----------------------------------------------------------------------------
(* The worker pool *)

General == MaxWorkers - Reserve

\* Mutant: the general pool reaches into the reserve.
AdmitIntoReserve(total, mine) ==
    total < MaxWorkers /\ mine < WorkersPerUid

\* ksd_authority_admit_worker: a general slot, and the user under its cap;
\* otherwise a slot of the reserve, if any slot is left.
AdmitGeneral(total, mine) == total < General /\ mine < WorkersPerUid

\* No slot is left, not even of the reserve.
PoolFull(total) == total >= MaxWorkers

\* reserve_worker, for a connection that was accepted.
Accept(c) ==
    LET uid == UidOf[c]
    IN  /\ conn[c].pc = "closed"
        /\ FindSlot(usage["worker"], uid) # NoSlot
        /\ ~PoolFull(workers)
        /\ workers' = workers + 1
        /\ usage' = [usage EXCEPT !["worker"] = Add(@, uid)]
        /\ conn' = [conn EXCEPT ![c].pc = "accepted",
                      ![c].from_reserve =
                        ~AdmitGeneral(workers, Count(usage["worker"], uid))]
        /\ UNCHANGED <<captures, assemblies>>

\* The thread's slot is given back: it could not be created, or it ended.
ReleaseWorker(c) ==
    /\ workers' = workers - 1
    /\ usage' = [usage EXCEPT !["worker"] = Release(@, UidOf[c])]
    /\ conn' = [conn EXCEPT ![c] = NoConn]
    /\ UNCHANGED <<captures, assemblies>>

ThreadFails(c) == conn[c].pc = "accepted" /\ ReleaseWorker(c)

\* A connection leaves for the given stage and touches nothing shared.
Move(c, stage) ==
    /\ conn' = [conn EXCEPT ![c].pc = stage]
    /\ UNCHANGED <<workers, usage, captures, assemblies>>

ThreadStarts(c) == conn[c].pc = "accepted" /\ Move(c, "probation")

\* Mutant: the classified connection keeps its slot, whatever it is.
KeepsAnySlot(c, registration) == TRUE

\* ksd_authority_worker_keeps_slot.
KeepsSlot(c, registration) == ~conn[c].from_reserve \/ registration

\* connection_worker peeks at the first bytes, for at most 5 s.
Classify(c) ==
    /\ conn[c].pc = "probation"
    /\ \/ Move(c, "leaving")
       \/ KeepsSlot(c, TRUE) /\ Move(c, "registered")
       \/ /\ KeepsSlot(c, FALSE)
          /\ conn' = [conn EXCEPT ![c].pc = "idle", ![c].public = TRUE]
          /\ UNCHANGED <<workers, usage, captures, assemblies>>

\* The backend's connection ends, or its registration was refused.
RegistrationEnds(c) == conn[c].pc = "registered" /\ Move(c, "leaving")

WorkerEnds(c) == conn[c].pc = "leaving" /\ ReleaseWorker(c)

-----------------------------------------------------------------------------
(* Public connections *)

\* reserve_assembly_memory.
AssemblyFits(c) ==
    LET table == usage["assembly"]
    IN  /\ assemblies < MaxAssemblies
        /\ FindSlot(table, UidOf[c]) # NoSlot
        /\ Count(table, UidOf[c]) < AssembliesPerUid

\* release_assembly_memory.
ReleaseAssembly(c) ==
    /\ assemblies' = IF assemblies > 0 THEN assemblies - 1 ELSE assemblies
    /\ usage' = [usage EXCEPT !["assembly"] = Release(@, UidOf[c])]

\* The first chunk of a request: its memory is reserved after the assembly
\* accepted it; a full budget clears the assembly and ends the connection.
FirstChunk(c) ==
    /\ conn[c].pc = "idle"
    /\ conn[c].chunks = 0
    /\ MaxChunks > 0
    /\ IF AssemblyFits(c)
       THEN /\ assemblies' = assemblies + 1
            /\ usage' = [usage EXCEPT !["assembly"] = Add(@, UidOf[c])]
            /\ conn' = [conn EXCEPT ![c].chunks = 1]
            /\ UNCHANGED <<workers, captures>>
       ELSE Move(c, "closing")

\* A further chunk of the same request that is not its last.
NextChunk(c) ==
    /\ conn[c].pc = "idle"
    /\ conn[c].chunks \in 1 .. MaxChunks - 1
    /\ conn' = [conn EXCEPT ![c].chunks = @ + 1]
    /\ UNCHANGED <<workers, usage, captures, assemblies>>

\* The last chunk: the request is taken, its memory given back, and then it
\* is handled (refused, executed, or the connection fails).
LastChunk(c) ==
    /\ conn[c].pc = "idle"
    /\ conn[c].chunks \in 1 .. MaxChunks - 1
    /\ \E stage \in {"idle", "closing"} :
         conn' = [conn EXCEPT ![c].pc = stage, ![c].chunks = 0]
    /\ ReleaseAssembly(c)
    /\ UNCHANGED <<workers, captures>>

\* The poll loop, or the next frame, finds the assembly's deadline passed.
Deadline(c) ==
    conn[c].pc = "idle" /\ conn[c].chunks > 0 /\ Move(c, "closing")

\* The client is gone, a refresh fails, or a frame is invalid (during an
\* assembly: any frame that does not continue it).
Disconnect(c) == conn[c].pc = "idle" /\ Move(c, "closing")

\* Mutant: an assembly that was never completed keeps its reservation.
EndKeepsAssembly(c) ==
    /\ conn[c].pc = "closing"
    /\ conn' = [conn EXCEPT ![c].pc = "leaving", ![c].chunks = 0]
    /\ UNCHANGED <<workers, usage, captures, assemblies>>

\* The end of handle_public_connection frees a partial request.
EndPublic(c) ==
    /\ conn[c].pc = "closing"
    /\ conn' = [conn EXCEPT ![c].pc = "leaving", ![c].chunks = 0]
    /\ IF conn[c].chunks > 0
       THEN ReleaseAssembly(c)
       ELSE UNCHANGED <<usage, assemblies>>
    /\ UNCHANGED <<workers, captures>>

\* Mutant: only the global budget is consulted.
CaptureFitsGlobally(c) == captures < MaxCaptures

\* reserve_capture_memory.
CaptureFits(c) ==
    /\ captures < MaxCaptures
    /\ FindSlot(usage["capture"], UidOf[c]) # NoSlot
    /\ FindSlot(usage["capture_pid"], PidOf[c]) # NoSlot
    /\ Count(usage["capture"], UidOf[c]) < CapturesPerUid
    /\ Count(usage["capture_pid"], PidOf[c]) < CapturesPerPid

\* reserve_kwin_slot.
KwinFits(c) ==
    /\ FindSlot(usage["kwin"], PidOf[c]) # NoSlot
    /\ Count(usage["kwin"], PidOf[c]) < KwinPerPid

\* execute_operation admits an operation; a refusal changes nothing.
Begin(c, kind) ==
    /\ conn[c].pc = "idle"
    /\ conn[c].chunks = 0
    /\ CASE kind = "capture" ->
              /\ CaptureFits(c)
              /\ captures' = captures + 1
              /\ usage' = [usage EXCEPT
                   !["capture"] = Add(@, UidOf[c]),
                   !["capture_pid"] = Add(@, PidOf[c])]
         [] kind = "kwin" ->
              /\ KwinFits(c)
              /\ usage' = [usage EXCEPT !["kwin"] = Add(@, PidOf[c])]
              /\ UNCHANGED captures
    /\ conn' = [conn EXCEPT ![c].pc = "working", ![c].kind = kind]
    /\ UNCHANGED <<workers, assemblies>>

\* The response was written, or the write failed; the budget is released on
\* both paths.
End(c) ==
    /\ conn[c].pc = "working"
    /\ captures' = IF conn[c].kind = "capture" /\ captures > 0
                   THEN captures - 1 ELSE captures
    /\ usage' = CASE conn[c].kind = "capture" ->
                       [usage EXCEPT !["capture"] = Release(@, UidOf[c]),
                                     !["capture_pid"] = Release(@, PidOf[c])]
                  [] conn[c].kind = "kwin" ->
                       [usage EXCEPT !["kwin"] = Release(@, PidOf[c])]
    /\ \E stage \in {"idle", "closing"} :
         conn' = [conn EXCEPT ![c].pc = stage, ![c].kind = "none"]
    /\ UNCHANGED <<workers, assemblies>>

-----------------------------------------------------------------------------
ConnStep(c) ==
    \/ Accept(c) \/ ThreadFails(c) \/ ThreadStarts(c) \/ Classify(c)
    \/ RegistrationEnds(c) \/ WorkerEnds(c) \/ FirstChunk(c) \/ NextChunk(c)
    \/ LastChunk(c) \/ Deadline(c) \/ Disconnect(c) \/ EndPublic(c) \/ End(c)
    \/ \E kind \in Kinds : Begin(c, kind)

Next == \E c \in Conns : ConnStep(c)

Spec == Init /\ [][Next]_vars

\* Every thread has deadlines: 5 s to be classified, 10 s for an assembly (the
\* poll loop, which then disconnects), and bounded operations.
Fairness ==
    \A c \in Conns :
        WF_vars(\/ ThreadFails(c) \/ ThreadStarts(c) \/ Classify(c)
                \/ Deadline(c) \/ End(c) \/ EndPublic(c) \/ WorkerEnds(c))

FairSpec == Spec /\ Fairness

-----------------------------------------------------------------------------
(* Properties *)

Open == {c \in Conns : conn[c].pc # "closed"}
Working(kind) == {c \in Conns : conn[c].kind = kind}
Assembling == {c \in Conns : conn[c].chunks > 0}

\* Every variable has its type.
TypeOK ==
    /\ workers \in 0 .. MaxWorkers
    /\ usage \in [Tables -> [Slots -> [key: Keys \cup {NoKey}, count: Nat]]]
    /\ captures \in 0 .. MaxCaptures
    /\ assemblies \in 0 .. MaxAssemblies
    /\ conn \in [Conns -> ConnRecord]

\* The table counts each key in one slot, and as many units as it has holders.
Exact(table, holders, KeyOf) ==
    /\ \A i, j \in Slots :
         table[i].count # 0 /\ table[j].count # 0 /\ table[i].key = table[j].key
         => i = j
    /\ \A k \in Keys :
         Count(table, k) = Cardinality({c \in holders : KeyOf[c] = k})

\* Every table and counter agrees with the connections that exist: nothing is
\* reserved twice, leaked or released twice, whichever path a connection takes
\* (reserve_*, release_*, connection_worker, handle_public_connection).
AccountsExact ==
    /\ TypeOK
    /\ workers = Cardinality(Open)
    /\ captures = Cardinality(Working("capture"))
    /\ assemblies = Cardinality(Assembling)
    /\ Exact(usage["worker"], Open, UidOf)
    /\ Exact(usage["kwin"], Working("kwin"), PidOf)
    /\ Exact(usage["capture"], Working("capture"), UidOf)
    /\ Exact(usage["capture_pid"], Working("capture"), PidOf)
    /\ Exact(usage["assembly"], Assembling, UidOf)

\* Public connections never fill the slots that are held back for
\* registrations, nor does one user have more of them than its cap, although
\* both counts include connections whose kind was not known when they were
\* admitted (ksd_authority_admit_worker, ksd_authority_worker_keeps_slot).
ReserveKept ==
    LET public == {c \in Conns : conn[c].public}
    IN  /\ Cardinality(public) <= General
        /\ \A c \in public :
             Cardinality({d \in public : UidOf[d] = UidOf[c]}) <= WorkersPerUid

\* A fixed table never runs out of slots before the pool runs out of workers:
\* find_usage_slot fails for no connection that exists, nor for a new one
\* while a worker is free.
SlotAlwaysFound ==
    /\ \A c \in Open :
         /\ \A t \in {"worker", "capture", "assembly"} :
              FindSlot(usage[t], UidOf[c]) # NoSlot
         /\ \A t \in {"kwin", "capture_pid"} :
              FindSlot(usage[t], PidOf[c]) # NoSlot
    /\ workers < MaxWorkers =>
         \A k \in Keys : FindSlot(usage["worker"], k) # NoSlot

\* While a single user's processes hold captures (or assemblies), every other
\* user can still have one: the per-user cap is below the global one
\* (reserve_capture_memory, reserve_assembly_memory).
OneUserCannotDenyOthers ==
    \A u \in Keys, c \in Open :
        UidOf[c] # u =>
          /\ (\A d \in Working("capture") : UidOf[d] = u /\ PidOf[d] # PidOf[c])
               => CaptureFits(c)
          /\ (\A d \in Assembling : UidOf[d] = u) => AssemblyFits(c)

\* What is lent comes back: an ordinary connection on a reserved slot leaves it
\* free or to a registration, and the memory of a partial request is released
\* with or without the rest of the request (ksd_authority_worker_keeps_slot,
\* assembly_within_deadline, end_assembly).
BudgetsReturn ==
    \A c \in Conns :
        /\ conn[c].from_reserve ~> (conn[c].pc \in {"registered", "closed"})
        /\ c \in Assembling ~> c \notin Assembling
=============================================================================
