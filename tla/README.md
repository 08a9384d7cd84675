# keysharp-desktop: a TLA+ development

keysharp-desktop gives programs controlled access to a Linux desktop (windows,
clipboard, pointer, keyboard, screen capture) through a privileged daemon,
`authorityd`. The daemon decides which executable may do what, forwards work to
the component that can do it, and withholds results when a permission was
withdrawn meanwhile. These modules model the concurrent core of that program;
source paths are relative to the repository root (`src/...` below is the
repository's own `src` directory).

## 1. Inventory

| component | state it keeps | operations | interacts with |
|---|---|---|---|
| leases and sessions (`src/authorityd.c`) | `authority_lease`: active flag, requested and granted scopes, generation, state domains, reference count, mutex; a session per connection | HELLO, AUTHORIZE, STATE_SUBSCRIBE, PING, EXECUTE, PERMISSIONS_LIST/REVOKE, refresh, bind, release | permission store, prompt and identity checks (external library keysharp-permissions); one thread per connection, one per state source, all sharing the lease |
| admission and budgets (`src/authorityd.c`, `src/worker_pool.c`) | usage tables by UID and by PID, counters of captures, KWin jobs, assemblies | accept, reserve, release, leave probation | every connection thread, under `state->mutex` |
| backend registry (`src/authorityd.c`) | one slot per UID: descriptor, relay, provider identity | register, unregister, take and validate a snapshot, start and forget a display relay | the session backend process of each user, execute_operation |
| KWin relay and lanes (`src/kwin_relay.c`, `src/kwin_lanes.c`) | pending requests with ids and deadlines, reference count, broken flag | acquire, exchange, retire | backend registry, session backend |
| KWin jobs and bus (`src/kwin_jobs.c`, `src/kwin_bus.c`, `providers/kwin`) | job queue, script generation | submit, take, complete, expire | relay, the script inside KWin |
| request assembly (`src/protocol_io.c`) | chunks received, expected size, deadline | accept, take | the connection's thread, assembly budget |
| state sources and window table (`src/authorityd.c`, `src/state_wire.c`, `src/wayland/wl_watch.c`, `src/x11/x11_watch.c`) | the watch's last snapshot and dirty marks; per lease the windows seen, a pending snapshot, the sequence | watch, diff, snapshot, event, reset, subscribe, operation_sync | a watch worker and a source thread per domain, the lease's thread, RPC threads that wait for an effect |
| client library (`src/client.c`) | lease connection, queue of events, poll descriptor, RPC connections | connect, subscribe, call, ksd_state_next | authorityd |
| session backend (`src/session_backend.c`, `src/backend.c`) | the facts it was started with, registration socket, relay socket | wait for a session, resolve, register, recheck, exit | systemd's user manager, authorityd, the shell, KWin bus |
| capture worker (`src/capture_worker.c`, `src/local_capture.c`) | forked child, pipe, spool, deadlines; of the persistent one the display connection | start, draw, drain, answer, cancel, reap | execute_operation, KWin, display server, portal |
| provider client (`src/provider.c`) | cache of peer-to-peer connections by user and backend | look up, open, share, invalidate, call, watch | registry's snapshots, GNOME Shell, Cinnamon |
| Wayland and X11 back ends (`src/wayland`, `src/x11`) | outputs, segments of a picture, portal request | operations, area and root capture, watches | compositor, X server, portal |

What is hard: every connection is a thread and threads share a lease whose
mutex is dropped between the admission of an operation and the check that
releases its result; the permission store is shared with other authorities, so
grants change at any moment; a prompt takes up to two minutes during which
the world moves on; writes to a client that does not read fail in the middle of
a refresh; relays and backends come and go under running operations; pools and
budgets are bounded and must be given back exactly once on every path; state
reaches a client through a watch, a relay thread, a table, a socket and a queue,
any of which may end, fill up or be replaced with frames in it; a capture is the
work of five processes, any of which may be killed; and the session itself, with
its shell, extension and environment, changes under a running daemon.

What makes each component correct:

* leases: no operation starts or releases its result on the strength of a
  stale cache; a late approval recreates nothing; a lease is freed once, by its
  last user; a revocation reaches the lease client;
* admission: the usage tables agree with the connections that exist; a slot is
  always found; probation connections cannot starve established ones; budgets
  are returned exactly once;
* registry: one backend per UID; a snapshot is used only while its backend is
  the registered one; a relay is retired exactly once;
* KWin: BUSY means never attempted, TIMEOUT means unknown; a late response
  never answers another request; a job runs at most once;
* assembly: bounded in size, number and time;
* state: the client's mirror is the lease's table as of its sequence, an
  operation's sequence is a fence for its effect, and a mirror that counts as
  valid does not stay stale;
* client: the poll descriptor is readable exactly when there is something to take;
* capture: OK means the whole picture, of the compositor that was asked, pixel by
  pixel where the user saw it; every capture ends, and nothing that talks to KWin
  is left behind;
* session: once the desktop rests, and unless systemd has given the daemon up, there is
  one registration, of the backend that serves it; a call reaches only the shell it was
  admitted for.

`PROJECT.json` lists these parts as components and the hazards with their lines.

## 2. Plan

1. `LeaseAuth` (authorization) with the abstract promise `GrantGuard`; type
   correctness and the safety properties proved. **Done, section 3.**
2. `Admission`: worker pool, usage tables, budgets, request assembly.
   **Done, section 4.**
3. `BackendRegistry`: registration, snapshots, display workers. **Done, section 5.**
4. `KwinRelay`, then `KwinChannel` (job queue, bus loop, script). **Done,
   sections 6 and 7.**
5. `StateStream` over `Client`: watch, lease table, client queue and the
   application's mirror. **Done for windows, section 8.**
6. `CaptureWorker`, composed of `KwinCapture` and `DisplayWorker`, the latter over
   `CaptureImage`. **Done, section 9.**
7. `ProviderCalls` over `ShellSession`. **Done, section 10.**
8. Left to model: relay and channel composed, with the abstract promise "at most
   once, BUSY never attempted" that the composition implements; the other state
   domains; the Hyprland event stream; the extension's reservations
   (`providers/shared/provider-core.js`).
9. Proved, each in a module of its own: `LeaseAuth` with the refinement of
   `GrantGuard`, `Admission`, `BackendRegistry`, `KwinRelay`, `KwinChannel`,
   `StateStream`, `CaptureWorker` with the arithmetic of `CaptureImage`,
   `ProviderCalls`: every invariant that a run checks and every action property, for
   every value of the constants. What TLC alone checks is liveness.

How the proofs are built. Every theorem about a specification goes through an inductive
invariant `IInv` (`InductiveCorrect`), which was first checked with TLC on the instance
of the module's run. There is one lemma per action, under it one step per part of the
invariant that the action can disturb. Reference counts and budgets are cardinalities of
sets of holders; a step changes such a set in one element at most, and the counting
lemmas say what that does to the size, so the sets that are counted must be finite
(`RpcsFinite`, `ConnsFinite`, `CallersFinite`, `FiniteOK`, `ChannelConstants`). That is
no restriction: the program has finitely many threads. Three things are out of the
prover's reach and are left to TLC throughout: liveness under fairness, `ENABLED`, and
the induction theorems of the proof library, which take an operator as a parameter.
Where a proof needs induction over the natural numbers all the same (what a sequence of
frames makes of a mirror, which of any number of outputs is the sharpest), it is stated
for a set of numbers and proved by the pigeonhole principle (`SetInduction`).

## 3. Authorization: `LeaseAuth`, `GrantGuard`, `MCLeaseAuth`

### State and steps

`lease[l]` is the `authority_lease` of lease connection `l`, `conn[l]` the thread
of that connection with its session, `rpc[r]` the thread of an RPC connection.
`grants` and `generation` are the external store. `trusted[l]` says whether the
process still has the identity captured at HELLO. Three history variables serve
the properties only: `told` (what the client was last told), `withdrawn` (scopes
revoked while a prompt is open), `interrupted` (the generation moved since this
operation was admitted).

A step is one critical section of the lease's mutex, or one store operation. So
`authorize_scopes` is five steps (`CheckGrants`, `AcquirePromptLock`,
`PromptAnswer`, `FencedGrant`, `RecheckGrants`), and `execute_operation` is
`ExecuteBegin`, any number of `CaptureCheck`, `ExecuteCheck`, for a window
mutation `OperationSync` or `ChildSync`, and `Respond`. `session_refresh` is the
operator `RefreshOutcomes`: the set of what the function can conclude, failures of
the store included. `Refreshed` is what it does to the lease, including the event
whose failure deactivates it.

Abstracted: scope sets are sets of model values, requests carry only what
authorization looks at, and a refusal for another reason (no backend, no budget,
malformed request) is a nondeterministic refusal. A grant may or may not advance
the generation; both are allowed.

### Runs

| run | question | instance |
|---|---|---|
| `lease_ops` | caches, admission, release, references, late approvals; `LeaseAuth` implements `GrantGuard` | 1 lease, 2 RPC threads, 1 scope, 2 generations |
| `lease_report` | a revocation is reported | 1 lease with state sources, 2 scopes, fairness |
| `lease_silent` | the same with an RPC connection: **violated** | 1 lease, 1 RPC thread |

Two RPC threads are what the interesting races need: one thread's refresh
consumes a change that the other must still notice. Two generations let a
revocation be followed by another change, so that a comparison with the wrong
generation is caught. Two leases of one executable, which contend for a prompt
lock, are left to the proofs, which hold for any number of leases.
`MaxGen` bounds the generations in the guards of the store's actions only.

Fairness (`LeaseFairness`): the lease's thread keeps running. Its poll loop
wakes at least every 250 ms and refreshes; a prompt ends within its 120 s
timeout; the remaining steps do not block. Nothing is assumed of the client, the
user, other authorities or RPC threads. `RevocationReported` is stated for a
lease that stays active, because a client that does not drain its socket loses
its lease instead.

`lease_silent` is a finding: the HELLO of an RPC connection refreshes the shared
lease with notification off (`src/authorityd.c`, `start_public_session`). If it
is the first to see a revocation it stores the new scopes, later refreshes see no
difference, and the lease connection, which `docs/integrating.md` says "reports
live revocation", reports nothing.

### Proofs (`LeaseAuthProofs`)

For every set of leases, threads, keys, users and scopes, from `ConstantsOK` and, where
threads are counted, `RpcsFinite`:

* `TypeCorrect`, `CacheCorrect`, `ReleaseCorrect`: the invariants `TypeOK`,
  `CacheCoherent` and `ReleasedOnlyUninterrupted`;
* `NoLateGrantCorrect`, `AdmissionCorrect`: the action properties;
* `GuardCorrect`: `LeaseAuth` implements `GrantGuard`;
* `ReferencesCorrect`: `LeaseReferences`.

The first five follow from `InductiveCorrect`. `CacheCoherent` is not inductive alone: a
lease's cache is created from its connection's session, so sessions must be
coherent too (`SessionCoherent`), and so must the session that waits in a prompt
while the generation moves. `FenceRemembers` says that a withdrawal during a
prompt leaves the session's generation behind the store's, which makes the fence
fail. `OperationCoherent` says that an interrupted operation was admitted at a
generation older than the current one; a final check that finds the admission's
generation unchanged therefore proves it was not interrupted, whatever other
threads did to the cache.

The refinement maps an RPC thread to an abstract operation by its program counter: what
it was admitted for, and whether it is still clean, which is the negation of
`interrupted`. A step of the store is a grant or a revocation of the guard, which taints
the operations that run; `ExecuteBegin` begins one and needs that the store grants the
scope (the cache at a refreshed generation); the final check passes for a clean one
only, because it compares generations (`OperationCoherent`). Every other step leaves the
abstract state alone.

`LeaseReferences` is proved with one fact more, that a lease to which nobody refers is
inactive: otherwise an RPC could bind to one that is free.

### Only model-checked

`RevocationReported`: liveness is outside the prover's reach.

## 4. Admission and budgets: `Admission`, `MCAdmission`

`workers` is `state->workers`; `usage[t]` is one of the five usage tables (workers,
captures by user and by process, KWin requests by process, assemblies by user),
each an array of slots with a key and a count; `captures` and `assemblies` are the
two byte counters, counted in captures and in requests because the code reserves
the maximum size of each. `conn[c]` is a connection and its thread.

`Accept` is the accept loop with `ksd_authority_admit_worker`; `Classify` is where
a thread learns whether it serves a registration and an ordinary connection has to
leave a reserved slot; `FirstChunk` .. `LastChunk`, `Deadline` and `EndPublic` are the
life of a chunked request; `Begin` and `End` bracket a budgeted operation. An empty
slot keeps its last key in the code; no path reads it, so the model clears it.

One run, `admission`: four connections of three users and three processes, three
workers of which one is held back for registrations, tables of three slots, requests
of two chunks, two captures and two assemblies in all, one per user, and fairness.
Keys have to give way to each other in the tables, and every limit is reached by fewer
connections than the instance has.

`AccountsExact` compares the tables and counters with the connections that exist;
`SlotAlwaysFound` and `ReserveKept` are what the accept loop relies on;
`OneUserCannotDenyOthers` says that what one user holds leaves room for another;
`BudgetsReturn` that a reserved slot taken by an ordinary connection and the memory
of a request that is not continued are given back.

Fairness: a thread classifies its connection within the socket's 5 s timeout, the
poll loop notices an assembly older than 10 s, operations are bounded by their
deadlines. Nothing is assumed of a registration, which may last for ever.

Proofs (`AdmissionProofs`), for any finite set of connections and any limits that
`LimitsOK` and `ConnsFinite` allow: `AccountsCorrect`, `ReserveCorrect`, `SlotCorrect` and
`OthersCorrect`, the four invariants. The accounts are not inductive alone. `Shape` says
what a connection holds by its stage, so that a release is always of something reserved;
`Caps` that no key of the capped tables is above its cap; `Pool` bounds the connections
that did not come in on the reserve, in all and per user, which is what leaves the
reserve to the others. Under them are lemmas about the table as a data type: what
`Add` and `Release` do to the count of every key, that keys stay distinct, and that a
table whose slots are all taken by other keys would need more connections than there are
workers (`SlotFound`, by an injection from slots to connections). `BudgetsReturn` is
liveness and model-checked only.

## 5. Session-backend registry: `BackendRegistry`, `MCBackendRegistry`

`backends` is the array of registrations, `relay` the relay objects by address with
their reference counts (an address is reused once its count is zero), `conn[d]` the
thread that serves daemon `d`, `client[c]` a thread inside `execute_operation`, from
its snapshot to its release. A daemon stands for a process identity; `PidOf` may give
two of them one process id, the later one starting after the earlier one died.

`display_relay_for` is three steps, `Lookup`, `Spawn` and `Install`, with the state's
mutex free in between. After its call a thread asks whether the relay is broken
(`AskBroken`), forgets it if so (`forget_display_relay`, which is `Forget` and `Retire`)
and releases its reference (`Drop`), each under a mutex of its own, so that another
thread may break the relay between any two of them. `Retire` also
closes the worker of the thread that lost the race to start one. `Poll` and
`PollDone` are one round of the daemon's poll loop with `registered_backend`'s own
snapshot. `Onward` orders the uses of a worker in one operation: a look at the
window, the operation, a second look. What happens inside a relay is left to
`KwinRelay`: a call is answered, unanswered or finds the channel broken.
The state sources' snapshots behave like an operation that is refused late.

| run | question | instance |
|---|---|---|
| `registry` | sharing, losing and replacing workers and relays across registrations | three daemons of one user, two for X11 with one process id and one for KWin; one descriptor, one slot, one lane, 2 operations, 2 addresses |
| `registry_credentials` | are workers used only with their own group: **violated** | 1 daemon, 2 clients with different groups, 3 addresses |

One descriptor, one slot and one process id make every comparison but the full
identity succeed for the wrong daemon. Two operations and two addresses let a worker
be replaced at the address of the one that failed while a late witness still holds it.
`DeadWorkerForgotten` speaks of the operation itself: a thread whose call ended with the
relay broken lets go of that relay only when no registration has it. The looks at the
window before and after an operation do not ask, and a relay that breaks after the
question is left to the thread whose call broke it, or to the next operation; the code
promises no more.

With one slot the rule of one registration per user is enforced by the slot itself, so
no run states it. Deadlock is not checked because the instance has finitely many
daemons: when all have gone, nothing is left to do. These runs check safety only; that
a dead daemon's registration goes away is `Settles` of section 10.

`registry_credentials` is a finding: `display_relay_for` checks the group of a worker
it finds at its first look (`src/authorityd.c:807`) but not that of the worker which
another thread installed while it was starting its own (`843`).

Proofs (`BackendRegistryProofs`), for any finite sets of daemons, clients and slots, any
addresses, descriptors, users, groups and process ids, and one or both lanes
(`FiniteOK`, `NumbersOK`; `NoneOK` and `BackendsOK` only say what the constants are):
`RefsCorrect`, `WorkersCorrect`, `ReleasedCorrect`, `ForgottenCorrect` and
`DeadWorkerCorrect`, the three invariants and the two action properties. The invariant
(`IInv`) adds to the counts

* that a relay has one owner at most: a slot, a lane of a slot, or the thread that
  created it or took it out. So it is retired once, `Forget` finds it in one place only,
  and a worker that is being installed is known to nobody else;
* one registration per user (`OneEach`), and that a free slot holds nothing;
* what a thread holds by where it is (`ShapeOK`), and to which session that belongs
  (`SessionOK`): the display worker and the registration it was looked up for belong to
  the user, and to the daemon of the snapshot **as long as the snapshot is current**. A
  snapshot never becomes current again, because a daemon registers once; that is what
  makes the last check of `execute_operation` sufficient. A thread whose call failed has
  a broken relay in its hands, and broken relays are not mended, so the question can
  only be answered with yes; past `Forget` no slot has it.

The address of a relay may be reused, so all of this speaks of allocated ones: a relay
keeps its session while somebody holds it (`KeptSession`).

## 6. Relay: `KwinRelay`, `MCKwinRelay`

`relay` holds the flags, the next request id and the reference count, `pending` the
slots, `caller[c]` a thread in `ksd_kwin_relay_call` (its local variables and where it
is). `requests`, `work` and `responses` are the socket and the daemon at its far end,
which receives in order, answers in any order or never, and may close. `reached` is
a history variable: the calls of which a byte was written; an attempt (`Write`) may fail
before its first byte, because the far end has closed or the deadline passes on the way
to the call of `ksd_transfer_until`.

A step is a critical section of the relay's mutex or one blocking read or write.
A thread asleep on the condition variable wakes on a broadcast (`Awake` moves every
sleeper at once), at its deadline, or spuriously. Frames carry the call they belong to,
which only the properties look at.

One run, `relay`: two callers, two slots, one call each, `FairSpec`. It reaches the
reuse of a slot whose old answer is still to come, both roles handed from either caller
to the other, and a retirement at every step; not the refusal of a call for want of a
slot, which needs as many callers as the code has slots and one more.

`BusyMeansNeverWritten` says what a caller may conclude. BUSY and UNAVAILABLE mean that
no byte was written, an answer that the request was. TIMEOUT says less than the comment
at `src/kwin_relay.c:404` ("Written and unanswered") and `docs/integrating.md:271`
("`TIMEOUT` means it was dispatched") have it: the code also answers TIMEOUT to a call whose
attempt failed before its first byte, and the property says only that the relay is then
broken. The code errs on the safe side, since what was not written is not retried; the
texts are what is inexact.

`RolesHandedOn` says that there is at most one writer and one reader, and that whoever
sleeps will be woken by somebody who is not asleep. `CallsEnd` has two halves: an
answer that has arrived ends its call with the help of the threads alone
(`ThreadFairness`), and if deadlines pass as well (`DeadlineFairness`, a premise of this
half only) every call returns. The first half does without deadlines on purpose, since
a deadline would hide a lost wakeup.

Proofs (`KwinRelayProofs`), for any finite set of threads (`CallersFinite`), any slots
(`SlotsOK`) and any number of calls: `TypeCorrect`, `AnswersMatchCorrect`, `BusyCorrect`,
`RolesCorrect` and `RefsCorrect`. The invariant adds four parts to them. `Roles`: the
flags name the one thread that writes and the one that reads, and sleepers wait for a
role that is taken. `Ownership`: a thread inside the call has a slot of its own, with an
id below the next one that no other active slot has. `Matching`: a frame anywhere between
the writer's hands and the reader's belongs to the call whose slot has its id, if there
is such a slot; since ids are never reused, a slot that is taken again cannot be answered
by a frame of its previous owner. `Written`: which calls have reached the socket, by
where their threads are. `CallsEnd` is liveness and model-checked only.

## 7. KWin channel: `KwinChannel`, `MCKwinChannel`

The daemon's end of the relay socket, and the script beyond it. `jobs` and `next` are
the queue, `inflight`, `parked` and `idle` the bus loop's tables, `daemon` its
generation and the compositor it is pinned to, `script` the loaded script (`load`
counts loads, whoever caused them). A lane of the script has no state of its own: it is
the call it has out, a message in `toDaemon`, a parked poll, or a reply in `toScript`.
`sent`, `ran` and `answers` are histories of the requests read, the operations started
and the responses written.

A step is one callback of the daemon's GLib loop or of the script. `RejectRequest`,
`RefuseRequest` and `SubmitRequest` are the three ends of `relay_readable`;
`HandlePollWork`, `HandlePollPark`, `HandleHello`, `HandleReport`, `ReportInterrupted`
and `RefuseCall` those of `handle_call`; `ReleasePark` and `Drain` are the two helpers
that change state for several of them. An error reply is modelled by its effect: KWin
drops the callback, so nothing reaches the script and the lane stays silent.

A `Fault` is anything the code treats as a failure: a reload of the script, a crash of
the compositor, the end of the daemon, a broken relay, an allocation that fails, a KWin
that does not answer the reload. `MaxFaults` bounds their number, and most properties
hold across them; `QueuedIsAnswered` and `StaysHealthy` say what holds until the next
one. The deadline of a job is not a fault: `DeadlinePasses` may happen at any time, and
a job past it is handed out with no budget left. `ksd_kwin_queue_expire`, which would
drop it, is called by the tests only, so it is not an action; the caller learns BUSY
from the script's report.

One run, `channel`: three requests in the order of their arrival, of the slow lane and
twice of the fast one, a queue of two slots, batches of two, one fault, and fairness.
Three requests for two slots fill the queue; two fast ones make a batch of more than
one; one fault is enough for a report of an old generation to meet a reused sequence
number, for a poll of a script that is gone to stay parked, and for half a report.
Deadlock is not checked: after a failed reload the channel really does wait for a user
who reloads the script, and the instance has finitely many requests.

`StartedOnceInOrder`: an operation is started at most once, and those of a lane in the
order of their requests. `AnswersTrue`: an answer is that of the request's own
operation, and BUSY means never started. `QueueConsistent`: the job queue, the table of
requests in flight and the messages on the bus agree. `QueuedIsAnswered`: while the
channel is healthy, jobs do not stay in the queue, and a daemon that was restarted, lost
its relay or outlived its compositor comes back to a healthy channel by itself.
`StaysHealthy`, an action property: only a fault takes a lane away.

Fairness: the daemon's loop and the script's dispatch what is ready, the idle timers and
the compositor check are periodic, the service manager restarts the daemon (`Recovery`).
Faults, requests and deadlines need never happen.

Left out: the queue's own `parked` flags, which only tests read; `Event`, which the
script never sends; the verbs' effect on windows, of which only "attempted" is kept, and
their bodies, which stand for the operation they describe. A compositor that is absent
when the daemon starts leaves it without a bus, outside this module.

A limit seen here: a job that was handed to a script which is unloaded before it reports
keeps its slot in both tables until the daemon ends (`src/kwin_bus.c:699`); such jobs are
`Stranded` and exempt from `QueuedIsAnswered`.

Proofs (`KwinChannelProofs`), for any finite numbers of requests and slots, any batch
size and any number of faults: `StartedOnceCorrect`, `AnswersTrueCorrect`,
`QueueConsistentCorrect` and `StaysHealthyCorrect`. None of the first three is inductive.
The invariant has these parts.

- `JobsOK`, `EntriesOK`: jobs are numbered in the order of their requests, and every job
  has one active entry of the bus table and the other way round. That the tables have as
  many free slots is then a bijection.
- `Ordered`: on each lane, all that has started comes before all that is in a batch on
  its way, the batches are in order among themselves, and all of them come before what
  is queued. What is in none of the three (`Live`) never starts.
- `Messages`: what a batch or a report says of each of its jobs. A sequence number of
  this generation belongs to the request it was handed out for, or to nobody any more
  (`Handed`); messages of older generations may name any number. A result BUSY is about
  an operation that is not live, any other about one that has started (`Outcome`).
- `Truth`: the same of finished jobs and of the answers, and no answer while an entry of
  the bus table waits for one.
- `Down`, `Loaded`: a stopped daemon has no jobs; only a script that was loaded calls.
- `Calm` and `Held`, while no fault has happened: one load, one generation and one
  compositor, so that no call is refused, and each job handed out is in one message.

A step that starts nothing keeps `Ordered` and `Live` (`OrderedKept`), which carries every
`Outcome` over (`MessagesKept`, `TruthKept`); only `OnBatch` starts operations, and what it
starts was at the front of its lane. Batches are built with `Ascending`, whose lemma
(`AscendingIs`, by counting the smaller elements) gives their order for a queue of any
size.

`StaysHealthyCorrect` is about one step, but the step starts in a state with any history
of faults, so it needs two more invariants. `Wires`: a load of the script shakes hands
once (`Greetings` counts the greeting as a call, as a reply and as the generation learnt
from it, at most 1 in all), calls only afterwards, as its compositor and with that
generation, and a poll is parked by a daemon of the generation its script knows. `Grip`:
no two reports describe the same operation, and every sequence that a message of this
daemon's generation names is still `DISPATCHED`. From them a call that a healthy daemon
refuses is not one of its script's (`RefusedIsForeign`). The rest is counting: a lane is
one token, which `Drops`, `Serves`, `Turns` and `Responds` carry between the two queues
of messages and the parked poll (`ServesSteady` and its siblings); every action is one of
these moves, a fault, or not enabled. TLC agreed on `Wires` and `Grip` with two faults
(1865501 states) before they were proved. `QueuedIsAnswered` is liveness and
model-checked only.

## 8. State stream: `StateStream`, `Client`, `MCStateStream`

`desktop` is the compositor's windows; `watch` the watch worker with the snapshot it
diffs against and the marks that ask for a refresh; `pipe` the frames of both hops from
the worker over the source thread to the lease's thread; `lease` the state half of the
`authority_lease` (table, pending snapshot, sequence); `socket` and `client` the lease
connection; `app` an application that applies events as `client.h` describes them; `rpc`
a thread that executes a window operation and waits for its effect in the table.

A step of the lease's thread is one critical section of the lease's mutex. The three
kinds of watch differ as the code does: a sampled Wayland watch refreshes on a timer, a
native one when its marks say so, an X11 watch follows X events. A refresh may fail
(`RefreshFails`) with an answer owed, which comes after the round trip gave up
(`LateAnswer`) or never, or with none owed, when memory or a title that is not UTF-8
stops it; the mark that asked for it is cleared in each case, and the watch ends with
`FailureLimit` failures in a row.

`aside` is the set of X11 windows that exist and that no list names (`Unlist`,
`Relist`). `refresh_clients` hides such a window but goes on following it, and an active
window is announced whether it is followed or not. A list that changes may be heard of
or not; a window that is listed again is mapped again, which is always heard of.
`Subscribe`, `SourceEvent`, `SourceEnds`, `Revoke`, `Regrant` and `LeaseEnds` are what
the lease's thread does; `SyncBegins`, `OperationSync` and their neighbours are
`operation_sync`, which decides once, when it begins, whether there is anything to wait
for. `Client` is the library's lease connection as operators on a record: frames met
while a call waits are queued, and the poll descriptor is a set of socket and eventfd.

Run `stream_mirror`: one window with three contents, three operations (close, set, move),
all three kinds of watch, room for four frames in the socket and three events in the
queue, two failures to the limit, three stimuli in all (changes of the desktop, faults,
subscriptions, revocations, operations). A snapshot of one window is three frames,
so a few deltas or a second snapshot overrun either limit; two stimuli make every race of
two events, the third lets something follow. The instance has 1258868 states.
Deadlock is not checked: after the stimuli there is nothing left to do.

* `MirrorFollowsTable`: the mirror, once it has seen the frames underway, is the table,
  and its sequence numbers have no gap;
* `SequenceIsFence`: an application that has applied the events up to the sequence of
  an operation sees its effect, also in the last contents of a mirror that a RESET or a
  revocation has made void meanwhile;
* `PollIsExact`: the poll descriptor is readable if and only if `ksd_state_next` has
  something to return;
* `Converges`: once the desktop rests, an open connection with a valid mirror has the
  right one, unless the last refresh of a native watch failed (`Missed`), and but for the
  X11 windows that no list names. TLC refutes it without either exemption.

Fairness: the loops of watch, lease and library run, and the application reads. A failed
refresh need not be repeated, and a late answer need not come.

Seen while modelling, and kept as the code has it. A native refresh that fails with no
answer owed is not repeated, because its mark was cleared before
(`src/wayland/wl_watch.c` 378-379): the mirror stays valid and stale until the next
event or the third failure. An X11 window outside the lists that becomes active is shown
and never withdrawn. A RESET leaves the lease's table behind, so an operation may still
be confirmed from it and return the RESET's sequence (`src/authorityd.c:2237`;
`docs/performance.md` lines 42-44 describe the sequence); what it confirms is then in
the contents the mirror had. A subscription whose source cannot be started closes the
lease connection. A revocation consumed silently by an RPC's HELLO is the finding of
section 3 and left out here.

Not modelled: `domains = 0`, clipboard, displays and keyboard, the stacking order, an
X11 window that is listed again without being mapped, the library's RPC connections and
its typed wrappers.

Proofs (`StateStreamProofs`), for any finite set of windows, any contents, operations and
kinds of watch (`StreamConstants`) and queues, sockets and stimuli of any size:
`MirrorCorrect`, `PollCorrect` and `FenceCorrect`.

`MirrorFollowsTable` speaks of what all the frames underway will make of the mirror, so
the proofs begin with that fold (`Heard`): a frame written to the socket is heard last, the
frame taken from the front first, and queue and socket may be split anywhere
(`HeardAppend`, `HeardHead`). These are inductions over the frames, by the one trace of
mirrors that the definition stands for. The invariant is `Typed`, `Following` and
`Signalled`. `MirrorFollowsTable` is not inductive: between the brackets of a snapshot the
next end of snapshot replaces the windows by what has been collected, so `Following` says
that also the half of a snapshot that the mirror will have collected is the lease's
pending one, and it says so of a mirror that is not valid too. `Signalled` says what the
eventfd stands for, which makes `PollIsExact` a fact about the two descriptors. The fence
is an action property of `OperationSync`: the effect is seen in the table under the mutex
under which the sequence is read, and `Following` carries both to the mirror.

`Converges` is liveness and model-checked only.

## 9. Capture: `CaptureWorker`, `KwinCapture`, `DisplayWorker`, `CaptureImage`

`CaptureWorker` is `ksd_capture_worker_main`: the bootstrap makes a process one of two
workers, and the module composes them.

`KwinCapture` is one capture through KWin by five processes. `auth` is the thread in
`ksd_capture_worker_execute`, `worker` the process it starts, `helper` the one that
`resolve_trusted_kwin_pid` forks to ask the bus which process KWin is, `child` the one that
talks to KWin, `kwin` the compositor with the request it holds; `pipe` counts rows and the
holders of its write end. A picture is counted in rows. KWin replies with the shape
before, while or after it writes, writes less or more than it said, hangs, or is
replaced; either process may be killed at any step; authorization may be withdrawn.

`DisplayWorker` is `serve_persistently` with the X11 and Wayland back ends: a display
connection opened on demand and dropped on failure, the outputs of an area one after
another, the shared segment of the X server, and the screenshot portal, whose response
may come before its handle. `CaptureImage` is the arithmetic of a composed area, with
the code's rounding, scales and eight transforms; a pixel's value is its origin, so a
faithful picture is one whose pixels come from the places their centres show.

Run `capture`: pictures of up to two rows, two instances of KWin; X11 and Wayland, two
requests of four kinds, one death of the display; areas across, inside, partly outside
and outside two outputs with scales 1, 3/2 and 5/3, all transforms for a whole output
(`MCScenes`). Where the compositor copies parts (screencopy), frames come as asked for,
from the last row first, turned, of another size, or empty. Two rows tell a part from a
whole; two requests let the second find what the first left. The instance has 735924
states. Deadlock is not checked: both workers end.

* `CaptureIsWhole`: OK means as many rows as KWin announced, and exactly those it wrote;
* `NothingOutlivesCapture`: when the thread goes on, the worker has ended and no child
  talks to KWin or is exposed to it. One process may be left: the helper sets no
  parent-death signal (`src/capture_worker.c` 845-888), so if its worker is killed while it
  starts, it asks the bus for up to 5 s more; then no child was forked and nobody reads
  the answer;
* `HealthyDisplayServes`: a request that nothing outside stood in the way of is answered
  OK, and no dialogue is left behind;
* `PictureIsFaithful`: every pixel of a composed area is the one the user saw there, with
  the premise `CompositorCrops` where the compositor copies parts;
* `CapturesReturn`: captures end, and a persistent worker answers or exits.

Fairness: authority, worker and child of the KWin capture wait with deadlines; of the
helper nothing is assumed. Of the persistent worker only the write of an answer, the
alarm and the monitor thread are relied on. KWin, the display server, the user and the
authority need not do anything.

Seen while modelling: `ksd_capture_worker_execute` overwrites REVOKED or TIMEOUT with
UNAVAILABLE when the worker had to be killed (`src/capture_worker.c` 784-798), and an
OK that was received when the worker then exits nonzero. The block at
`src/local_capture.c` 836-851 that would map failures cannot be reached, because
`ksd_result_init` has set INTERNAL; so every failed KWin capture is INTERNAL, where
`docs/integrating.md` 249-251 distinguishes them. The portal's three timeouts (5, 30 and
5 s) may add up to more than the alarm of 40 s and the relay's 35 s; time is not counted
here, so the alarm may go off at any moment. A call to the portal that times out before
its handle is known leaves the request open.

`capture_output` takes a screencopy frame at whatever size the compositor names and for
upright (`src/wayland/wl_capture.c` 262-270); a frame that is turned, or has another
size than the part asked for, is composed wrongly and answered OK.

Not modelled: capture of an X11 window through the composite extension, display requests
served by a one-shot worker. Outputs that change during an area make the picture fail
(`OutputChanges`); failed allocations are statuses.

Proofs (`CaptureWorkerProofs`). For the capture through KWin, for pictures of any size
and any number of instances of KWin (`RowsOK`): `WholeCorrect` and `NothingLeftCorrect`.
Neither property is inductive, because each speaks of the end of the processes only. The
invariant says what holds on the way there. `Processes`: the order in which they start
one another, and whom each takes along when it ends; a child that has not yet asked to
die with its parent has done nothing so far. `Writers`: who still has the pipe's write
end, so that end of file is seen only when KWin has let go of it. `Rows`: while the
worker drains, the rows in the spool and in the pipe are those KWin wrote, and once it
has seen end of file the spool has all of them. `Answers`: the child repeats what KWin
announced, the worker says OK only with a drained pipe and matching sizes, the
authority's thread only if the worker did, with the same picture.

For the worker that stays, for any scenes, requests and deaths of the display
(`DisplayConstants`): `HealthyCorrect`, from the invariant `DisplayInv`. `Connected`: a
request that nothing stood in the way of has a live connection when it uses one, because
a connection that failed was dropped with the answer before. `AreaTaken`: of a covered
area there is a segment as soon as an output that it touches has been passed.
`SegmentReleased`: the X server has a segment mapped only while it has still to detach
from it, so the round trip of `Sync` makes sealing succeed. `PortalHeard`: whoever waits
for the portal listened before the request existed, so that a response is heard.

`PictureCorrect` is `PictureIsFaithful` for every area and any number of outputs of any
position, size, resolution and transform: without a premise where the compositor copies
whole outputs, and under `CompositorCrops` where it copies parts. `PictureInv` says how
the worker comes to a picture: while the loop runs there is one segment of every output
passed that the area touches (`Gathered`), and what is answered has one of each
(`Pieced`). The rest is arithmetic, `ComposeShows`, in these steps.

- `mapped_edge` decides by centres: a pixel is past an edge exactly if its centre is past
  the offset (`EdgeDecides`). So a segment fills the pixels whose centre is on its output
  and no others (`SideOn`, `SideFilled`), and every pixel left blank is on no output.
- Each end of a segment is an end of the output or of the area. At such an end picture
  and output agree to half a pixel of each; in between `compose_segment` interpolates, so
  the error of a pixel is a mean of the errors at the two ends and less than one pixel of
  the output (`FineUpper`, `FineLower`).
- This needs a picture at least as fine as the output. `compose_capture` takes the scale
  of the sharpest segment, so only the rounding of the picture's size can make it coarser,
  and then a segment has as many pixels as the picture has for it, or one more
  (`CoarseCount`); the code reads pixel after pixel (`CoarseUpper`, `CoarseLower`).
- `inverse_transform` undoes what the compositor does in all eight orientations and for
  every size (`Oriented`), and a place in a buffer has one origin (`PlacedOnce`).

The theorem is about whole numbers without a limit; `rectangle_valid` and the checks of
buffer shapes keep the code's numbers far below the 64 bits it computes with.
`CompositorCrops` is part of what is proved, not an assumption behind it: the frame of
every output that the area touches has the size of the part asked for, which is the
pixels whose centre lies in that part, and is upright.

`CapturesReturn` is liveness and model-checked only.

## 10. Session and provider: `ShellSession`, `ProviderCalls`, `MCProviderCalls`

`manager` is the environment of the user manager, `shell` the process of the shell and
its extension, `daemon` the session daemon (`ksd_daemon_main`), `handlers` the
authority's threads in `handle_backend_connection` and `reg` the user's registration.
`entry` is the cached connection to the extension, `conns` the connection objects with
their references, `callers` threads inside a call or a watch.

The daemon has no memory beyond a process: it waits for a session, resolves a backend,
registers, rechecks, and exits when anything changed. systemd starts it again
(`Launch`), but only `Burst` times in an interval (`StartLimitBurst` in
`data/keysharp-desktop.service.in`); then it gives the unit up (`GiveUp`) until somebody
or the next login starts it (`StartedAgain`). A handler keeps apart whether the daemon's
process is `alive` and whether its connection is `open`: another process may hold a copy
of the descriptor of a daemon that was killed, and `PollDaemon` looks at both. The
authority checks the peer, asks who owns the provider's name, stores the registration
and polls the daemon. `provider_connection_get` is `Lookup`, `Validate`,
`OpenConnection` and `Insert`, with the cache's mutex free in between.

| run | question | instance |
|---|---|---|
| `session` | references, calls to the right shell, convergence | 2 callers, 4 environments (none, shell, other Wayland, X11), 2 handlers, 1 attempt, 2 changes, 1 start in an interval; 2827333 states |
| `session_pinned` | does the daemon follow a replaced shell: **violated** | the same without callers |

Two changes are a session that ends and another that begins, a shell and its extension
replaced, or one of them with a restart of the daemon or the authority. Both callers may
find the cache empty, share a connection, or see it fail at once. `Burst` is 1 where the
unit has 5: an interval may pass at any time or not, so with 1 every restart may be in
time or be the one too many, which no larger value adds to. Deadlock is not checked:
with the changes used up and the calls made the instance rests.

* `ConnectionsCounted`: a connection has one reference for each of its users;
* `CallsReachAdmittedShell`: a call goes to the process of the registration it was
  admitted with;
* `Settles`: once changes stop there is one registration, the running daemon's, of the
  right backend with the right operations, unless systemd has given the unit up.

Fairness: the daemon's loop and its service within the start limit, and each handler.
That an interval passes is not assumed. Callers may stop.

`session_pinned` is a finding: the recheck (`src/session_backend.c:312`) asks whether the
provider's name has an owner, not which; a shell replaced between two rechecks keeps a
registration that names the process that is gone, against `docs/integrating.md:209`. KWin
compares the unique owner (`src/kwin_bus.c` 743-756).

Limits: the stop of the service at logout (`PartOf=graphical-session.target`) is left
out. A shell provider in a session whose environment does not name the shell is resolved
but refused, and the daemon restarts until systemd gives it up, 5 starts in 60 s with 2
s between them; `Settles` excludes both the refusal and the unit that was given up. The
windows a watch lists first are another caller's call. Marshalling (`src/provider.c`
428-1178) and event conversion (1247-1373) are not modelled. The connection's "closed"
signal is delivered in a context that nobody iterates, so only failed calls and lookups
drop a connection.

Proofs (`ProviderCallsProofs`), for any finite number of threads (`CallersFinite`), with
as many connection objects as the cache and the threads can hold: `CountedCorrect` and
`AdmittedShellCorrect`. The invariant adds what a thread holds by where it is (`Shaped`),
that the far end of the cached connection is the process the cache names and that of a
thread's connection its own registration's (`Peers`), and that a connection just opened
has its thread as its only user (`Unshared`), without which putting it into the cache
could not be shown to count right. A free object is always there, by a pigeonhole
argument. What session, shell and daemon do is not looked at: none of their steps changes
the cache. `Settles` is liveness and model-checked only.

## 11. Not modelled

Message encodings and the validation of single operations and results (pure functions
of one message), the JSON envelope of KWin jobs, the effect of window verbs inside KWin
and the shells, the extension's own operations, Hyprland's commands and event stream,
clipboard transfers, the calls of the Wayland, X11 and D-Bus libraries themselves, socket
paths and file checks, the command line and the installer. Section 2 says which of these
are worth modelling next.

Two limits of the code are known and no property states them: the generation may move
while a released result is being written or during `operation_sync`'s wait of up to 2 s
(`src/authorityd.c:2580`), and a reader whose deadline passes in the middle of another
caller's frame breaks the relay for everyone (`src/kwin_relay.c:357`).
