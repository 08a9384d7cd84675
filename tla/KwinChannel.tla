---------------------------- MODULE KwinChannel ----------------------------
(***************************************************************************)
(* The KWin channel: the session daemon's job queue (src/src/kwin_jobs.c), *)
(* its bus loop (src/src/kwin_bus.c) and the script inside the compositor  *)
(* (src/providers/kwin/contents/code/main.js).  A script cannot be called. *)
(* It polls, one call per lane; the daemon parks a poll until it has work  *)
(* or an idle timer fires, answers it with a batch, and the script sends   *)
(* the results back in a report before it polls that lane again.           *)
(*                                                                         *)
(* The daemon is one GLib loop and the script runs on the compositor's     *)
(* main thread, so a step is one callback of either.  Calls and replies    *)
(* travel over D-Bus in order.  An error reply never reaches the script,   *)
(* because callDBus drops the callback: an error is the absence of a       *)
(* reply, and the lane that waits for it falls silent.                     *)
(***************************************************************************)
EXTENDS Integers, Sequences, FiniteSets, Functions

CONSTANTS
    Requests,   \* the request frames the authority relays, numbered in the
                \* order in which they arrive
    LaneOf,     \* ksd_kwin_lane_for of a request's opcode
    Slots,      \* KSD_KWIN_MAX_JOBS entries, as numbers
    FastBatch,  \* KSD_KWIN_JOBS_PER_REPLY_FAST
    MaxFaults   \* bound on restarts, broken sockets and failed allocations

Lanes == {"fast", "slow"}

ASSUME ChannelConstants ==
    /\ IsFiniteSet(Requests) /\ Requests = 1 .. Cardinality(Requests)
    /\ LaneOf \in [Requests -> Lanes]
    /\ Slots \subseteq Nat \ {0} /\ IsFiniteSet(Slots)
    /\ FastBatch \in Nat \ {0}
    /\ MaxFaults \in Nat

VARIABLES
    kwin,       \* the owner of org.kde.KWin: which run of the compositor
    script,     \* the loaded script: which load, its generation, running
    toDaemon,   \* calls on their way to the owner of the provider name
    toScript,   \* replies on their way back
    daemon,     \* the session daemon: up, past on_name_acquired, generation, peer
    jobs,       \* ksd_kwin_queue.jobs
    next,       \* next_sequence and next_ticket, which move together
    inflight,   \* ksd_kwin_bus.inflight
    parked,     \* ksd_kwin_bus.parked: which load of the script holds the poll
    idle,       \* ksd_kwin_bus.idle_source is armed
    relay,      \* the relay socket has not been shut down
    sent,       \* how many requests the daemon has read
    ran,        \* operations the script started, in order
    answers,    \* response frames written for each request
    faults      \* faults so far

queueVars == <<jobs, next, inflight>>
parkVars == <<parked, idle>>
busVars == <<kwin, daemon, relay>>
history == <<sent, ran, answers>>
vars == <<kwin, script, toDaemon, toScript, daemon, jobs, next, inflight,
          parked, idle, relay, sent, ran, answers, faults>>

NoPoll == 0
NoRequest == 0

Statuses == {"OK", "FAILED", "BUSY", "INTERNAL", "INVALID_REQUEST"}
Subjects == Requests \cup {NoRequest}

JobRecord ==
    [state: {"FREE", "QUEUED", "DISPATCHED", "DONE"}, seq: Nat,
     lane: Lanes, of: Subjects, late: BOOLEAN, status: Statuses,
     reply: Subjects]

\* release_slot leaves a zeroed slot.
FreeJob ==
    [state |-> "FREE", seq |-> 0, lane |-> "fast", of |-> NoRequest,
     late |-> FALSE, status |-> "OK", reply |-> NoRequest]

InflightRecord == [active: BOOLEAN, request: Subjects, seq: Nat]
NotInflight == [active |-> FALSE, request |-> NoRequest, seq |-> 0]

\* What a poll reply says of a job, and what a report says of its result.
\* "of" stands for the body: which operation it asks for or describes.
Dispatched == [seq: Nat, of: Subjects, late: BOOLEAN]
Results == [seq: Nat, of: Subjects, status: Statuses]

CallMessage ==
    [kind: {"Hello", "Poll", "Report"}, from: Nat, load: Nat, gen: Nat,
     lane: Lanes, results: Seq(Results)]
ReplyMessage ==
    [kind: {"Hello", "Batch", "Ack"}, gen: Nat, lane: Lanes,
     batch: Seq(Dispatched)]

Init ==
    /\ kwin = 1
    /\ script = [load |-> 0, gen |-> 0, running |-> FALSE]
    /\ toDaemon = <<>>
    /\ toScript = <<>>
    /\ daemon = [up |-> TRUE, named |-> FALSE, gen |-> 1, peer |-> 1]
    /\ jobs = [s \in Slots |-> FreeJob]
    /\ next = 1
    /\ inflight = [s \in Slots |-> NotInflight]
    /\ parked = [l \in Lanes |-> NoPoll]
    /\ idle = [l \in Lanes |-> FALSE]
    /\ relay = TRUE
    /\ sent = 0
    /\ ran = <<>>
    /\ answers = [r \in Requests |-> <<>>]
    /\ faults = 0

-----------------------------------------------------------------------------
(* Helpers *)

\* A step that goes wrong when "bad" holds uses up one fault.
Fault(bad) ==
    /\ bad => faults < MaxFaults
    /\ faults' = IF bad THEN faults + 1 ELSE faults

\* Mutant: every generation is accepted.
AnyGeneration(g) == TRUE

SameGeneration(g) == g = daemon.gen

\* Mutant: the slow lane has no capacity of its own.
CapacityFastOnly(l) == IF l = "fast" THEN FastBatch ELSE 0

Capacity(l) == IF l = "fast" THEN FastBatch ELSE 1

Queued(js, l) == {s \in Slots : js[s].state = "QUEUED" /\ js[s].lane = l}

\* ksd_kwin_queue_take: the oldest queued jobs of a lane, up to its cap.
Taken(js, l) ==
    {s \in Queued(js, l) :
        Cardinality({t \in Queued(js, l) : js[t].seq < js[s].seq})
            < Capacity(l)}

\* Mutant: a job that is handed out stays queued.
DispatchUnmarked(js, l) == js

Dispatch(js, l) ==
    [s \in Slots |-> IF s \in Taken(js, l)
                     THEN [js[s] EXCEPT !.state = "DISPATCHED"] ELSE js[s]]

\* A set of numbers from the smallest to the largest.
Ascending(S) ==
    [n \in 1..Cardinality(S) |->
        CHOOSE i \in S : Cardinality({j \in S : j < i}) = n - 1]

\* dispatch_jobs: the batch, oldest first, each with what is left of its time.
Batch(js, l) ==
    LET order == Ascending({js[s].seq : s \in Taken(js, l)})
        job(q) == js[CHOOSE s \in Taken(js, l) : js[s].seq = q]
    IN  [i \in DOMAIN order |->
            [seq |-> order[i], of |-> job(order[i]).of,
             late |-> job(order[i]).late]]

\* A reply to a load of the script that is gone has nobody to call back.
ReplyTo(load, m) ==
    toScript' = IF load = script.load THEN Append(toScript, m) ELSE toScript

BatchReply(js, l) ==
    [kind |-> "Batch", gen |-> daemon.gen, lane |-> l, batch |-> Batch(js, l)]

\* release_park, with the queue as its caller has left it and the poll the
\* caller parks next, if any.  The reply may fail to format, after the jobs
\* were taken.
ReleasePark(js, l, successor, formatted) ==
    /\ jobs' = Dispatch(js, l)
    /\ parked' = [parked EXCEPT ![l] = successor]
    /\ idle' = [idle EXCEPT ![l] = successor # NoPoll]
    /\ IF formatted THEN ReplyTo(parked[l], BatchReply(js, l))
                    ELSE UNCHANGED toScript

\* callDBus: a call to a name nobody owns is an error at once.
Call(load, gen, calls) ==
    toDaemon' = IF daemon.up
                THEN toDaemon \o [i \in 1..Len(calls) |->
                        [kind |-> calls[i].kind, from |-> kwin, load |-> load,
                         gen |-> gen, lane |-> calls[i].lane,
                         results |-> calls[i].results]]
                ELSE toDaemon

HelloCall == [kind |-> "Hello", lane |-> "fast", results |-> <<>>]
PollCall(l) == [kind |-> "Poll", lane |-> l, results |-> <<>>]
ReportCall(l, rs) == [kind |-> "Report", lane |-> l, results |-> rs]

-----------------------------------------------------------------------------
(* The relay socket *)

\* relay_answer: one response frame.  A frame that cannot be written whole
\* shuts the socket down and ends the loop; one that cannot be put together
\* for lack of memory is dropped without a word.
Fates == {"written", "broken", "dropped"}

Answer(r, status, of, fate) ==
    /\ answers' = IF fate = "written"
                  THEN [answers EXCEPT ![r] =
                            Append(@, [status |-> status, of |-> of])]
                  ELSE answers
    /\ relay' = (fate # "broken")

\* relay_readable: ksd_kwin_request_text does not translate the request.
RejectRequest(r) ==
    /\ daemon.up /\ relay
    /\ r = sent + 1
    /\ sent' = r
    /\ \E fate \in Fates :
        /\ Fault(fate # "written")
        /\ Answer(r, "INVALID_REQUEST", NoRequest, fate)
    /\ UNCHANGED <<kwin, script, toDaemon, toScript, daemon, queueVars,
                   parkVars, ran>>

FreeInflight == {s \in Slots : ~inflight[s].active}
FreeJobs == {s \in Slots : jobs[s].state = "FREE"}

\* relay_readable: no slot in the bus table, or ksd_kwin_queue_submit refuses
\* because no slot is free or the copy of the body cannot be allocated.
RefuseRequest(r) ==
    /\ daemon.up /\ relay
    /\ r = sent + 1
    /\ sent' = r
    /\ \E fate \in Fates :
        LET starved == FreeInflight # {} /\ FreeJobs # {}
        IN  /\ Fault(starved \/ fate # "written")
            /\ next' = IF starved THEN next + 1 ELSE next
            /\ Answer(r, "BUSY", NoRequest, fate)
    /\ UNCHANGED <<kwin, script, toDaemon, toScript, daemon, jobs, inflight,
                   parkVars, ran>>

First(S) == CHOOSE s \in S : \A t \in S : s <= t

\* ksd_kwin_queue_submit: the first free slot.
Submitted(r) ==
    [jobs EXCEPT ![First(FreeJobs)] =
        [FreeJob EXCEPT !.state = "QUEUED", !.seq = next,
                        !.lane = LaneOf[r], !.of = r]]

\* relay_readable: queue the request and wake the lane it belongs to.
SubmitRequest(r) ==
    /\ daemon.up /\ relay
    /\ r = sent + 1
    /\ FreeInflight # {} /\ FreeJobs # {}
    /\ sent' = r
    /\ next' = next + 1
    /\ inflight' = [inflight EXCEPT ![First(FreeInflight)] =
                        [active |-> TRUE, request |-> r, seq |-> next]]
    /\ \/ /\ parked[LaneOf[r]] = NoPoll
          /\ jobs' = Submitted(r)
          /\ UNCHANGED <<toScript, parkVars, faults>>
       \/ /\ parked[LaneOf[r]] # NoPoll
          /\ \E formatted \in BOOLEAN :
                /\ Fault(~formatted)
                /\ ReleasePark(Submitted(r), LaneOf[r], NoPoll, formatted)
    /\ UNCHANGED <<busVars, script, toDaemon, ran, answers>>

\* relay_readable: a hangup, a short read or an oversized frame.
RelayBreaks ==
    /\ daemon.up /\ relay
    /\ Fault(TRUE)
    /\ relay' = FALSE
    /\ UNCHANGED <<kwin, script, toDaemon, toScript, daemon, queueVars,
                   parkVars, history>>

\* The deadline of a queued job passes; nothing in the daemon acts on it.
DeadlinePasses(s) ==
    /\ jobs[s].state = "QUEUED" /\ ~jobs[s].late
    /\ jobs' = [jobs EXCEPT ![s].late = TRUE]
    /\ UNCHANGED <<busVars, script, toDaemon, toScript, next, inflight,
                   parkVars, history, faults>>

-----------------------------------------------------------------------------
(* The calls of the script: handle_call *)

\* What ends a call in an error: not the compositor this daemon serves, or
\* not the generation it issued.
Allowed(m) ==
    /\ m.from = daemon.peer
    /\ m.kind # "Hello" => SameGeneration(m.gen)

Receive(m) ==
    /\ daemon.up
    /\ toDaemon # <<>>
    /\ m = Head(toDaemon)
    /\ toDaemon' = Tail(toDaemon)

HandleHello ==
    /\ \E m \in Range(toDaemon), formatted \in BOOLEAN :
        /\ Receive(m) /\ Allowed(m) /\ m.kind = "Hello"
        /\ Fault(~formatted)
        /\ IF formatted
           THEN ReplyTo(m.load, [kind |-> "Hello", gen |-> daemon.gen,
                                 lane |-> "fast", batch |-> <<>>])
           ELSE UNCHANGED toScript
    /\ UNCHANGED <<busVars, script, queueVars, parkVars, history>>

\* ksd_kwin_queue_poll finds work: the poll is answered on the spot.
HandlePollWork ==
    /\ \E m \in Range(toDaemon), formatted \in BOOLEAN :
        /\ Receive(m) /\ Allowed(m) /\ m.kind = "Poll"
        /\ Queued(jobs, m.lane) # {}
        /\ Fault(~formatted)
        /\ jobs' = Dispatch(jobs, m.lane)
        /\ IF formatted THEN ReplyTo(m.load, BatchReply(jobs, m.lane))
                        ELSE UNCHANGED toScript
    /\ UNCHANGED <<busVars, script, next, inflight, parkVars, history>>

\* It finds none: the poll is parked and its idle timer armed.  A poll that
\* was parked before it is released first.
HandlePollPark ==
    /\ \E m \in Range(toDaemon) :
        /\ Receive(m) /\ Allowed(m) /\ m.kind = "Poll"
        /\ Queued(jobs, m.lane) = {}
        /\ \/ /\ parked[m.lane] = NoPoll
              /\ parked' = [parked EXCEPT ![m.lane] = m.load]
              /\ idle' = [idle EXCEPT ![m.lane] = TRUE]
              /\ UNCHANGED <<jobs, toScript>>
           \/ /\ parked[m.lane] # NoPoll
              /\ ReleasePark(jobs, m.lane, m.load, TRUE)
    /\ UNCHANGED <<busVars, script, next, inflight, history, faults>>

\* idle_fast, idle_slow.
IdleTimer(l) ==
    /\ daemon.up /\ idle[l]
    /\ \E formatted \in BOOLEAN :
        /\ Fault(~formatted)
        /\ ReleasePark(jobs, l, NoPoll, formatted)
    /\ UNCHANGED <<busVars, script, toDaemon, next, inflight, history>>

\* The slot ksd_kwin_queue_find returns for a dispatched sequence.
Named(seq) ==
    {s \in Slots : jobs[s].state = "DISPATCHED" /\ jobs[s].seq = seq}

\* The queue's half of accepting a report: every result names a job that was
\* handed out and has not been reported yet.
ReportMatches(m) ==
    /\ SameGeneration(m.gen)
    /\ \A i \in DOMAIN m.results : Named(m.results[i].seq) # {}

\* ksd_kwin_queue_complete on the first n results of a report.
Completed(rs, n) ==
    [s \in Slots |->
        IF \E i \in 1..n : s \in Named(rs[i].seq)
        THEN LET i == CHOOSE k \in 1..n : s \in Named(rs[k].seq)
             IN  [jobs[s] EXCEPT !.state = "DONE", !.status = rs[i].status,
                                 !.reply = rs[i].of]
        ELSE jobs[s]]

\* Every refusal is an error reply: the sender is not served, or its report
\* does not match.
RefuseCall ==
    /\ \E m \in Range(toDaemon) :
        /\ Receive(m)
        /\ ~Allowed(m) \/ (m.kind = "Report" /\ ~ReportMatches(m))
    /\ UNCHANGED <<busVars, script, toScript, queueVars, parkVars, history,
                   faults>>

\* A result that cannot be copied stops the report half way, and an
\* acknowledgement that cannot be formatted at its end: the results before it
\* stay in the queue, nothing is drained, the script gets an error.
ReportInterrupted ==
    /\ \E m \in Range(toDaemon) :
        /\ Receive(m) /\ Allowed(m) /\ m.kind = "Report"
        /\ ReportMatches(m)
        /\ \E n \in 0..Len(m.results) : jobs' = Completed(m.results, n)
    /\ Fault(TRUE)
    /\ UNCHANGED <<busVars, script, toScript, next, inflight, parkVars,
                   history>>

\* relay_drain: the bus entries whose job is done, and the job of each.
Done(js) ==
    {s \in Slots :
        /\ inflight[s].active
        /\ \E t \in Slots : js[t].state = "DONE" /\ js[t].seq = inflight[s].seq}

\* Mutant: the drain takes any finished job for its own.
JobOfAny(js, s) == CHOOSE t \in Slots : js[t].state = "DONE"

JobOf(js, s) ==
    CHOOSE t \in Slots : js[t].state # "FREE" /\ js[t].seq = inflight[s].seq

\* A body that does not translate for its opcode becomes INTERNAL.
WireStatus(status, translates) ==
    IF status = "OK" /\ ~translates THEN "INTERNAL" ELSE status

\* Every done entry is answered, released and made free, in table order.  The
\* first write that fails shuts the socket down, so that write and the ones
\* after it are lost while the loop still releases what it passes.
Drain(js) ==
    \E cut \in Done(js) \cup {0}, garbled, dropped \in SUBSET Done(js) :
        LET written == {s \in Done(js) \ dropped : relay /\ (cut = 0 \/ s < cut)}
            job(s) == js[JobOf(js, s)]
            frame(s) == [status |-> WireStatus(job(s).status, s \notin garbled),
                         of |-> job(s).reply]
            freed == {JobOf(js, s) : s \in Done(js)}
        IN  /\ cut # 0 => relay
            /\ Fault(cut # 0 \/ dropped # {})
            /\ relay' = (relay /\ cut = 0)
            /\ answers' =
                [r \in Requests |->
                    IF \E s \in written : inflight[s].request = r
                    THEN Append(answers[r],
                           frame(CHOOSE s \in written : inflight[s].request = r))
                    ELSE answers[r]]
            /\ jobs' = [t \in Slots |-> IF t \in freed THEN FreeJob ELSE js[t]]
            /\ inflight' = [s \in Slots |-> IF s \in Done(js)
                                            THEN NotInflight ELSE inflight[s]]

\* A report that is accepted whole is followed at once by relay_drain.
HandleReport ==
    /\ \E m \in Range(toDaemon) :
        /\ Receive(m) /\ Allowed(m) /\ m.kind = "Report"
        /\ ReportMatches(m)
        /\ Drain(Completed(m.results, Len(m.results)))
        /\ ReplyTo(m.load, [kind |-> "Ack", gen |-> daemon.gen,
                            lane |-> m.lane, batch |-> <<>>])
    /\ UNCHANGED <<kwin, daemon, script, next, parkVars, sent, ran>>

-----------------------------------------------------------------------------
(* The callbacks of the script *)

Callback(kind) ==
    /\ toScript # <<>>
    /\ Head(toScript).kind = kind
    /\ toScript' = Tail(toScript)

\* start: the generation is learnt and both lanes are polled.
OnHello ==
    /\ Callback("Hello")
    /\ script' = [script EXCEPT !.gen = Head(toScript).gen, !.running = TRUE]
    /\ Call(script.load, Head(toScript).gen,
            <<PollCall("fast"), PollCall("slow")>>)
    /\ UNCHANGED <<busVars, queueVars, parkVars, history, faults>>

\* executeJob: out of budget is BUSY, everything else is attempted, whatever
\* becomes of it.
Result(job, outcome) ==
    [seq |-> job.seq, of |-> job.of,
     status |-> IF job.late THEN "BUSY" ELSE outcome]

InTime(job) == ~job.late

\* pollLane: the whole batch runs in one callback.
OnBatch ==
    /\ Callback("Batch")
    /\ LET m == Head(toScript)
           readable == m.gen = script.gen
           work == IF script.running /\ readable THEN m.batch ELSE <<>>
           attempted == Ascending({i \in DOMAIN work : InTime(work[i])})
       IN  /\ script' = [script EXCEPT !.running = script.running /\ readable]
           /\ ran' = ran \o [i \in DOMAIN attempted |-> work[attempted[i]].of]
           /\ \/ work # <<>> /\ \E o \in [1..Len(work) -> {"OK", "FAILED"}] :
                    Call(script.load, script.gen,
                         <<ReportCall(m.lane,
                             [i \in 1..Len(work) |-> Result(work[i], o[i])])>>)
              \/ /\ work = <<>>
                 /\ Call(script.load, script.gen,
                         IF script'.running THEN <<PollCall(m.lane)>> ELSE <<>>)
    /\ UNCHANGED <<busVars, queueVars, parkVars, sent, answers, faults>>

\* Mutant: a lane is not polled again after its report.
OnAckOnce ==
    /\ Callback("Ack")
    /\ UNCHANGED <<busVars, script, toDaemon, queueVars, parkVars, history,
                   faults>>

\* pollLane, once the report is acknowledged.
OnAck ==
    /\ Callback("Ack")
    /\ Call(script.load, script.gen,
            IF script.running THEN <<PollCall(Head(toScript).lane)>> ELSE <<>>)
    /\ UNCHANGED <<busVars, script, queueVars, parkVars, history, faults>>

-----------------------------------------------------------------------------
(* Restarts *)

\* A new load of the script; its predecessor's callbacks are gone with it.
\* start says Hello.
Load(owned, from) ==
    /\ script' = [load |-> script.load + 1, gen |-> 0, running |-> FALSE]
    /\ toScript' = <<>>
    /\ toDaemon' = IF owned
                   THEN Append(toDaemon,
                          [kind |-> "Hello", from |-> from,
                           load |-> script.load + 1, gen |-> 0,
                           lane |-> "fast", results |-> <<>>])
                   ELSE toDaemon

Unload ==
    /\ script' = [load |-> script.load + 1, gen |-> 0, running |-> FALSE]
    /\ toScript' = <<>>
    /\ UNCHANGED toDaemon

\* Mutant: a script that is already loaded is left alone.
NameAcquiredOnly ==
    /\ daemon.up /\ ~daemon.named
    /\ daemon' = [daemon EXCEPT !.named = TRUE]
    /\ UNCHANGED <<kwin, script, toDaemon, toScript, relay, queueVars,
                   parkVars, history, faults>>

\* on_name_acquired: the script is reloaded so that it shakes hands with this
\* daemon.  KWin may answer none of the calls in time, or only the first.
NameAcquired ==
    /\ daemon.up /\ ~daemon.named
    /\ daemon' = [daemon EXCEPT !.named = TRUE]
    /\ \/ Load(TRUE, kwin) /\ Fault(FALSE)
       \/ Unload /\ Fault(TRUE)
       \/ UNCHANGED <<script, toDaemon, toScript>> /\ Fault(TRUE)
    /\ UNCHANGED <<kwin, relay, queueVars, parkVars, history>>

\* KWin reloads its scripts, without the daemon.
ScriptReloaded ==
    /\ Fault(TRUE)
    /\ Load(daemon.up, kwin)
    /\ UNCHANGED <<busVars, queueVars, parkVars, history>>

\* The compositor crashes and another takes its name on the bus.
CompositorRestarts ==
    /\ Fault(TRUE)
    /\ kwin' = kwin + 1
    /\ Load(daemon.up, kwin + 1)
    /\ UNCHANGED <<daemon, relay, queueVars, parkVars, history>>

\* ksd_kwin_bus_stop and ksd_kwin_queue_destroy: parked polls get an error,
\* and so does every call the daemon has not handled.
Stop ==
    /\ daemon' = [daemon EXCEPT !.up = FALSE, !.named = FALSE]
    /\ toDaemon' = <<>>
    /\ jobs' = [s \in Slots |-> FreeJob]
    /\ inflight' = [s \in Slots |-> NotInflight]
    /\ parked' = [l \in Lanes |-> NoPoll]
    /\ idle' = [l \in Lanes |-> FALSE]
    /\ UNCHANGED <<kwin, script, toScript, next, relay, history>>

\* relay_failed has ended the loop.
StopAfterRelayFailure == daemon.up /\ ~relay /\ Stop /\ Fault(FALSE)

\* compositor_current finds another owner of org.kde.KWin.
StopAfterCompositorChange ==
    daemon.up /\ kwin # daemon.peer /\ Stop /\ Fault(FALSE)

\* on_name_lost, authority_readable, or compositor_current without an answer.
StopOnRequest == daemon.up /\ Stop /\ Fault(TRUE)

\* The service manager starts the daemon again: a fresh generation, and the
\* peer is whoever owns org.kde.KWin now.
DaemonStarts ==
    /\ ~daemon.up
    /\ daemon' = [up |-> TRUE, named |-> FALSE, gen |-> daemon.gen + 1,
                  peer |-> kwin]
    /\ relay' = TRUE
    /\ next' = 1
    /\ UNCHANGED <<kwin, script, toDaemon, toScript, jobs, inflight, parkVars,
                   history, faults>>

-----------------------------------------------------------------------------

DaemonStep ==
    \/ RefuseCall \/ HandleHello \/ HandlePollWork \/ HandlePollPark
    \/ ReportInterrupted \/ HandleReport

ScriptStep == OnHello \/ OnBatch \/ OnAck

Restart ==
    \/ NameAcquired \/ ScriptReloaded \/ CompositorRestarts
    \/ StopAfterRelayFailure \/ StopAfterCompositorChange \/ StopOnRequest
    \/ DaemonStarts

Next ==
    \/ \E r \in Requests :
        RejectRequest(r) \/ RefuseRequest(r) \/ SubmitRequest(r)
    \/ \E s \in Slots : DeadlinePasses(s)
    \/ \E l \in Lanes : IdleTimer(l)
    \/ RelayBreaks
    \/ DaemonStep
    \/ ScriptStep
    \/ Restart

Spec == Init /\ [][Next]_vars

\* What the daemon and the service manager do on their own until the channel
\* is up again; one of these steps leads to the next.
Recovery ==
    NameAcquired \/ StopAfterRelayFailure \/ StopAfterCompositorChange \/ DaemonStarts

\* Both loops keep dispatching what is ready, the idle and compositor timers
\* are periodic, and the service manager restarts the daemon.
FairSpec ==
    /\ Spec
    /\ WF_vars(DaemonStep)
    /\ WF_vars(ScriptStep)
    /\ \A l \in Lanes : WF_vars(IdleTimer(l))
    /\ WF_vars(Recovery)

-----------------------------------------------------------------------------
(* Properties *)

\* Every variable has its type and no more faults are counted than the bound.
TypeOK ==
    /\ kwin \in Nat
    /\ script \in [load: Nat, gen: Nat, running: BOOLEAN]
    /\ \A i \in DOMAIN toDaemon : toDaemon[i] \in CallMessage
    /\ \A i \in DOMAIN toScript : toScript[i] \in ReplyMessage
    /\ daemon \in [up: BOOLEAN, named: BOOLEAN, gen: Nat, peer: Nat]
    /\ jobs \in [Slots -> JobRecord]
    /\ next \in Nat
    /\ inflight \in [Slots -> InflightRecord]
    /\ parked \in [Lanes -> Nat]
    /\ idle \in [Lanes -> BOOLEAN]
    /\ relay \in BOOLEAN
    /\ sent \in Requests \cup {0}
    /\ ran \in Seq(Requests)
    /\ answers \in [Requests -> Seq([status: Statuses, of: Subjects])]
    /\ faults \in 0..MaxFaults

AnswersOf(r) == Range(answers[r])

\* An operation is started at most once and answered at most once, whatever is
\* restarted between its submission and its report, and the operations of a
\* lane start in the order their requests arrived.
StartedOnceInOrder ==
    /\ \A i, j \in DOMAIN ran : ran[i] = ran[j] => i = j
    /\ \A r \in Requests : Len(answers[r]) <= 1
    /\ \A i, j \in DOMAIN ran :
        i < j /\ LaneOf[ran[i]] = LaneOf[ran[j]] => ran[i] < ran[j]

\* An answer tells the truth about its own operation: BUSY, whether the daemon
\* or the script said it, is safe to retry, because the operation was not
\* started and never will be; a result of the script describes the operation
\* it answers, which that script did start, even though sequences start over
\* with every daemon.
AnswersTrue ==
    \A r \in Requests : \A a \in AnswersOf(r) :
        /\ a.status = "BUSY" => r \notin Range(ran)
        /\ a.status \in {"OK", "FAILED", "INTERNAL"} =>
               a.of = r /\ r \in Range(ran)

\* Work never waits beside a parked poll: release_park at submission takes it,
\* so a lane with a poll parked has nothing queued and its timer is armed.
ParkedLaneIsIdle ==
    \A l \in Lanes :
        /\ parked[l] # NoPoll => Queued(jobs, l) = {}
        /\ idle[l] <=> parked[l] # NoPoll

\* The bus table and the queue agree: an active entry has exactly one job, of
\* its request, and every job has an entry, so neither leaks a slot.
TablesAgree ==
    /\ \A s \in Slots : inflight[s].active =>
        \E t \in Slots :
            /\ jobs[t].state # "FREE"
            /\ jobs[t].seq = inflight[s].seq
            /\ jobs[t].of = inflight[s].request
    /\ Cardinality(FreeJobs) = Cardinality(FreeInflight)

\* The jobs the script or a message to or from it still holds.
InBatches == UNION {{m.batch[i].seq : i \in DOMAIN m.batch} : m \in Range(toScript)}
InReports == UNION {{m.results[i].seq : i \in DOMAIN m.results} : m \in Range(toDaemon)}

\* Unless something has failed, a dispatched job is in the batch or the report
\* that carries it and in one of them only: none is stranded.
DispatchedIsHeld ==
    faults = 0 =>
        /\ {jobs[s].seq : s \in {t \in Slots : jobs[t].state = "DISPATCHED"}}
                = InBatches \cup InReports
        /\ InBatches \cap InReports = {}

\* No job of the queue and no entry of the bus table is left without whoever
\* will finish it: a poll, a message or its counterpart in the other table.
QueueConsistent ==
    TypeOK /\ ParkedLaneIsIdle /\ TablesAgree /\ DispatchedIsHeld

\* The calls of the loaded script that are outstanding on a lane.
Outstanding(l) ==
    Cardinality({i \in DOMAIN toDaemon :
        /\ toDaemon[i].load = script.load
        /\ toDaemon[i].kind # "Hello"
        /\ toDaemon[i].lane = l})
    + Cardinality({i \in DOMAIN toScript :
        toScript[i].kind # "Hello" /\ toScript[i].lane = l})
    + IF parked[l] = script.load /\ script.load # 0 THEN 1 ELSE 0

\* Both lanes of the script this daemon shook hands with have a call out.
Healthy ==
    /\ daemon.up /\ daemon.named /\ relay
    /\ daemon.peer = kwin
    /\ script.gen = daemon.gen
    /\ \A l \in Lanes : Outstanding(l) = 1

\* Jobs that a fault took from whoever should have finished them.
Stranded ==
    {s \in Slots : /\ jobs[s].state = "DISPATCHED"
                   /\ jobs[s].seq \notin InBatches \cup InReports}

\* Every job of a healthy channel is finished and answered, whatever its lane:
\* again and again nothing is left in the queue but what a fault stranded.
\* And a daemon that has just started, lost its relay or outlived its
\* compositor comes back to a healthy channel, unless something else fails.
\* (Health is lost a bounded number of times only, see StaysHealthy.)
QueuedIsAnswered ==
    /\ []<>(Healthy => \A s \in Slots \ Stranded : jobs[s].state = "FREE")
    /\ \A n \in 0..MaxFaults :
        (faults = n /\ (~daemon.named \/ ~relay \/ daemon.peer # kwin))
            ~> (faults # n \/ Healthy)

\* Only a fault takes a lane away: a poll is answered and polled again, a report
\* acknowledged, and no call of the script that a healthy daemon serves ends in
\* an error reply, whatever was reloaded or restarted before.
StaysHealthy == [][Healthy => Healthy' \/ faults' > faults]_vars
=============================================================================
