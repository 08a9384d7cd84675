----------------------------- MODULE KwinRelay -----------------------------
(***************************************************************************)
(* The relay (src/src/kwin_relay.c): the authority's end of a socket to a  *)
(* KWin session daemon or a display worker.  Connection threads share it:  *)
(* one writes at a time, one reads at a time, and whoever reads hands each *)
(* response to the caller whose request id it carries.  There is no reader *)
(* thread; a caller that finds nobody reading takes the role, the others   *)
(* sleep on one condition variable until a broadcast or their deadline.    *)
(*                                                                         *)
(* A step is one critical section of the relay's mutex or one blocking     *)
(* operation on the socket.                                                *)
(***************************************************************************)
EXTENDS Integers, Sequences, FiniteSets

CONSTANTS
    Callers,    \* connection threads
    Slots,      \* KSD_KWIN_RELAY_PENDING slots, as numbers
    MaxCalls    \* bound on the calls of one thread

ASSUME SlotsOK == Slots \subseteq Nat \ {0} /\ MaxCalls \in Nat
ASSUME CallersFinite == IsFiniteSet(Callers)

VARIABLES
    relay,      \* the ksd_kwin_relay object
    pending,    \* its relay_pending slots
    caller,     \* the threads that use it
    registered, \* "yes", "retiring" (marked broken), "no" (reference dropped)
    requests,   \* frames on their way to the daemon
    work,       \* frames the daemon has received and not answered
    responses,  \* frames on their way back
    closed,     \* the daemon closed its end
    reached     \* calls of which at least a part was written

vars == <<relay, pending, caller, registered, requests, work, responses,
          closed, reached>>
channel == <<requests, work, responses, closed>>

NoSlot == 0
NoCall == <<>>
NoFrame == [id |-> 0, call |-> NoCall]

Calls == (Callers \X Nat) \cup {NoCall}
Frames == [id: Nat, call: Calls]

SlotRecord == [active: BOOLEAN, done: BOOLEAN, id: Nat, answer: Calls]

FreeSlot == [active |-> FALSE, done |-> FALSE, id |-> 0, answer |-> NoCall]

\* send .. written: writing the request.  wait .. readback: the response loop.
Stages == {"out", "held", "send", "sendsleep", "writing", "written", "wait",
           "sleep", "reading", "deliver", "readback", "returned"}
Outcomes == {"none", "ANSWER", "BUSY", "UNAVAILABLE", "TIMEOUT"}

CallerRecord ==
    [pc: Stages, n: Nat, slot: Slots \cup {NoSlot}, expired: BOOLEAN,
     attempted: BOOLEAN, sent: BOOLEAN, ok: BOOLEAN, frame: Frames,
     outcome: Outcomes, answer: Calls]

NewCaller ==
    [pc |-> "out", n |-> 0, slot |-> NoSlot, expired |-> FALSE,
     attempted |-> FALSE, sent |-> FALSE, ok |-> TRUE, frame |-> NoFrame,
     outcome |-> "none", answer |-> NoCall]

\* The call a thread is making.
Call(c) == <<c, caller[c].n>>

Init ==
    /\ relay = [writing |-> FALSE, reading |-> FALSE, broken |-> FALSE,
                shut |-> FALSE, refs |-> 1, next_id |-> 1, freed |-> FALSE]
    /\ pending = [s \in Slots |-> FreeSlot]
    /\ caller = [c \in Callers |-> NewCaller]
    /\ registered = "yes"
    /\ requests = <<>>
    /\ work = {}
    /\ responses = <<>>
    /\ closed = FALSE
    /\ reached = {}

-----------------------------------------------------------------------------
(* Helpers *)

\* pthread_cond_broadcast: every sleeper looks at the state again.
Awake(callers) ==
    [c \in Callers |->
       [callers[c] EXCEPT !.pc = CASE @ = "sleep" -> "wait"
                                   [] @ = "sendsleep" -> "send"
                                   [] OTHER -> @]]

\* The thread changes its own record and leaves the others alone.
Step(c, record) == caller' = [caller EXCEPT ![c] = record]
StepAndBroadcast(c, record) == caller' = Awake([caller EXCEPT ![c] = record])

\* Nothing more arrives in either direction.
Dead == relay.shut \/ closed

-----------------------------------------------------------------------------
(* References *)

\* Mutant: a bare pointer is handed out.
AcquireUncounted(c) ==
    /\ caller[c].pc = "out"
    /\ caller[c].n < MaxCalls
    /\ registered = "yes"
    /\ Step(c, [NewCaller EXCEPT !.pc = "held", !.n = caller[c].n + 1])
    /\ UNCHANGED <<relay, pending, registered, channel, reached>>

\* A thread takes a reference while the registration still holds the relay
\* (take_backend_snapshot, display_relay_for).
Acquire(c) ==
    /\ caller[c].pc = "out"
    /\ caller[c].n < MaxCalls
    /\ registered = "yes"
    /\ relay' = [relay EXCEPT !.refs = @ + 1]
    /\ Step(c, [NewCaller EXCEPT !.pc = "held", !.n = caller[c].n + 1])
    /\ UNCHANGED <<pending, registered, channel, reached>>

\* ksd_kwin_relay_release; the last reference frees the relay.
Dropped == [relay EXCEPT !.refs = @ - 1, !.freed = relay.refs = 1]

Release(c) ==
    /\ caller[c].pc = "returned"
    /\ relay' = Dropped
    /\ Step(c, [NewCaller EXCEPT !.n = caller[c].n])
    /\ UNCHANGED <<pending, registered, channel, reached>>

\* ksd_kwin_relay_retire: broken and shut down first, so that nobody waits out
\* a deadline on it; then the registration's reference goes.
Retire ==
    /\ registered = "yes"
    /\ registered' = "retiring"
    /\ relay' = [relay EXCEPT !.broken = TRUE, !.shut = TRUE]
    /\ caller' = Awake(caller)
    /\ UNCHANGED <<pending, channel, reached>>

RetireRelease ==
    /\ registered = "retiring"
    /\ registered' = "no"
    /\ relay' = Dropped
    /\ UNCHANGED <<pending, caller, channel, reached>>

-----------------------------------------------------------------------------
(* ksd_kwin_relay_call *)

Return(c, outcome) ==
    Step(c, [caller[c] EXCEPT !.pc = "returned", !.outcome = outcome])

\* Mutant: the request id is the number of the slot.
IdOfSlot(s) == s

\* The id of a new request.
RequestId(s) == relay.next_id

\* A broken relay refuses, a full one is busy; otherwise the call takes a slot.
Begin(c) ==
    /\ caller[c].pc = "held"
    /\ LET free == {s \in Slots : ~pending[s].active}
       IN  \/ /\ relay.broken
              /\ Return(c, "UNAVAILABLE")
              /\ UNCHANGED <<relay, pending>>
           \/ /\ ~relay.broken /\ free = {}
              /\ Return(c, "BUSY")
              /\ UNCHANGED <<relay, pending>>
           \/ /\ ~relay.broken /\ free # {}
              /\ LET s == CHOOSE s \in free : \A t \in free : s <= t
                 IN  /\ pending' = [pending EXCEPT ![s] =
                          [FreeSlot EXCEPT !.active = TRUE, !.id = RequestId(s)]]
                     /\ relay' = [relay EXCEPT !.next_id = @ + 1]
                     /\ Step(c, [caller[c] EXCEPT !.pc = "send", !.slot = s])
    /\ UNCHANGED <<registered, channel, reached>>

\* The deadline passes somewhere inside the call.
Expire(c) ==
    /\ caller[c].pc \notin {"out", "held", "returned"}
    /\ ~caller[c].expired
    /\ Step(c, [caller[c] EXCEPT !.expired = TRUE])
    /\ UNCHANGED <<relay, pending, registered, channel, reached>>

\* A sleeper wakes at its deadline, or for no reason (as POSIX allows).
Wake(c) ==
    /\ caller[c].pc \in {"sleep", "sendsleep"}
    /\ Step(c, [caller[c] EXCEPT !.pc = IF @ = "sleep" THEN "wait" ELSE "send"])
    /\ UNCHANGED <<relay, pending, registered, channel, reached>>

\* Another thread is writing: wait, unless the deadline has passed.
SendWait(c) ==
    /\ caller[c].pc = "send"
    /\ relay.writing /\ ~relay.broken /\ ~caller[c].expired
    /\ Step(c, [caller[c] EXCEPT !.pc = "sendsleep"])
    /\ UNCHANGED <<relay, pending, registered, channel, reached>>

\* Mutant: the writer role is not exclusive.
SendGateOpen(c) ==
    /\ caller[c].pc = "send"
    /\ \/ /\ ~relay.broken /\ ~caller[c].expired
          /\ relay' = [relay EXCEPT !.writing = TRUE]
          /\ Step(c, [caller[c] EXCEPT !.pc = "writing", !.attempted = TRUE])
       \/ /\ UNCHANGED relay
          /\ Step(c, [caller[c] EXCEPT !.pc = "wait"])
    /\ UNCHANGED <<pending, registered, channel, reached>>

\* Take the writer role, or give up before anything was written (also when
\* the frame could not be packed).
SendGate(c) ==
    /\ caller[c].pc = "send"
    /\ \/ /\ ~relay.writing /\ ~relay.broken /\ ~caller[c].expired
          /\ relay' = [relay EXCEPT !.writing = TRUE]
          /\ Step(c, [caller[c] EXCEPT !.pc = "writing", !.attempted = TRUE])
       \/ /\ UNCHANGED relay
          /\ Step(c, [caller[c] EXCEPT !.pc = "wait"])
    /\ UNCHANGED <<pending, registered, channel, reached>>

\* ksd_transfer_until writes the whole frame, or stops where the peer is gone
\* or the deadline passes: after some bytes, or before the first one.
Write(c) ==
    /\ caller[c].pc = "writing"
    /\ \/ /\ ~Dead
          /\ reached' = reached \cup {Call(c)}
          /\ requests' = Append(requests,
                [id |-> pending[caller[c].slot].id, call |-> Call(c)])
          /\ Step(c, [caller[c] EXCEPT !.pc = "written", !.sent = TRUE])
       \/ /\ Dead \/ caller[c].expired
          /\ reached' \in {reached, reached \cup {Call(c)}}
          /\ UNCHANGED requests
          /\ Step(c, [caller[c] EXCEPT !.pc = "written"])
    /\ UNCHANGED <<relay, pending, registered, work, responses, closed>>

\* The writer role is given up; a frame not written whole breaks the channel.
WriteDone(c) ==
    /\ caller[c].pc = "written"
    /\ relay' = [relay EXCEPT !.writing = FALSE,
                              !.broken = @ \/ ~caller[c].sent,
                              !.shut = @ \/ ~caller[c].sent]
    /\ StepAndBroadcast(c, [caller[c] EXCEPT !.pc = "wait"])
    /\ UNCHANGED <<pending, registered, channel, reached>>

\* The response loop ends.
Finished(c) ==
    \/ ~caller[c].sent
    \/ pending[caller[c].slot].done
    \/ relay.broken
    \/ caller[c].expired

\* Nobody is reading: take the reader role.
StartRead(c) ==
    /\ caller[c].pc = "wait"
    /\ ~Finished(c) /\ ~relay.reading
    /\ relay' = [relay EXCEPT !.reading = TRUE]
    /\ Step(c, [caller[c] EXCEPT !.pc = "reading"])
    /\ UNCHANGED <<pending, registered, channel, reached>>

\* Someone else is reading: wait to be woken.
Sleep(c) ==
    /\ caller[c].pc = "wait"
    /\ ~Finished(c) /\ relay.reading
    /\ Step(c, [caller[c] EXCEPT !.pc = "sleep"])
    /\ UNCHANGED <<relay, pending, registered, channel, reached>>

\* read_one takes a whole frame off the socket.
ReadFrame(c) ==
    /\ caller[c].pc = "reading"
    /\ responses # <<>>
    /\ responses' = Tail(responses)
    /\ Step(c, [caller[c] EXCEPT !.pc = "deliver", !.frame = Head(responses)])
    /\ UNCHANGED <<relay, pending, registered, requests, work, closed, reached>>

\* read_one ends without one: nothing came before the deadline (no fault), or
\* the channel ended, the frame was malformed, or the deadline cut it in two.
ReadNothing(c) ==
    /\ caller[c].pc = "reading"
    /\ \E ok \in BOOLEAN :
         /\ ok => caller[c].expired /\ responses = <<>>
         /\ ~ok => Dead \/ responses # <<>>
         /\ Step(c, [caller[c] EXCEPT !.pc = "readback", !.ok = ok])
    /\ UNCHANGED <<relay, pending, registered, channel, reached>>

\* The response goes to the slot that waits for its id; nobody waiting, it is
\* dropped.
Deliver(c) ==
    /\ caller[c].pc = "deliver"
    /\ LET frame == caller[c].frame
       IN  pending' = [s \in Slots |->
             IF pending[s].active /\ ~pending[s].done /\ pending[s].id = frame.id
             THEN [pending[s] EXCEPT !.done = TRUE, !.answer = frame.call]
             ELSE pending[s]]
    /\ Step(c, [caller[c] EXCEPT !.pc = "readback", !.frame = NoFrame])
    /\ UNCHANGED <<relay, registered, channel, reached>>

\* Mutant: the reader leaves without waking the others.
ReadBackSilently(c) ==
    /\ caller[c].pc = "readback"
    /\ relay' = [relay EXCEPT !.reading = FALSE, !.broken = @ \/ ~caller[c].ok]
    /\ Step(c, [caller[c] EXCEPT !.pc = "wait", !.ok = TRUE])
    /\ UNCHANGED <<pending, registered, channel, reached>>

\* The reader role is given up and everyone looks again.
ReadBack(c) ==
    /\ caller[c].pc = "readback"
    /\ relay' = [relay EXCEPT !.reading = FALSE, !.broken = @ \/ ~caller[c].ok]
    /\ StepAndBroadcast(c, [caller[c] EXCEPT !.pc = "wait", !.ok = TRUE])
    /\ UNCHANGED <<pending, registered, channel, reached>>

\* Mutant: an unanswered call is busy whenever its frame was not sent whole.
ReportsUnsentBusy(c) ==
    IF pending[caller[c].slot].done THEN {"ANSWER", "TIMEOUT"}
    ELSE IF ~caller[c].sent THEN {"BUSY"} ELSE {"TIMEOUT"}

\* What an ended call reports.  An answer that cannot be taken over for lack of
\* memory is reported like a missing one.
Reports(c) ==
    IF pending[caller[c].slot].done THEN {"ANSWER", "TIMEOUT"}
    ELSE IF ~caller[c].sent /\ ~caller[c].attempted THEN {"BUSY"} ELSE {"TIMEOUT"}

\* The loop is left, the slot cleared, the answer or the reason returned.
Finish(c) ==
    /\ caller[c].pc = "wait"
    /\ Finished(c)
    /\ LET s == caller[c].slot
       IN  /\ pending' = [pending EXCEPT ![s] = FreeSlot]
           /\ \E outcome \in Reports(c) :
                StepAndBroadcast(c,
                  [caller[c] EXCEPT !.pc = "returned", !.slot = NoSlot,
                                    !.outcome = outcome,
                                    !.answer = pending[s].answer])
    /\ UNCHANGED <<relay, registered, channel, reached>>

-----------------------------------------------------------------------------
(* The other end of the socket: a daemon that answers in any order, late or *)
(* never, but echoes the id of the request it answers.                      *)

DaemonReceives ==
    /\ requests # <<>>
    /\ ~closed
    /\ requests' = Tail(requests)
    /\ work' = work \cup {Head(requests)}
    /\ UNCHANGED <<relay, pending, caller, registered, responses, closed, reached>>

DaemonAnswers ==
    \E frame \in work :
        /\ ~closed
        /\ work' = work \ {frame}
        /\ responses' = IF relay.shut THEN responses ELSE Append(responses, frame)
        /\ UNCHANGED <<relay, pending, caller, registered, requests, closed, reached>>

DaemonCloses ==
    /\ ~closed
    /\ closed' = TRUE
    /\ UNCHANGED <<relay, pending, caller, registered, requests, work, responses,
                   reached>>

\* The relay is gone and nothing is left to do.
Terminated == relay.freed /\ UNCHANGED vars

-----------------------------------------------------------------------------
ThreadStep(c) ==
    \/ Begin(c) \/ SendWait(c) \/ SendGate(c) \/ Write(c) \/ WriteDone(c)
    \/ StartRead(c) \/ Sleep(c) \/ ReadFrame(c) \/ ReadNothing(c)
    \/ Deliver(c) \/ ReadBack(c) \/ Finish(c) \/ Release(c)

Next ==
    \/ \E c \in Callers : ThreadStep(c) \/ Acquire(c) \/ Expire(c) \/ Wake(c)
    \/ Retire \/ RetireRelease
    \/ DaemonReceives \/ DaemonAnswers \/ DaemonCloses
    \/ Terminated

Spec == Init /\ [][Next]_vars

\* Threads that can run do, and a timed wait ends when its deadline passes;
\* nothing is assumed of the daemon, nor that a deadline ever passes.
ThreadFairness ==
    \A c \in Callers :
        /\ WF_vars(ThreadStep(c))
        /\ WF_vars(caller[c].expired /\ Wake(c))

\* Every deadline passes.
DeadlineFairness == \A c \in Callers : WF_vars(Expire(c))

FairSpec == Spec /\ ThreadFairness

-----------------------------------------------------------------------------
(* Properties *)

\* Every variable has its type.
TypeOK ==
    /\ relay \in [writing: BOOLEAN, reading: BOOLEAN, broken: BOOLEAN,
                  shut: BOOLEAN, refs: Nat, next_id: Nat, freed: BOOLEAN]
    /\ pending \in [Slots -> SlotRecord]
    /\ caller \in [Callers -> CallerRecord]
    /\ registered \in {"yes", "retiring", "no"}
    /\ requests \in Seq(Frames)
    /\ work \subseteq Frames
    /\ responses \in Seq(Frames)
    /\ closed \in BOOLEAN
    /\ reached \subseteq Calls

\* A call that returns an answer returns the answer to its own request, however
\* late other answers are and however slots are reused (read_one matches ids).
AnswersMatch ==
    \A c \in Callers : caller[c].outcome = "ANSWER" => caller[c].answer = Call(c)

\* BUSY and UNAVAILABLE mean that no byte of the request was written, so it is
\* safe to retry; an answer is only for a request that was.  TIMEOUT promises
\* nothing of the kind: the attempt may have failed before its first byte, and
\* then the relay is broken (the end of ksd_kwin_relay_call).
BusyMeansNeverWritten ==
    \A c \in Callers :
        /\ caller[c].outcome \in {"BUSY", "UNAVAILABLE"} => Call(c) \notin reached
        /\ caller[c].outcome = "ANSWER" => Call(c) \in reached
        /\ caller[c].outcome = "TIMEOUT" /\ Call(c) \notin reached => relay.broken

Writers == {c \in Callers : caller[c].pc \in {"writing", "written"}}
Readers == {c \in Callers : caller[c].pc \in {"reading", "deliver", "readback"}}

\* Each role is held by one thread at most, so frames never interleave, and
\* handed on: the flags say exactly who holds it, and a thread sleeps only while
\* another holds the role it waits for and will broadcast when it gives it up,
\* never on a broken relay (the loops of ksd_kwin_relay_call).
RolesHandedOn ==
    /\ Cardinality(Writers) = IF relay.writing THEN 1 ELSE 0
    /\ Cardinality(Readers) = IF relay.reading THEN 1 ELSE 0
    /\ \A c \in Callers :
        /\ caller[c].pc = "sleep" => relay.reading
        /\ caller[c].pc = "sendsleep" => relay.writing
        /\ caller[c].pc \in {"sleep", "sendsleep"} => ~relay.broken

\* References are exact: one for the registration, one per thread inside a
\* call; the relay is freed when the last goes, and no thread uses it then.
RefsExact ==
    /\ TypeOK
    /\ relay.refs = Cardinality({c \in Callers : caller[c].pc # "out"})
                    + (IF registered = "no" THEN 0 ELSE 1)
    /\ relay.freed = (relay.refs = 0)

\* A response that has arrived for a waiting call ends that call, without help
\* from the daemon or the call's own deadline, whoever happens to be reading;
\* and if deadlines pass, every call returns, whatever the daemon does.
CallsEnd ==
    /\ \A c \in Callers :
        (caller[c].slot # NoSlot /\ \E i \in 1 .. Len(responses) :
            responses[i].call = Call(c))
        ~> caller[c].slot = NoSlot
    /\ DeadlineFairness =>
        \A c \in Callers : caller[c].pc = "held" ~> caller[c].pc = "out"
=============================================================================
