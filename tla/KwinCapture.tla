---------------------------- MODULE KwinCapture ----------------------------
(***************************************************************************)
(* A capture through KWin (src/src/capture_worker.c, local_capture.c).     *)
(* The authority's thread starts a worker for one request; the worker,     *)
(* after a helper told it which process KWin is, starts a child that talks *)
(* to KWin, reads the picture from a pipe that KWin holds, takes its shape *)
(* from a message of the child, and answers the authority with a sealed    *)
(* file.                                                                   *)
(*                                                                         *)
(* Five processes, two deadlines and a permission that may be withdrawn;   *)
(* KWin may be replaced, hang, or write less or more than it announced.    *)
(* A picture is counted in rows.  EOF on the pipe comes when nobody holds  *)
(* its write end any more.                                                 *)
(***************************************************************************)
EXTENDS Integers

CONSTANTS
    MaxRows,        \* KSD_MAX_CAPTURE_BYTES, in rows
    MaxKwins        \* bound: instances of KWin

ASSUME RowsOK == MaxRows \in Nat /\ MaxRows > 0 /\ MaxKwins \in Nat

VARIABLES
    auth,           \* the authority's thread in ksd_capture_worker_execute
    worker, child,  \* the two processes
    helper,         \* the one that asks who KWin is, while the worker starts
    kwin,           \* the compositor and its answer to this request
    pipe,           \* rows in the pipe and who holds its write end
    authorized,     \* capture_still_authorized
    expired         \* deadlines that have passed

oneShotVars == <<auth, worker, child, helper, kwin, pipe, authorized, expired>>

NoRows == -1        \* no picture, no message

Statuses == {"OK", "INVALID_REQUEST", "UNAVAILABLE", "TIMEOUT", "REVOKED",
             "INTERNAL"}

OneShotInit ==
    /\ auth = [pc |-> "launch", status |-> "INTERNAL", image |-> NoRows,
               received |-> FALSE]
    /\ worker = [pc |-> "none", status |-> "INTERNAL", image |-> NoRows,
                 trusted |-> 0, spool |-> 0, drained |-> FALSE,
                 shaped |-> FALSE, clean |-> FALSE, code |-> 0,
                 sent |-> FALSE]
    /\ child = [pc |-> "none", status |-> "UNAVAILABLE", exposed |-> FALSE,
                rows |-> NoRows, sent |-> FALSE, code |-> 0]
    /\ helper = [pc |-> "none", owner |-> 0, code |-> 0]
    /\ kwin = [id |-> 1, pc |-> "idle", asked |-> 0, rows |-> NoRows, wrote |-> 0]
    /\ pipe = [rows |-> 0, writers |-> {}]
    /\ authorized = TRUE
    /\ expired = [worker |-> FALSE, authority |-> FALSE]

-----------------------------------------------------------------------------
(* Processes that end. *)

Ended(p) == p.pc \in {"none", "ended"}
Killed == 9
Terminated == 15
Exited(p, code) == [p EXCEPT !.pc = "ended", !.code = code]

\* expose_executable_to_kwin and hide_executable_from_kwin; a process that is
\* gone is hidden.
Exposed(c) == [c EXCEPT !.exposed = TRUE]
Hidden(c) == [c EXCEPT !.exposed = FALSE]

\* The kernel's PR_SET_PDEATHSIG, which the child sets before it does
\* anything else: it dies with its worker.
WithParent(c) ==
    IF c.pc \in {"none", "starting", "ended"} THEN c
    ELSE Hidden(Exited(c, Killed))

\* The worker ends by a signal, and the child with it, but not the helper,
\* which sets no PR_SET_PDEATHSIG.  Its ends of the pipe close.
WorkerDies(signal) ==
    /\ worker' = Exited(worker, signal)
    /\ child' = WithParent(child)
    /\ pipe' = [pipe EXCEPT !.writers = {w \in @ :
                    w = "kwin" \/ (w = "child" /\ ~Ended(child'))}]

-----------------------------------------------------------------------------
(* The authority's thread: ksd_capture_worker_execute. *)

\* create_capture_pipe; send_bootstrap hands both ends over, and the
\* authority's copies are closed on every path.
NewPipe == [rows |-> 0, writers |-> {"worker"}]

\* launch_worker: the executable, sockets, pipe, fork and bootstrap.
Launch ==
    /\ auth.pc = "launch"
    /\ auth' = [auth EXCEPT !.pc = "check"]
    /\ worker' = [worker EXCEPT !.pc = "boot"]
    /\ pipe' = NewPipe
    /\ UNCHANGED <<child, kwin, helper, authorized, expired>>

\* The client is not the process it was, its environment names another
\* runtime directory or bus, its groups cannot be read, or a system call
\* fails.
LaunchFails ==
    /\ auth.pc = "launch"
    /\ auth' = [auth EXCEPT !.pc = "done", !.status = "UNAVAILABLE"]
    /\ UNCHANGED <<worker, child, kwin, pipe, helper, authorized, expired>>

Conclude(status) ==
    auth' = [auth EXCEPT !.pc = "reap", !.status = status]

\* Before every slice of 250 ms: is the capture still authorized, and is
\* there time?
Check ==
    /\ auth.pc = "check"
    /\ \/ ~authorized /\ Conclude("REVOKED")
       \/ authorized /\ expired.authority /\ Conclude("TIMEOUT")
       \/ /\ authorized /\ ~expired.authority
          /\ auth' = [auth EXCEPT !.pc = "poll"]
    /\ UNCHANGED <<worker, child, kwin, pipe, helper, authorized, expired>>

\* sealed_capture_file and ksd_capture_tail_valid of the file that comes
\* with an OK; every other answer comes without one.
ResponseValid(status, image) ==
    IF status = "OK" THEN image \in 1 .. MaxRows ELSE image = NoRows

\* The worker's socket hangs up.  A process it forked has a copy until it
\* closes what it does not need.
HungUp == Ended(worker) /\ child.pc # "starting" /\ helper.pc # "starting"

\* The slice ends: with the worker's message (receive_worker_response), with
\* the worker's end, or with nothing.
PollWorker ==
    /\ auth.pc = "poll"
    /\ \/ /\ worker.sent
          /\ IF ResponseValid(worker.status, worker.image)
             THEN auth' = [auth EXCEPT !.pc = "reap", !.received = TRUE,
                               !.status = worker.status,
                               !.image = worker.image]
             ELSE Conclude("INTERNAL")
       \/ /\ ~worker.sent /\ HungUp
          /\ \E s \in {"UNAVAILABLE", "INTERNAL"} : Conclude(s)
       \/ ~worker.sent /\ ~HungUp /\ auth' = [auth EXCEPT !.pc = "check"]
    /\ UNCHANGED <<worker, child, kwin, pipe, helper, authorized, expired>>

\* The result is overwritten, and with it what was known of the failure; a
\* picture is closed with the result it came with.
Overwritten(a) == [a EXCEPT !.status = "UNAVAILABLE", !.image = NoRows]

\* The end of ksd_capture_worker_execute: close the socket, reap the worker,
\* or kill it if it still runs.
Reap ==
    /\ auth.pc = "reap"
    /\ IF Ended(worker)
       THEN /\ auth' = [IF worker.code = 0 THEN auth ELSE Overwritten(auth)
                        EXCEPT !.pc = "done"]
            /\ UNCHANGED <<worker, child, pipe>>
       ELSE /\ auth' = [IF auth.received THEN auth ELSE Overwritten(auth)
                        EXCEPT !.pc = "done"]
            /\ WorkerDies(Terminated)
    /\ UNCHANGED <<kwin, helper, authorized, expired>>

-----------------------------------------------------------------------------
(* The worker: ksd_capture_worker_main and ksd_local_capture_execute. *)

WorkerGoto(pc) == worker' = [worker EXCEPT !.pc = pc]

\* query_kwin_owner: the process that has KWin's name on the user's bus.
KwinOwner == kwin.id

\* Its start as root: the peer, the bootstrap, its limits.  Then
\* resolve_trusted_kwin_pid forks a helper and reads from it.
Boot ==
    /\ worker.pc = "boot"
    /\ WorkerGoto("trust")
    /\ helper' = [helper EXCEPT !.pc = "starting"]
    /\ UNCHANGED <<auth, child, kwin, pipe, authorized, expired>>

\* The helper has ended: root looks at the executable of the process it named,
\* makes the spool, and takes the client's credentials.  The owner it named
\* may have been replaced meanwhile.
Trust ==
    /\ worker.pc = "trust"
    /\ helper.pc = "ended" /\ helper.code = 0
    /\ worker' = [worker EXCEPT !.pc = "fork", !.trusted = helper.owner]
    /\ UNCHANGED <<auth, child, kwin, pipe, helper, authorized, expired>>

\* Something of the above fails; the worker waits for a helper it forked.
BootFails ==
    /\ \/ worker.pc = "boot"
       \/ worker.pc = "trust" /\ helper.pc = "ended"
    /\ worker' = Exited(worker, 1)
    /\ pipe' = [pipe EXCEPT !.writers = {}]
    /\ UNCHANGED <<auth, child, kwin, helper, authorized, expired>>

\* A mutant of Fork in which the worker keeps its own write end open.
ForkKeeping ==
    /\ worker.pc = "fork"
    /\ WorkerGoto("drain")
    /\ child' = [child EXCEPT !.pc = "starting"]
    /\ pipe' = [pipe EXCEPT !.writers = {"worker", "child"}]
    /\ UNCHANGED <<auth, kwin, helper, authorized, expired>>

\* The message socket and the fork; the worker then closes its own write end.
Fork ==
    /\ worker.pc = "fork"
    /\ WorkerGoto("drain")
    /\ child' = [child EXCEPT !.pc = "starting"]
    /\ pipe' = [pipe EXCEPT !.writers = {"child"}]
    /\ UNCHANGED <<auth, kwin, helper, authorized, expired>>

\* parse_request, ksd_capture_pipe_valid or ksd_capture_spool_valid refuses, or
\* a system call before the fork fails.
RequestRefused ==
    /\ worker.pc = "fork"
    /\ \E s \in {"INVALID_REQUEST", "INTERNAL"} :
         worker' = [worker EXCEPT !.pc = "send", !.status = s]
    /\ pipe' = [pipe EXCEPT !.writers = {}]
    /\ UNCHANGED <<auth, child, kwin, helper, authorized, expired>>

\* A mutant of Drain that takes an empty pipe for the end of the picture.
DrainEager ==
    /\ worker.pc = "drain"
    /\ \/ /\ pipe.rows > 0 /\ worker.spool < MaxRows
          /\ worker' = [worker EXCEPT !.spool = @ + 1]
          /\ pipe' = [pipe EXCEPT !.rows = @ - 1]
       \/ /\ pipe.rows = 0
          /\ worker' = [worker EXCEPT !.drained = TRUE, !.pc = "shape"]
          /\ UNCHANGED pipe
    /\ UNCHANGED <<auth, child, kwin, helper, authorized, expired>>

\* ksd_capture_pipe_drain_until: move rows to the spool until EOF; too many
\* rows or no time left end it too.
Drain ==
    /\ worker.pc = "drain"
    /\ \/ /\ pipe.rows > 0 /\ worker.spool < MaxRows
          /\ worker' = [worker EXCEPT !.spool = @ + 1]
          /\ pipe' = [pipe EXCEPT !.rows = @ - 1]
       \/ /\ pipe.rows > 0 /\ worker.spool = MaxRows
          /\ worker' = [worker EXCEPT !.spool = @ + 1, !.pc = "shape"]
          /\ pipe' = [pipe EXCEPT !.rows = @ - 1]
       \/ /\ pipe.rows = 0 /\ pipe.writers = {}
          /\ worker' = [worker EXCEPT !.drained = TRUE, !.pc = "shape"]
          /\ UNCHANGED pipe
       \/ /\ pipe.rows = 0 /\ expired.worker
          /\ WorkerGoto("shape")
          /\ UNCHANGED pipe
    /\ UNCHANGED <<auth, child, kwin, helper, authorized, expired>>

\* receive_capture_metadata: the child's message, or none.
ReceiveShape ==
    /\ worker.pc = "shape"
    /\ \/ expired.worker /\ WorkerGoto("wait")
       \/ /\ ~expired.worker /\ child.sent
          /\ worker' = [worker EXCEPT !.pc = "wait", !.shaped = TRUE]
       \/ /\ ~expired.worker /\ ~child.sent /\ Ended(child)
          /\ WorkerGoto("wait")
    /\ UNCHANGED <<auth, child, kwin, pipe, helper, authorized, expired>>

\* wait_capture_child
WaitChild ==
    /\ worker.pc = "wait"
    /\ \/ /\ Ended(child)
          /\ worker' = [worker EXCEPT !.pc = "encode",
                                      !.clean = child.code = 0]
       \/ ~Ended(child) /\ expired.worker /\ WorkerGoto("encode")
    /\ UNCHANGED <<auth, child, kwin, pipe, helper, authorized, expired>>

\* Every channel says that the picture is there, and the picture is as long
\* as the child announced.
Complete(w, c) ==
    /\ w.drained /\ w.shaped /\ w.clean /\ c.status = "OK"
    /\ c.rows \in 1 .. MaxRows
    /\ c.rows = w.spool

\* encode_capture: row by row, while there is time, and then the end of the
\* spool.
EncodeCapture(rows, spool) ==
    /\ ~expired.worker
    /\ rows \in 1 .. MaxRows
    /\ spool = rows

\* The picture is complete: seal the spool and encode it.  Otherwise the status stays what ksd_result_init made
\* it, INTERNAL: the block that tells a timeout and a full spool apart asks
\* for an OK and is never entered.  A child that still runs is killed.
Encode ==
    /\ worker.pc = "encode"
    /\ LET encoded == /\ Complete(worker, child)
                      /\ EncodeCapture(child.rows, worker.spool)
       IN \/ /\ encoded
             /\ worker' = [worker EXCEPT !.pc = "send", !.status = "OK",
                                         !.image = child.rows]
          \/ ~encoded /\ WorkerGoto("send")
    /\ child' = IF Ended(child) THEN child ELSE Hidden(Exited(child, Killed))
    /\ pipe' = [pipe EXCEPT !.writers = @ \ {"child"}]
    /\ UNCHANGED <<auth, kwin, helper, authorized, expired>>

\* send_worker_response, which seals a copy of the picture.
Send ==
    /\ worker.pc = "send"
    /\ \/ worker' = [worker EXCEPT !.pc = "exit", !.sent = TRUE]
       \/ worker' = Exited(worker, 1)
    /\ UNCHANGED <<auth, child, kwin, pipe, helper, authorized, expired>>

\* The end of ksd_capture_worker_main.
Exit ==
    /\ worker.pc = "exit"
    /\ worker' = Exited(worker, 0)
    /\ UNCHANGED <<auth, child, kwin, pipe, helper, authorized, expired>>

\* The worker's limits (prepare_worker_root) or a fault end it.
WorkerKilled ==
    /\ ~Ended(worker)
    /\ WorkerDies(Killed)
    /\ UNCHANGED <<auth, kwin, helper, authorized, expired>>

-----------------------------------------------------------------------------
(* The helper: the process resolve_trusted_kwin_pid forks. *)

HelperEnds(code, owner) ==
    /\ helper' = [helper EXCEPT !.pc = "ended", !.code = code, !.owner = owner]
    /\ UNCHANGED <<auth, worker, child, kwin, pipe, authorized, expired>>

\* It closes every descriptor but its end of the pipe to the worker and drops
\* its privileges.  It looks once whether its parent is process 1, which is
\* no sign of the worker's end where another process adopts orphans.
HelperStart ==
    /\ helper.pc = "starting"
    /\ helper' = [helper EXCEPT !.pc = "asking"]
    /\ UNCHANGED <<auth, worker, child, kwin, pipe, authorized, expired>>

\* ksd_local_capture_kwin_owner_pid: the bus names KWin's process.  A worker
\* that is gone does not read it.
HelperAnswers ==
    /\ helper.pc = "asking"
    /\ IF Ended(worker) THEN HelperEnds(1, 0) ELSE HelperEnds(0, KwinOwner)

\* The bus does not answer in 5 s, or a system call fails.
HelperFails ==
    /\ helper.pc \in {"starting", "asking"}
    /\ HelperEnds(1, 0)

-----------------------------------------------------------------------------
(* The child: kwin_capture_child. *)

ChildEnds(code) ==
    /\ child' = Hidden(Exited(child, code))
    /\ pipe' = [pipe EXCEPT !.writers = @ \ {"child"}]

\* A mutant of ChildStart that forgets to compare its parent.
ChildStartOrphan ==
    /\ child.pc = "starting"
    /\ child' = [child EXCEPT !.pc = "owner"]
    /\ UNCHANGED <<auth, worker, kwin, pipe, helper, authorized, expired>>

\* After the fork: PR_SET_PDEATHSIG, and then a look whether the parent is
\* gone already.
ChildStart ==
    /\ child.pc = "starting"
    /\ ~Ended(worker)
    /\ child' = [child EXCEPT !.pc = "owner"]
    /\ UNCHANGED <<auth, worker, kwin, pipe, helper, authorized, expired>>

\* The parent is gone, or ksd_capture_child_endpoints_valid finds other
\* descriptors than the two it needs.
ChildRefuses ==
    /\ child.pc = "starting"
    /\ ChildEnds(1)
    /\ UNCHANGED <<auth, worker, kwin, helper, authorized, expired>>

\* The status a failure of the child has.
Failure == IF expired.worker THEN "TIMEOUT" ELSE "UNAVAILABLE"

ChildFails ==
    /\ child' = [Hidden(child) EXCEPT !.pc = "report", !.status = Failure]
    /\ pipe' = [pipe EXCEPT !.writers = @ \ {"child"}]

\* KWin's process must still be the one the worker trusts.  Then expose the
\* executable to it and call.
AskKwin ==
    /\ child.pc = "owner"
    /\ \/ /\ KwinOwner = worker.trusted /\ ~expired.worker
          /\ child' = [Exposed(child) EXCEPT !.pc = "call"]
          /\ kwin' = [kwin EXCEPT !.pc = "asked", !.asked = KwinOwner]
          /\ pipe' = [pipe EXCEPT !.writers = @ \cup {"kwin"}]
       \/ ChildFails /\ UNCHANGED kwin
    /\ UNCHANGED <<auth, worker, helper, authorized, expired>>

\* The call returns: with the picture's shape, with an error, or because its
\* deadline passed.  The executable is hidden again first; a child that
\* cannot hide itself exits.
KwinReturns ==
    /\ child.pc = "call"
    /\ \/ /\ kwin.rows \in 1 .. MaxRows
          /\ child' = [Hidden(child) EXCEPT !.pc = "report", !.status = "OK",
                                            !.rows = kwin.rows]
          /\ pipe' = [pipe EXCEPT !.writers = @ \ {"child"}]
       \/ /\ kwin.rows > MaxRows \/ expired.worker \/ kwin.id # worker.trusted
          /\ ChildFails
       \/ ChildEnds(1)
    /\ UNCHANGED <<auth, worker, kwin, helper, authorized, expired>>

\* send_capture_metadata, and exit.
Report ==
    /\ child.pc = "report"
    /\ \/ child' = [Exited(child, 0) EXCEPT !.sent = TRUE]
       \/ child' = Exited(child, 1)
    /\ UNCHANGED <<auth, worker, kwin, pipe, helper, authorized, expired>>

-----------------------------------------------------------------------------
(* KWin, the user and the clock. *)

\* KWin answers the call with the picture's shape, before or while it
\* writes, and it may announce anything.
KwinReplies ==
    /\ kwin.pc = "asked" /\ kwin.rows = NoRows
    /\ \E n \in 1 .. MaxRows + 1 : kwin' = [kwin EXCEPT !.rows = n]
    /\ UNCHANGED <<auth, worker, child, pipe, helper, authorized, expired>>

KwinWrites ==
    /\ kwin.pc = "asked" /\ kwin.wrote <= MaxRows /\ pipe.rows = 0
    /\ kwin' = [kwin EXCEPT !.wrote = @ + 1]
    /\ pipe' = [pipe EXCEPT !.rows = IF worker.pc = "drain" THEN 1 ELSE 0]
    /\ UNCHANGED <<auth, worker, child, helper, authorized, expired>>

KwinCloses ==
    /\ kwin.pc = "asked"
    /\ kwin' = [kwin EXCEPT !.pc = "closed"]
    /\ pipe' = [pipe EXCEPT !.writers = @ \ {"kwin"}]
    /\ UNCHANGED <<auth, worker, child, helper, authorized, expired>>

\* KWin crashes or is replaced; its descriptors close.
KwinRestarts ==
    /\ kwin.id < MaxKwins
    /\ kwin' = [kwin EXCEPT !.id = @ + 1, !.pc = "idle"]
    /\ pipe' = [pipe EXCEPT !.writers = @ \ {"kwin"}]
    /\ UNCHANGED <<auth, worker, child, helper, authorized, expired>>

Withdrawn ==
    /\ authorized
    /\ authorized' = FALSE
    /\ UNCHANGED <<auth, worker, child, kwin, pipe, helper, expired>>

\* 30 s for the worker and its child, 35 s for the authority.  They start at
\* different moments, so either may pass first.
Expires ==
    /\ auth.pc # "launch"
    /\ \E d \in {"worker", "authority"} :
         ~expired[d] /\ expired' = [expired EXCEPT ![d] = TRUE]
    /\ UNCHANGED <<auth, worker, child, kwin, pipe, helper, authorized>>

-----------------------------------------------------------------------------
AuthorityStep == Launch \/ LaunchFails \/ Check \/ PollWorker \/ Reap
WorkerStep ==
    \/ Boot \/ Trust \/ BootFails \/ Fork \/ RequestRefused
    \/ Drain \/ ReceiveShape \/ WaitChild \/ Encode \/ Send \/ Exit
HelperStep == HelperStart \/ HelperAnswers \/ HelperFails
ChildStep == ChildStart \/ ChildRefuses \/ AskKwin \/ KwinReturns \/ Report

OneShotNext ==
    \/ AuthorityStep \/ WorkerStep \/ HelperStep \/ ChildStep \/ WorkerKilled
    \/ KwinReplies \/ KwinWrites \/ KwinCloses \/ KwinRestarts
    \/ Withdrawn \/ Expires

-----------------------------------------------------------------------------
(* Properties. *)

\* A capture answered OK is the whole picture of one KWin, the one the
\* worker trusted before it gave up its privileges: as many rows as KWin
\* announced and exactly those it wrote, although size and rows come over two
\* channels, each of which can end early, and although processes are killed
\* and KWin is replaced in between.
CaptureIsWhole ==
    auth.pc = "done" /\ auth.status = "OK" =>
        /\ auth.image = kwin.rows /\ auth.image = kwin.wrote
        /\ kwin.pc # "asked"
        /\ kwin.asked = worker.trusted

\* When the authority's thread goes on, the worker is gone, and no child talks
\* to KWin or is exposed to it, whoever died first and even if the worker died
\* before its child had asked to die with it.  One process can be left: the
\* helper of a worker that was killed while it started.  It then still asks
\* the bus who KWin is, nobody will read its answer, and no child was and will
\* be forked.
NothingOutlivesCapture ==
    auth.pc = "done" =>
        /\ Ended(worker)
        /\ child.pc \in {"none", "starting", "ended"}
        /\ ~child.exposed
        /\ ~Ended(helper) => /\ worker.code \in {Killed, Terminated}
                             /\ child.pc = "none" /\ auth.status # "OK"

\* KWin delivered, and the child said so.
Delivered ==
    /\ kwin.rows \in 1 .. MaxRows /\ kwin.wrote = kwin.rows
    /\ kwin.pc = "closed" /\ child.sent /\ child.status = "OK"

\* The worker failed by itself.
WorkerFailed == Ended(worker) /\ worker.code \in {1, Killed}

\* A capture returns once its time is up; one that KWin delivered returns the
\* picture unless the permission was withdrawn, time ran out or the worker
\* failed: reading the pipe to its end, then the shape, then the child's
\* status never waits for one another.
OneShotReturns ==
    /\ expired.authority ~> auth.pc = "done"
    /\ Delivered ~> \/ auth.pc = "done" /\ auth.status = "OK"
                    \/ ~authorized \/ expired.worker \/ expired.authority
                    \/ WorkerFailed
=============================================================================
