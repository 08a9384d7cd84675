------------------------ MODULE CaptureWorkerProofs ------------------------
(***************************************************************************)
(* Proofs about CaptureWorker: the capture through KWin, for pictures of   *)
(* any size and any number of instances of KWin, and the worker that       *)
(* stays, for any scenes, requests and deaths of the display.              *)
(***************************************************************************)
EXTENDS CaptureWorker, FiniteSetTheorems, TLAPS

-----------------------------------------------------------------------------
(* The invariant *)

AuthRecord ==
    [pc: {"launch", "check", "poll", "reap", "done"}, status: Statuses,
     image: Int, received: BOOLEAN]

WorkerRecord ==
    [pc: {"none", "boot", "trust", "fork", "drain", "shape", "wait", "encode", "send",
          "exit", "ended"},
     status: Statuses, image: Int, trusted: Nat, spool: Nat, drained: BOOLEAN,
     shaped: BOOLEAN, clean: BOOLEAN, code: Nat, sent: BOOLEAN]

ChildRecord ==
    [pc: {"none", "starting", "owner", "call", "report", "ended"}, status: Statuses,
     exposed: BOOLEAN, rows: Int, sent: BOOLEAN, code: Nat]

KwinRecord ==
    [id: Nat, pc: {"idle", "asked", "closed"}, asked: Nat, rows: Int, wrote: Nat]

PipeRecord == [rows: Nat, writers: SUBSET {"worker", "child", "kwin"}]

Typed ==
    /\ auth \in AuthRecord /\ worker \in WorkerRecord /\ child \in ChildRecord
    /\ kwin \in KwinRecord /\ pipe \in PipeRecord
    /\ authorized \in BOOLEAN
    /\ expired \in [worker: BOOLEAN, authority: BOOLEAN]

\* The processes start one another in order, and who ends takes along whom it
\* started, but for a child that has not yet asked for that.
Processes ==
    /\ auth.pc = "launch" => worker.pc = "none"
    /\ worker.pc \in {"none", "boot", "trust", "fork"} => child.pc = "none"
    /\ worker.pc \in {"send", "exit"} => child.pc \in {"none", "ended"}
    /\ Ended(worker) => child.pc \in {"none", "starting", "ended"}
    /\ child.exposed => child.pc = "call"
    /\ auth.pc = "done" => Ended(worker)

\* The pipe's write end: the child's until it reports, KWin's while it writes.
Writers ==
    /\ child.pc \in {"starting", "owner", "call"} /\ ~Ended(worker) =>
         "child" \in pipe.writers
    /\ kwin.pc = "asked" =>
         "kwin" \in pipe.writers /\ child.pc \notin {"none", "starting", "owner"}
    /\ child.pc \in {"none", "starting", "owner"} => kwin.wrote = 0 /\ kwin.rows = NoRows

\* Every row is in the spool or in the pipe, until somebody stops reading.
Rows ==
    /\ worker.pc \in {"none", "boot", "trust", "fork"} => worker.spool = 0 /\ pipe.rows = 0
    /\ worker.pc = "drain" => worker.spool + pipe.rows = kwin.wrote
    /\ worker.drained =>
         /\ worker.pc \notin {"none", "boot", "trust", "fork", "drain"}
         /\ pipe.writers = {} /\ worker.spool = kwin.wrote

\* What the child says is what KWin said, and nobody says OK without all of it.
Answers ==
    /\ child.status = "OK" => child.rows = kwin.rows /\ kwin.rows # NoRows
    /\ worker.status = "OK" =>
         /\ worker.pc \in {"send", "exit", "ended"} /\ worker.drained
         /\ worker.image = kwin.rows /\ kwin.rows = kwin.wrote /\ kwin.rows # NoRows
    /\ auth.status = "OK" => worker.status = "OK" /\ auth.image = worker.image

\* The inductive invariant.
IInv == Typed /\ Processes /\ Writers /\ Rows /\ Answers

-----------------------------------------------------------------------------
(* Steps of the authority's thread, and the end of the worker *)

\* The thread goes on, and says OK only if the worker did.
LEMMA AuthMoves ==
    ASSUME IInv, NEW a \in AuthRecord, auth' = a,
           UNCHANGED <<worker, child, kwin, pipe, authorized, expired>>,
           a.pc # "launch", a.pc = "done" => Ended(worker),
           a.status = "OK" => worker.status = "OK" /\ a.image = worker.image
    PROVE  IInv'
<1>1. Typed'
  BY DEF IInv, Typed
<1>2. Processes' /\ Writers' /\ Rows' /\ Answers'
  BY DEF IInv, Processes, Writers, Rows, Answers, Ended
<1>. QED  BY <1>1, <1>2 DEF IInv

LEMMA LaunchFailsKeeps ==
    ASSUME IInv, LaunchFails
    PROVE  IInv'
<1>1. PICK a : a = [auth EXCEPT !.pc = "done", !.status = "UNAVAILABLE"]
  OBVIOUS
<1>2. a \in AuthRecord /\ a.pc = "done" /\ a.status = "UNAVAILABLE"
  BY <1>1 DEF IInv, Typed, AuthRecord, Statuses
<1>3. auth' = a /\ UNCHANGED <<worker, child, kwin, pipe, authorized, expired>>
      /\ Ended(worker)
  BY <1>1 DEF LaunchFails, IInv, Processes, Ended
<1>. QED  BY <1>2, <1>3, AuthMoves

LEMMA ConcludeKeeps ==
    ASSUME IInv, NEW status \in Statuses, status # "OK", Conclude(status),
           UNCHANGED <<worker, child, kwin, pipe, authorized, expired>>
    PROVE  IInv'
<1>1. PICK a : a = [auth EXCEPT !.pc = "reap", !.status = status]
  OBVIOUS
<1>2. a \in AuthRecord /\ a.pc = "reap" /\ a.status # "OK"
  BY <1>1 DEF IInv, Typed, AuthRecord
<1>3. auth' = a
  BY <1>1 DEF Conclude
<1>. QED  BY <1>2, <1>3, AuthMoves

\* The thread goes on without an answer.
LEMMA SliceKeeps ==
    ASSUME IInv, NEW pc \in {"check", "poll"}, auth' = [auth EXCEPT !.pc = pc],
           UNCHANGED <<worker, child, kwin, pipe, authorized, expired>>
    PROVE  IInv'
<1>1. PICK a : a = [auth EXCEPT !.pc = pc]
  OBVIOUS
<1>2. a \in AuthRecord /\ a.pc = pc /\ a.status = auth.status /\ a.image = auth.image
  BY <1>1 DEF IInv, Typed, AuthRecord
<1>3. auth' = a /\ (auth.status = "OK" => worker.status = "OK" /\ auth.image = worker.image)
  BY <1>1 DEF IInv, Answers
<1>. QED  BY <1>2, <1>3, AuthMoves

LEMMA CheckKeeps ==
    ASSUME IInv, Check
    PROVE  IInv'
<1>1. UNCHANGED <<worker, child, kwin, pipe, authorized, expired>>
  BY DEF Check
<1>2. CASE Conclude("REVOKED") \/ Conclude("TIMEOUT")
  BY <1>1, <1>2, ConcludeKeeps DEF Statuses
<1>3. CASE auth' = [auth EXCEPT !.pc = "poll"]
  BY <1>1, <1>3, SliceKeeps
<1>. QED  BY <1>2, <1>3 DEF Check

LEMMA PollWorkerKeeps ==
    ASSUME IInv, PollWorker
    PROVE  IInv'
<1>1. UNCHANGED <<worker, child, kwin, pipe, authorized, expired>>
  BY DEF PollWorker
<1>2. CASE auth' = [auth EXCEPT !.pc = "reap", !.received = TRUE,
                                !.status = worker.status, !.image = worker.image]
  <2>1. PICK status \in Statuses, image \in Int : status = worker.status /\ image = worker.image
    BY DEF IInv, Typed, WorkerRecord
  <2>2. PICK a : a = [auth EXCEPT !.pc = "reap", !.received = TRUE,
                                  !.status = status, !.image = image]
    OBVIOUS
  <2>3. a \in AuthRecord /\ a.pc = "reap" /\ a.status = status /\ a.image = image
    BY <2>2 DEF IInv, Typed, AuthRecord
  <2>4. auth' = a
    BY <1>2, <2>1, <2>2
  <2>. QED  BY <1>1, <2>1, <2>3, <2>4, AuthMoves
<1>3. ASSUME NEW s \in {"UNAVAILABLE", "INTERNAL"}, Conclude(s)
      PROVE  IInv'
  BY <1>1, <1>3, ConcludeKeeps DEF Statuses
<1>4. CASE auth' = [auth EXCEPT !.pc = "check"]
  BY <1>1, <1>4, SliceKeeps
<1>. QED  BY <1>2, <1>3, <1>4 DEF PollWorker

\* The worker ends by a signal.  A child that did not ask to die with it has
\* done nothing yet and will find its parent gone.
LEMMA WorkerDiesKeeps ==
    ASSUME IInv, NEW a \in AuthRecord, auth' = a, NEW signal \in Nat, WorkerDies(signal),
           UNCHANGED <<kwin, authorized, expired>>, worker.pc # "none",
           a.pc = "launch" => auth.pc = "launch",
           a.status = "OK" => auth.status = "OK" /\ a.image = auth.image
    PROVE  IInv'
<1>1. /\ worker' \in WorkerRecord /\ worker'.pc = "ended" /\ worker'.spool = worker.spool
      /\ worker'.status = worker.status /\ worker'.image = worker.image
      /\ worker'.drained <=> worker.drained
  BY DEF IInv, Typed, WorkerRecord, WorkerDies, Exited
<1>2. child' \in ChildRecord /\ \/ child' = child /\ child.pc \in {"none", "starting", "ended"}
                                \/ /\ child'.pc = "ended" /\ child.pc \notin {"none", "starting"}
                                   /\ child'.status = child.status /\ child'.rows = child.rows
                                   /\ ~child'.exposed
  <2>1. CASE child.pc \in {"none", "starting", "ended"}
    BY <2>1 DEF IInv, Typed, WorkerDies, WithParent
  <2>2. CASE child.pc \notin {"none", "starting", "ended"}
    <3>1. PICK e : e = Exited(child, Killed)
      OBVIOUS
    <3>2. /\ e \in ChildRecord /\ e.pc = "ended" /\ e.status = child.status
          /\ e.rows = child.rows
      BY <3>1 DEF IInv, Typed, ChildRecord, Exited, Killed
    <3>3. child' = Hidden(e)
      BY <2>2, <3>1 DEF WorkerDies, WithParent
    <3>4. /\ child' \in ChildRecord /\ child'.pc = "ended" /\ child'.status = e.status
          /\ child'.rows = e.rows /\ ~child'.exposed
      BY <3>2, <3>3 DEF ChildRecord, Hidden
    <3>. QED  BY <2>2, <3>2, <3>4
  <2>. QED  BY <2>1, <2>2
<1>3. /\ pipe' \in PipeRecord /\ pipe'.rows = pipe.rows /\ pipe'.writers \subseteq pipe.writers
      /\ "kwin" \in pipe.writers => "kwin" \in pipe'.writers
  BY DEF IInv, Typed, PipeRecord, WorkerDies
<1>4. Typed'
  BY <1>1, <1>2, <1>3 DEF IInv, Typed
<1>5. Processes'
  BY <1>1, <1>2 DEF IInv, Processes, Ended
<1>6. Writers'
  BY <1>1, <1>2, <1>3 DEF IInv, Writers, Ended
<1>7. Rows'
  BY <1>1, <1>3 DEF IInv, Rows
<1>8. Answers'
  BY <1>1, <1>2 DEF IInv, Answers
<1>. QED  BY <1>4, <1>5, <1>6, <1>7, <1>8 DEF IInv

LEMMA ReapKeeps ==
    ASSUME IInv, Reap
    PROVE  IInv'
<1>. DEFINE Kept(x) == /\ x \in AuthRecord
                       /\ x.status = "OK" => auth.status = "OK" /\ x.image = auth.image
<1>1. Kept(auth)
  BY DEF IInv, Typed
<1>2. Kept(Overwritten(auth))
  <2>1. PICK n \in Int : n = NoRows
    BY DEF NoRows
  <2>2. PICK a : a = [auth EXCEPT !.status = "UNAVAILABLE", !.image = n]
    OBVIOUS
  <2>3. a \in AuthRecord /\ a.status = "UNAVAILABLE"
    BY <2>2 DEF IInv, Typed, AuthRecord, Statuses
  <2>4. a = Overwritten(auth)
    BY <2>1, <2>2 DEF Overwritten
  <2>. QED  BY <2>3, <2>4
<1>3. ASSUME NEW x, Kept(x)
      PROVE  Kept([x EXCEPT !.pc = "done"]) /\ [x EXCEPT !.pc = "done"].pc = "done"
  BY <1>3 DEF AuthRecord
<1>4. PICK x : Kept(x) /\ auth' = [x EXCEPT !.pc = "done"]
  BY <1>1, <1>2, Zenon DEF Reap
<1>5. Kept(auth') /\ auth'.pc = "done"
  BY <1>3, <1>4
<1>6. PICK b \in AuthRecord : /\ b = auth' /\ b.pc = "done"
                              /\ b.status = "OK" => auth.status = "OK" /\ b.image = auth.image
  BY <1>5
<1>7. auth.status = "OK" => worker.status = "OK" /\ auth.image = worker.image
  BY DEF IInv, Answers
<1>8. CASE Ended(worker)
  <2>1. UNCHANGED <<worker, child, kwin, pipe, authorized, expired>>
    BY <1>8 DEF Reap
  <2>. QED  BY <1>6, <1>7, <1>8, <2>1, AuthMoves
<1>9. CASE ~Ended(worker)
  <2>1. WorkerDies(Terminated) /\ UNCHANGED <<kwin, authorized, expired>>
        /\ worker.pc # "none" /\ Terminated \in Nat
    BY <1>9 DEF Reap, Ended, Terminated
  <2>. QED  BY <1>6, <2>1, WorkerDiesKeeps
<1>. QED  BY <1>8, <1>9

LEMMA WorkerKilledKeeps ==
    ASSUME IInv, WorkerKilled
    PROVE  IInv'
<1>1. PICK a \in AuthRecord : a = auth
  BY DEF IInv, Typed
<1>2. WorkerDies(Killed) /\ UNCHANGED <<auth, kwin, authorized, expired>>
      /\ worker.pc # "none" /\ Killed \in Nat
  BY DEF WorkerKilled, Ended, Killed
<1>. QED  BY <1>1, <1>2, WorkerDiesKeeps

-----------------------------------------------------------------------------
(* Steps of the worker, its child and KWin *)

LEMMA LaunchKeeps ==
    ASSUME IInv, Launch
    PROVE  IInv'
<1>1. auth' \in AuthRecord
  BY RowsOK DEF Launch, IInv, Typed, AuthRecord, NewPipe
<1>2. worker' \in WorkerRecord
  BY RowsOK DEF Launch, IInv, Typed, WorkerRecord, NewPipe
<1>3. pipe' \in PipeRecord
  BY RowsOK DEF Launch, IInv, Typed, PipeRecord, NewPipe
<1>4. UNCHANGED <<child, kwin, authorized, expired>>
  BY DEF Launch
<1>5. Typed'
  BY <1>1, <1>2, <1>3, <1>4 DEF IInv, Typed
<1>6. Processes'
  BY <1>5, RowsOK DEF Launch, IInv, Typed, AuthRecord, WorkerRecord, ChildRecord,
         KwinRecord, PipeRecord, Processes, NewPipe, NoRows, Ended
<1>7. Writers'
  BY <1>5, RowsOK DEF Launch, IInv, Typed, AuthRecord, WorkerRecord, ChildRecord,
         KwinRecord, PipeRecord, Processes, Writers, NewPipe, NoRows, Ended
<1>8. Rows'
  BY <1>5, RowsOK DEF Launch, IInv, Typed, AuthRecord, WorkerRecord, ChildRecord,
         KwinRecord, PipeRecord, Processes, Writers, Rows, NewPipe, NoRows, Ended
<1>9. Answers'
  BY <1>5, RowsOK DEF Launch, IInv, Typed, AuthRecord, WorkerRecord, ChildRecord,
         KwinRecord, PipeRecord, Processes, Writers, Rows, Answers, NewPipe, NoRows,
         Ended
<1>. QED  BY <1>5, <1>6, <1>7, <1>8, <1>9 DEF IInv

LEMMA BootKeeps ==
    ASSUME IInv, Boot
    PROVE  IInv'
<1>1. worker' \in WorkerRecord
  BY DEF Boot, IInv, Typed, WorkerRecord, WorkerGoto
<1>2. UNCHANGED <<auth, child, kwin, pipe, authorized, expired>>
  BY DEF Boot
<1>3. Typed'
  BY <1>1, <1>2 DEF IInv, Typed
<1>4. Processes'
  BY <1>3, <1>2 DEF Boot, IInv, Typed, WorkerRecord, Processes, Ended, WorkerGoto
<1>5. Writers'
  BY <1>3, <1>2 DEF Boot, IInv, Typed, WorkerRecord, Writers, Ended, WorkerGoto
<1>6. Rows'
  BY <1>3, <1>2 DEF Boot, IInv, Typed, WorkerRecord, Rows, WorkerGoto
<1>7. Answers'
  BY <1>3, <1>2 DEF Boot, IInv, Typed, WorkerRecord, Answers, WorkerGoto
<1>. QED  BY <1>3, <1>4, <1>5, <1>6, <1>7 DEF IInv

LEMMA TrustKeeps ==
    ASSUME IInv, helper.owner \in Nat, Trust
    PROVE  IInv'
<1>1. worker' \in WorkerRecord
  BY DEF Trust, IInv, Typed, WorkerRecord
<1>2. UNCHANGED <<auth, child, kwin, pipe, authorized, expired>>
  BY DEF Trust
<1>3. Typed'
  BY <1>1, <1>2 DEF IInv, Typed
<1>4. Processes'
  BY <1>3, <1>2 DEF Trust, IInv, Typed, WorkerRecord, Processes, Ended
<1>5. Writers'
  BY <1>3, <1>2 DEF Trust, IInv, Typed, WorkerRecord, Writers, Ended
<1>6. Rows'
  BY <1>3, <1>2 DEF Trust, IInv, Typed, WorkerRecord, Rows
<1>7. Answers'
  BY <1>3, <1>2 DEF Trust, IInv, Typed, WorkerRecord, Answers
<1>. QED  BY <1>3, <1>4, <1>5, <1>6, <1>7 DEF IInv

\* The helper is no part of the invariant.
LEMMA HelperKeeps ==
    ASSUME IInv, HelperStep
    PROVE  IInv'
<1>1. UNCHANGED <<auth, worker, child, kwin, pipe, authorized, expired>>
  BY DEF HelperStep, HelperStart, HelperAnswers, HelperFails, HelperEnds
<1>. QED  BY <1>1 DEF IInv, Typed, Processes, Writers, Rows, Answers, Ended

LEMMA BootFailsKeeps ==
    ASSUME IInv, BootFails
    PROVE  IInv'
<1>1. worker' \in WorkerRecord
  BY RowsOK DEF BootFails, IInv, Typed, WorkerRecord, Exited
<1>2. pipe' \in PipeRecord
  BY RowsOK DEF BootFails, IInv, Typed, PipeRecord, Exited
<1>3. UNCHANGED <<auth, child, kwin, authorized, expired>>
  BY DEF BootFails
<1>4. Typed'
  BY <1>1, <1>2, <1>3 DEF IInv, Typed
<1>5. Processes'
  BY <1>4, RowsOK DEF BootFails, IInv, Typed, AuthRecord, WorkerRecord, ChildRecord,
         KwinRecord, PipeRecord, Processes, Exited, NoRows, Ended
<1>6. Writers'
  BY <1>4, RowsOK DEF BootFails, IInv, Typed, AuthRecord, WorkerRecord, ChildRecord,
         KwinRecord, PipeRecord, Processes, Writers, Exited, NoRows, Ended
<1>7. Rows'
  BY <1>4, RowsOK DEF BootFails, IInv, Typed, AuthRecord, WorkerRecord, ChildRecord,
         KwinRecord, PipeRecord, Processes, Writers, Rows, Exited, NoRows, Ended
<1>8. Answers'
  BY <1>4, RowsOK DEF BootFails, IInv, Typed, AuthRecord, WorkerRecord, ChildRecord,
         KwinRecord, PipeRecord, Processes, Writers, Rows, Answers, Exited, NoRows,
         Ended
<1>. QED  BY <1>4, <1>5, <1>6, <1>7, <1>8 DEF IInv

LEMMA ForkKeeps ==
    ASSUME IInv, Fork
    PROVE  IInv'
<1>1. worker' \in WorkerRecord
  BY RowsOK DEF Fork, IInv, Typed, WorkerRecord, WorkerGoto
<1>2. child' \in ChildRecord
  BY RowsOK DEF Fork, IInv, Typed, ChildRecord, WorkerGoto
<1>3. pipe' \in PipeRecord
  BY RowsOK DEF Fork, IInv, Typed, PipeRecord, WorkerGoto
<1>4. UNCHANGED <<auth, kwin, authorized, expired>>
  BY DEF Fork
<1>5. Typed'
  BY <1>1, <1>2, <1>3, <1>4 DEF IInv, Typed
<1>6. Processes'
  BY <1>5, RowsOK DEF Fork, IInv, Typed, AuthRecord, WorkerRecord, ChildRecord,
         KwinRecord, PipeRecord, Processes, WorkerGoto, NoRows, Ended
<1>7. Writers'
  BY <1>5, RowsOK DEF Fork, IInv, Typed, AuthRecord, WorkerRecord, ChildRecord,
         KwinRecord, PipeRecord, Processes, Writers, WorkerGoto, NoRows, Ended
<1>8. Rows'
  BY <1>5, RowsOK DEF Fork, IInv, Typed, AuthRecord, WorkerRecord, ChildRecord,
         KwinRecord, PipeRecord, Processes, Writers, Rows, WorkerGoto, NoRows, Ended
<1>9. Answers'
  BY <1>5, RowsOK DEF Fork, IInv, Typed, AuthRecord, WorkerRecord, ChildRecord,
         KwinRecord, PipeRecord, Processes, Writers, Rows, Answers, WorkerGoto, NoRows,
         Ended
<1>. QED  BY <1>5, <1>6, <1>7, <1>8, <1>9 DEF IInv

LEMMA RequestRefusedKeeps ==
    ASSUME IInv, RequestRefused
    PROVE  IInv'
<1>1. worker' \in WorkerRecord
  BY RowsOK DEF RequestRefused, IInv, Typed, WorkerRecord, Statuses
<1>2. pipe' \in PipeRecord
  BY RowsOK DEF RequestRefused, IInv, Typed, PipeRecord, Statuses
<1>3. UNCHANGED <<auth, child, kwin, authorized, expired>>
  BY DEF RequestRefused
<1>4. Typed'
  BY <1>1, <1>2, <1>3 DEF IInv, Typed
<1>5. Processes'
  BY <1>4, RowsOK DEF RequestRefused, IInv, Typed, AuthRecord, WorkerRecord,
         ChildRecord, KwinRecord, PipeRecord, Processes, Statuses, NoRows, Ended
<1>6. Writers'
  BY <1>4, RowsOK DEF RequestRefused, IInv, Typed, AuthRecord, WorkerRecord,
         ChildRecord, KwinRecord, PipeRecord, Processes, Writers, Statuses, NoRows,
         Ended
<1>7. Rows'
  BY <1>4, RowsOK DEF RequestRefused, IInv, Typed, AuthRecord, WorkerRecord,
         ChildRecord, KwinRecord, PipeRecord, Processes, Writers, Rows, Statuses,
         NoRows, Ended
<1>8. Answers'
  BY <1>4, RowsOK DEF RequestRefused, IInv, Typed, AuthRecord, WorkerRecord,
         ChildRecord, KwinRecord, PipeRecord, Processes, Writers, Rows, Answers,
         Statuses, NoRows, Ended
<1>. QED  BY <1>4, <1>5, <1>6, <1>7, <1>8 DEF IInv

LEMMA DrainKeeps ==
    ASSUME IInv, Drain
    PROVE  IInv'
<1>1. PICK n \in Nat : n = worker.spool + 1
  BY DEF IInv, Typed, WorkerRecord
<1>2. CASE /\ pipe.rows > 0 /\ worker.spool < MaxRows
           /\ worker' = [worker EXCEPT !.spool = n] /\ pipe' = [pipe EXCEPT !.rows = @ - 1]
  <2>1. worker' \in WorkerRecord
    BY <1>1, <1>2, RowsOK DEF Drain, IInv, Typed, WorkerRecord, WorkerGoto
  <2>2. pipe' \in PipeRecord
    BY <1>1, <1>2, RowsOK DEF Drain, IInv, Typed, PipeRecord, WorkerGoto
  <2>3. UNCHANGED <<auth, child, kwin, authorized, expired>>
    BY <1>1, <1>2 DEF Drain
  <2>4. Typed'
    BY <2>1, <2>2, <2>3 DEF IInv, Typed
  <2>5. Processes'
    BY <1>1, <1>2, <2>4, RowsOK DEF Drain, IInv, Typed, AuthRecord, WorkerRecord,
           ChildRecord, KwinRecord, PipeRecord, Processes, WorkerGoto, NoRows, Ended
  <2>6. Writers'
    BY <1>1, <1>2, <2>4, RowsOK DEF Drain, IInv, Typed, AuthRecord, WorkerRecord,
           ChildRecord, KwinRecord, PipeRecord, Processes, Writers, WorkerGoto, NoRows,
           Ended
  <2>7. Rows'
    BY <1>1, <1>2, <2>4, RowsOK DEF Drain, IInv, Typed, AuthRecord, WorkerRecord,
           ChildRecord, KwinRecord, PipeRecord, Processes, Writers, Rows, WorkerGoto,
           NoRows, Ended
  <2>8. Answers'
    BY <1>1, <1>2, <2>4, RowsOK DEF Drain, IInv, Typed, AuthRecord, WorkerRecord,
           ChildRecord, KwinRecord, PipeRecord, Processes, Writers, Rows, Answers,
           WorkerGoto, NoRows, Ended
  <2>. QED  BY <2>4, <2>5, <2>6, <2>7, <2>8 DEF IInv
<1>3. CASE /\ pipe.rows > 0 /\ worker' = [worker EXCEPT !.spool = n, !.pc = "shape"]
           /\ pipe' = [pipe EXCEPT !.rows = @ - 1]
  <2>1. worker' \in WorkerRecord
    BY <1>1, <1>3, RowsOK DEF Drain, IInv, Typed, WorkerRecord, WorkerGoto
  <2>2. pipe' \in PipeRecord
    BY <1>1, <1>3, RowsOK DEF Drain, IInv, Typed, PipeRecord, WorkerGoto
  <2>3. UNCHANGED <<auth, child, kwin, authorized, expired>>
    BY <1>1, <1>3 DEF Drain
  <2>4. Typed'
    BY <2>1, <2>2, <2>3 DEF IInv, Typed
  <2>5. Processes'
    BY <1>1, <1>3, <2>4, RowsOK DEF Drain, IInv, Typed, AuthRecord, WorkerRecord,
           ChildRecord, KwinRecord, PipeRecord, Processes, WorkerGoto, NoRows, Ended
  <2>6. Writers'
    BY <1>1, <1>3, <2>4, RowsOK DEF Drain, IInv, Typed, AuthRecord, WorkerRecord,
           ChildRecord, KwinRecord, PipeRecord, Processes, Writers, WorkerGoto, NoRows,
           Ended
  <2>7. Rows'
    BY <1>1, <1>3, <2>4, RowsOK DEF Drain, IInv, Typed, AuthRecord, WorkerRecord,
           ChildRecord, KwinRecord, PipeRecord, Processes, Writers, Rows, WorkerGoto,
           NoRows, Ended
  <2>8. Answers'
    BY <1>1, <1>3, <2>4, RowsOK DEF Drain, IInv, Typed, AuthRecord, WorkerRecord,
           ChildRecord, KwinRecord, PipeRecord, Processes, Writers, Rows, Answers,
           WorkerGoto, NoRows, Ended
  <2>. QED  BY <2>4, <2>5, <2>6, <2>7, <2>8 DEF IInv
<1>4. CASE /\ pipe.rows = 0 /\ pipe.writers = {} /\ pipe' = pipe
           /\ worker' = [worker EXCEPT !.drained = TRUE, !.pc = "shape"]
  <2>1. worker' \in WorkerRecord
    BY <1>1, <1>4, RowsOK DEF Drain, IInv, Typed, WorkerRecord, WorkerGoto
  <2>2. pipe' \in PipeRecord
    BY <1>1, <1>4, RowsOK DEF Drain, IInv, Typed, PipeRecord, WorkerGoto
  <2>3. UNCHANGED <<auth, child, kwin, authorized, expired>>
    BY <1>1, <1>4 DEF Drain
  <2>4. Typed'
    BY <2>1, <2>2, <2>3 DEF IInv, Typed
  <2>5. Processes'
    BY <1>1, <1>4, <2>4, RowsOK DEF Drain, IInv, Typed, AuthRecord, WorkerRecord,
           ChildRecord, KwinRecord, PipeRecord, Processes, WorkerGoto, NoRows, Ended
  <2>6. Writers'
    BY <1>1, <1>4, <2>4, RowsOK DEF Drain, IInv, Typed, AuthRecord, WorkerRecord,
           ChildRecord, KwinRecord, PipeRecord, Processes, Writers, WorkerGoto, NoRows,
           Ended
  <2>7. Rows'
    BY <1>1, <1>4, <2>4, RowsOK DEF Drain, IInv, Typed, AuthRecord, WorkerRecord,
           ChildRecord, KwinRecord, PipeRecord, Processes, Writers, Rows, WorkerGoto,
           NoRows, Ended
  <2>8. Answers'
    BY <1>1, <1>4, <2>4, RowsOK DEF Drain, IInv, Typed, AuthRecord, WorkerRecord,
           ChildRecord, KwinRecord, PipeRecord, Processes, Writers, Rows, Answers,
           WorkerGoto, NoRows, Ended
  <2>. QED  BY <2>4, <2>5, <2>6, <2>7, <2>8 DEF IInv
<1>5. CASE /\ worker' = [worker EXCEPT !.pc = "shape"] /\ pipe' = pipe
  <2>1. worker' \in WorkerRecord
    BY <1>1, <1>5, RowsOK DEF Drain, IInv, Typed, WorkerRecord, WorkerGoto
  <2>2. pipe' \in PipeRecord
    BY <1>1, <1>5, RowsOK DEF Drain, IInv, Typed, PipeRecord, WorkerGoto
  <2>3. UNCHANGED <<auth, child, kwin, authorized, expired>>
    BY <1>1, <1>5 DEF Drain
  <2>4. Typed'
    BY <2>1, <2>2, <2>3 DEF IInv, Typed
  <2>5. Processes'
    BY <1>1, <1>5, <2>4, RowsOK DEF Drain, IInv, Typed, AuthRecord, WorkerRecord,
           ChildRecord, KwinRecord, PipeRecord, Processes, WorkerGoto, NoRows, Ended
  <2>6. Writers'
    BY <1>1, <1>5, <2>4, RowsOK DEF Drain, IInv, Typed, AuthRecord, WorkerRecord,
           ChildRecord, KwinRecord, PipeRecord, Processes, Writers, WorkerGoto, NoRows,
           Ended
  <2>7. Rows'
    BY <1>1, <1>5, <2>4, RowsOK DEF Drain, IInv, Typed, AuthRecord, WorkerRecord,
           ChildRecord, KwinRecord, PipeRecord, Processes, Writers, Rows, WorkerGoto,
           NoRows, Ended
  <2>8. Answers'
    BY <1>1, <1>5, <2>4, RowsOK DEF Drain, IInv, Typed, AuthRecord, WorkerRecord,
           ChildRecord, KwinRecord, PipeRecord, Processes, Writers, Rows, Answers,
           WorkerGoto, NoRows, Ended
  <2>. QED  BY <2>4, <2>5, <2>6, <2>7, <2>8 DEF IInv
<1>. QED  BY <1>1, <1>2, <1>3, <1>4, <1>5 DEF Drain, WorkerGoto

LEMMA ReceiveShapeKeeps ==
    ASSUME IInv, ReceiveShape
    PROVE  IInv'
<1>1. CASE worker' = [worker EXCEPT !.pc = "wait"]
  <2>1. worker' \in WorkerRecord
    BY <1>1, RowsOK DEF ReceiveShape, IInv, Typed, WorkerRecord, WorkerGoto, Ended
  <2>2. UNCHANGED <<auth, child, kwin, pipe, authorized, expired>>
    BY <1>1 DEF ReceiveShape
  <2>3. Typed'
    BY <2>1, <2>2 DEF IInv, Typed
  <2>4. Processes'
    BY <1>1, <2>3, RowsOK DEF ReceiveShape, IInv, Typed, AuthRecord, WorkerRecord,
           ChildRecord, KwinRecord, PipeRecord, Processes, WorkerGoto, Ended, NoRows
  <2>5. Writers'
    BY <1>1, <2>3, RowsOK DEF ReceiveShape, IInv, Typed, AuthRecord, WorkerRecord,
           ChildRecord, KwinRecord, PipeRecord, Processes, Writers, WorkerGoto, Ended,
           NoRows
  <2>6. Rows'
    BY <1>1, <2>3, RowsOK DEF ReceiveShape, IInv, Typed, AuthRecord, WorkerRecord,
           ChildRecord, KwinRecord, PipeRecord, Processes, Writers, Rows, WorkerGoto,
           Ended, NoRows
  <2>7. Answers'
    BY <1>1, <2>3, RowsOK DEF ReceiveShape, IInv, Typed, AuthRecord, WorkerRecord,
           ChildRecord, KwinRecord, PipeRecord, Processes, Writers, Rows, Answers,
           WorkerGoto, Ended, NoRows
  <2>. QED  BY <2>3, <2>4, <2>5, <2>6, <2>7 DEF IInv
<1>2. CASE worker' = [worker EXCEPT !.pc = "wait", !.shaped = TRUE]
  <2>1. worker' \in WorkerRecord
    BY <1>2, RowsOK DEF ReceiveShape, IInv, Typed, WorkerRecord, WorkerGoto, Ended
  <2>2. UNCHANGED <<auth, child, kwin, pipe, authorized, expired>>
    BY <1>2 DEF ReceiveShape
  <2>3. Typed'
    BY <2>1, <2>2 DEF IInv, Typed
  <2>4. Processes'
    BY <1>2, <2>3, RowsOK DEF ReceiveShape, IInv, Typed, AuthRecord, WorkerRecord,
           ChildRecord, KwinRecord, PipeRecord, Processes, WorkerGoto, Ended, NoRows
  <2>5. Writers'
    BY <1>2, <2>3, RowsOK DEF ReceiveShape, IInv, Typed, AuthRecord, WorkerRecord,
           ChildRecord, KwinRecord, PipeRecord, Processes, Writers, WorkerGoto, Ended,
           NoRows
  <2>6. Rows'
    BY <1>2, <2>3, RowsOK DEF ReceiveShape, IInv, Typed, AuthRecord, WorkerRecord,
           ChildRecord, KwinRecord, PipeRecord, Processes, Writers, Rows, WorkerGoto,
           Ended, NoRows
  <2>7. Answers'
    BY <1>2, <2>3, RowsOK DEF ReceiveShape, IInv, Typed, AuthRecord, WorkerRecord,
           ChildRecord, KwinRecord, PipeRecord, Processes, Writers, Rows, Answers,
           WorkerGoto, Ended, NoRows
  <2>. QED  BY <2>3, <2>4, <2>5, <2>6, <2>7 DEF IInv
<1>. QED  BY <1>1, <1>2 DEF ReceiveShape, WorkerGoto

LEMMA WaitChildKeeps ==
    ASSUME IInv, WaitChild
    PROVE  IInv'
<1>1. PICK b \in BOOLEAN : b = (child.code = 0)
  OBVIOUS
<1>2. CASE worker' = [worker EXCEPT !.pc = "encode", !.clean = b]
  <2>1. worker' \in WorkerRecord
    BY <1>2, RowsOK DEF WaitChild, IInv, Typed, WorkerRecord, WorkerGoto, Ended
  <2>2. UNCHANGED <<auth, child, kwin, pipe, authorized, expired>>
    BY <1>2 DEF WaitChild
  <2>3. Typed'
    BY <2>1, <2>2 DEF IInv, Typed
  <2>4. Processes'
    BY <1>2, <2>3, RowsOK DEF WaitChild, IInv, Typed, AuthRecord, WorkerRecord,
           ChildRecord, KwinRecord, PipeRecord, Processes, WorkerGoto, Ended, NoRows
  <2>5. Writers'
    BY <1>2, <2>3, RowsOK DEF WaitChild, IInv, Typed, AuthRecord, WorkerRecord,
           ChildRecord, KwinRecord, PipeRecord, Processes, Writers, WorkerGoto, Ended,
           NoRows
  <2>6. Rows'
    BY <1>2, <2>3, RowsOK DEF WaitChild, IInv, Typed, AuthRecord, WorkerRecord,
           ChildRecord, KwinRecord, PipeRecord, Processes, Writers, Rows, WorkerGoto,
           Ended, NoRows
  <2>7. Answers'
    BY <1>2, <2>3, RowsOK DEF WaitChild, IInv, Typed, AuthRecord, WorkerRecord,
           ChildRecord, KwinRecord, PipeRecord, Processes, Writers, Rows, Answers,
           WorkerGoto, Ended, NoRows
  <2>. QED  BY <2>3, <2>4, <2>5, <2>6, <2>7 DEF IInv
<1>3. CASE worker' = [worker EXCEPT !.pc = "encode"]
  <2>1. worker' \in WorkerRecord
    BY <1>3, RowsOK DEF WaitChild, IInv, Typed, WorkerRecord, WorkerGoto, Ended
  <2>2. UNCHANGED <<auth, child, kwin, pipe, authorized, expired>>
    BY <1>3 DEF WaitChild
  <2>3. Typed'
    BY <2>1, <2>2 DEF IInv, Typed
  <2>4. Processes'
    BY <1>3, <2>3, RowsOK DEF WaitChild, IInv, Typed, AuthRecord, WorkerRecord,
           ChildRecord, KwinRecord, PipeRecord, Processes, WorkerGoto, Ended, NoRows
  <2>5. Writers'
    BY <1>3, <2>3, RowsOK DEF WaitChild, IInv, Typed, AuthRecord, WorkerRecord,
           ChildRecord, KwinRecord, PipeRecord, Processes, Writers, WorkerGoto, Ended,
           NoRows
  <2>6. Rows'
    BY <1>3, <2>3, RowsOK DEF WaitChild, IInv, Typed, AuthRecord, WorkerRecord,
           ChildRecord, KwinRecord, PipeRecord, Processes, Writers, Rows, WorkerGoto,
           Ended, NoRows
  <2>7. Answers'
    BY <1>3, <2>3, RowsOK DEF WaitChild, IInv, Typed, AuthRecord, WorkerRecord,
           ChildRecord, KwinRecord, PipeRecord, Processes, Writers, Rows, Answers,
           WorkerGoto, Ended, NoRows
  <2>. QED  BY <2>3, <2>4, <2>5, <2>6, <2>7 DEF IInv
<1>. QED  BY <1>2, <1>3, <1>1 DEF WaitChild, WorkerGoto

LEMMA EncodeKeeps ==
    ASSUME IInv, Encode
    PROVE  IInv'
<1>1. PICK n \in Int : n = child.rows
  BY DEF IInv, Typed, ChildRecord
<1>2. CASE /\ Complete(worker, child)
           /\ worker' = [worker EXCEPT !.pc = "send", !.status = "OK", !.image = n]
  <2>1. worker' \in WorkerRecord
    BY <1>1, <1>2, RowsOK DEF Encode, IInv, Typed, WorkerRecord, WorkerGoto, Ended, Hidden,
           Exited, Killed, Complete, EncodeCapture, Statuses
  <2>2. child' \in ChildRecord
    BY <1>1, <1>2, RowsOK DEF Encode, IInv, Typed, ChildRecord, WorkerGoto, Ended, Hidden,
           Exited, Killed, Complete, EncodeCapture, Statuses
  <2>3. pipe' \in PipeRecord
    BY <1>1, <1>2, RowsOK DEF Encode, IInv, Typed, PipeRecord, WorkerGoto, Ended, Hidden,
           Exited, Killed, Complete, EncodeCapture, Statuses
  <2>4. UNCHANGED <<auth, kwin, authorized, expired>>
    BY <1>2 DEF Encode
  <2>5. Typed'
    BY <2>1, <2>2, <2>3, <2>4 DEF IInv, Typed
  <2>6. Processes'
    BY <1>1, <1>2, <2>5, RowsOK DEF Encode, IInv, Typed, AuthRecord, WorkerRecord,
           ChildRecord, KwinRecord, PipeRecord, Processes, WorkerGoto, Ended, Hidden,
           Exited, Killed, Complete, EncodeCapture, Statuses, NoRows
  <2>7. Writers'
    BY <1>1, <1>2, <2>5, RowsOK DEF Encode, IInv, Typed, AuthRecord, WorkerRecord,
           ChildRecord, KwinRecord, PipeRecord, Processes, Writers, WorkerGoto, Ended,
           Hidden, Exited, Killed, Complete, EncodeCapture, Statuses, NoRows
  <2>8. Rows'
    BY <1>1, <1>2, <2>5, RowsOK DEF Encode, IInv, Typed, AuthRecord, WorkerRecord,
           ChildRecord, KwinRecord, PipeRecord, Processes, Writers, Rows, WorkerGoto,
           Ended, Hidden, Exited, Killed, Complete, EncodeCapture, Statuses, NoRows
  <2>9. Answers'
    BY <1>1, <1>2, <2>5, RowsOK DEF Encode, IInv, Typed, AuthRecord, WorkerRecord,
           ChildRecord, KwinRecord, PipeRecord, Processes, Writers, Rows, Answers,
           WorkerGoto, Ended, Hidden, Exited, Killed, Complete, EncodeCapture, Statuses,
           NoRows
  <2>. QED  BY <2>5, <2>6, <2>7, <2>8, <2>9 DEF IInv
<1>3. CASE worker' = [worker EXCEPT !.pc = "send"]
  <2>1. worker' \in WorkerRecord
    BY <1>3, RowsOK DEF Encode, IInv, Typed, WorkerRecord, WorkerGoto, Ended, Hidden,
           Exited, Killed, Complete, EncodeCapture, Statuses
  <2>2. child' \in ChildRecord
    BY <1>3, RowsOK DEF Encode, IInv, Typed, ChildRecord, WorkerGoto, Ended, Hidden,
           Exited, Killed, Complete, EncodeCapture, Statuses
  <2>3. pipe' \in PipeRecord
    BY <1>3, RowsOK DEF Encode, IInv, Typed, PipeRecord, WorkerGoto, Ended, Hidden,
           Exited, Killed, Complete, EncodeCapture, Statuses
  <2>4. UNCHANGED <<auth, kwin, authorized, expired>>
    BY <1>3 DEF Encode
  <2>5. Typed'
    BY <2>1, <2>2, <2>3, <2>4 DEF IInv, Typed
  <2>6. Processes'
    BY <1>3, <2>5, RowsOK DEF Encode, IInv, Typed, AuthRecord, WorkerRecord,
           ChildRecord, KwinRecord, PipeRecord, Processes, WorkerGoto, Ended, Hidden,
           Exited, Killed, Complete, EncodeCapture, Statuses, NoRows
  <2>7. Writers'
    BY <1>3, <2>5, RowsOK DEF Encode, IInv, Typed, AuthRecord, WorkerRecord,
           ChildRecord, KwinRecord, PipeRecord, Processes, Writers, WorkerGoto, Ended,
           Hidden, Exited, Killed, Complete, EncodeCapture, Statuses, NoRows
  <2>8. Rows'
    BY <1>3, <2>5, RowsOK DEF Encode, IInv, Typed, AuthRecord, WorkerRecord,
           ChildRecord, KwinRecord, PipeRecord, Processes, Writers, Rows, WorkerGoto,
           Ended, Hidden, Exited, Killed, Complete, EncodeCapture, Statuses, NoRows
  <2>9. Answers'
    BY <1>3, <2>5, RowsOK DEF Encode, IInv, Typed, AuthRecord, WorkerRecord,
           ChildRecord, KwinRecord, PipeRecord, Processes, Writers, Rows, Answers,
           WorkerGoto, Ended, Hidden, Exited, Killed, Complete, EncodeCapture, Statuses,
           NoRows
  <2>. QED  BY <2>5, <2>6, <2>7, <2>8, <2>9 DEF IInv
<1>. QED  BY <1>1, <1>2, <1>3, <1>1 DEF Encode, WorkerGoto

LEMMA SendKeeps ==
    ASSUME IInv, Send
    PROVE  IInv'
<1>1. CASE worker' = [worker EXCEPT !.pc = "exit", !.sent = TRUE]
  <2>1. worker' \in WorkerRecord
    BY <1>1, RowsOK DEF Send, IInv, Typed, WorkerRecord, Exited
  <2>2. UNCHANGED <<auth, child, kwin, pipe, authorized, expired>>
    BY <1>1 DEF Send
  <2>3. Typed'
    BY <2>1, <2>2 DEF IInv, Typed
  <2>4. Processes'
    BY <1>1, <2>3, RowsOK DEF Send, IInv, Typed, AuthRecord, WorkerRecord, ChildRecord,
           KwinRecord, PipeRecord, Processes, Exited, NoRows, Ended
  <2>5. Writers'
    BY <1>1, <2>3, RowsOK DEF Send, IInv, Typed, AuthRecord, WorkerRecord, ChildRecord,
           KwinRecord, PipeRecord, Processes, Writers, Exited, NoRows, Ended
  <2>6. Rows'
    BY <1>1, <2>3, RowsOK DEF Send, IInv, Typed, AuthRecord, WorkerRecord, ChildRecord,
           KwinRecord, PipeRecord, Processes, Writers, Rows, Exited, NoRows, Ended
  <2>7. Answers'
    BY <1>1, <2>3, RowsOK DEF Send, IInv, Typed, AuthRecord, WorkerRecord, ChildRecord,
           KwinRecord, PipeRecord, Processes, Writers, Rows, Answers, Exited, NoRows,
           Ended
  <2>. QED  BY <2>3, <2>4, <2>5, <2>6, <2>7 DEF IInv
<1>2. CASE worker' = [worker EXCEPT !.pc = "ended", !.code = 1]
  <2>1. worker' \in WorkerRecord
    BY <1>2, RowsOK DEF Send, IInv, Typed, WorkerRecord, Exited
  <2>2. UNCHANGED <<auth, child, kwin, pipe, authorized, expired>>
    BY <1>2 DEF Send
  <2>3. Typed'
    BY <2>1, <2>2 DEF IInv, Typed
  <2>4. Processes'
    BY <1>2, <2>3, RowsOK DEF Send, IInv, Typed, AuthRecord, WorkerRecord, ChildRecord,
           KwinRecord, PipeRecord, Processes, Exited, NoRows, Ended
  <2>5. Writers'
    BY <1>2, <2>3, RowsOK DEF Send, IInv, Typed, AuthRecord, WorkerRecord, ChildRecord,
           KwinRecord, PipeRecord, Processes, Writers, Exited, NoRows, Ended
  <2>6. Rows'
    BY <1>2, <2>3, RowsOK DEF Send, IInv, Typed, AuthRecord, WorkerRecord, ChildRecord,
           KwinRecord, PipeRecord, Processes, Writers, Rows, Exited, NoRows, Ended
  <2>7. Answers'
    BY <1>2, <2>3, RowsOK DEF Send, IInv, Typed, AuthRecord, WorkerRecord, ChildRecord,
           KwinRecord, PipeRecord, Processes, Writers, Rows, Answers, Exited, NoRows,
           Ended
  <2>. QED  BY <2>3, <2>4, <2>5, <2>6, <2>7 DEF IInv
<1>. QED  BY <1>1, <1>2 DEF Send, Exited

LEMMA ExitKeeps ==
    ASSUME IInv, Exit
    PROVE  IInv'
<1>1. worker' \in WorkerRecord
  BY RowsOK DEF Exit, IInv, Typed, WorkerRecord, Exited
<1>2. UNCHANGED <<auth, child, kwin, pipe, authorized, expired>>
  BY DEF Exit
<1>3. Typed'
  BY <1>1, <1>2 DEF IInv, Typed
<1>4. Processes'
  BY <1>3, RowsOK DEF Exit, IInv, Typed, AuthRecord, WorkerRecord, ChildRecord,
         KwinRecord, PipeRecord, Processes, Exited, NoRows, Ended
<1>5. Writers'
  BY <1>3, RowsOK DEF Exit, IInv, Typed, AuthRecord, WorkerRecord, ChildRecord,
         KwinRecord, PipeRecord, Processes, Writers, Exited, NoRows, Ended
<1>6. Rows'
  BY <1>3, RowsOK DEF Exit, IInv, Typed, AuthRecord, WorkerRecord, ChildRecord,
         KwinRecord, PipeRecord, Processes, Writers, Rows, Exited, NoRows, Ended
<1>7. Answers'
  BY <1>3, RowsOK DEF Exit, IInv, Typed, AuthRecord, WorkerRecord, ChildRecord,
         KwinRecord, PipeRecord, Processes, Writers, Rows, Answers, Exited, NoRows,
         Ended
<1>. QED  BY <1>3, <1>4, <1>5, <1>6, <1>7 DEF IInv

LEMMA ChildStartKeeps ==
    ASSUME IInv, ChildStart
    PROVE  IInv'
<1>1. child' \in ChildRecord
  BY RowsOK DEF ChildStart, IInv, Typed, ChildRecord, Ended
<1>2. UNCHANGED <<auth, worker, kwin, pipe, authorized, expired>>
  BY DEF ChildStart
<1>3. Typed'
  BY <1>1, <1>2 DEF IInv, Typed
<1>4. Processes'
  BY <1>3, RowsOK DEF ChildStart, IInv, Typed, AuthRecord, WorkerRecord, ChildRecord,
         KwinRecord, PipeRecord, Processes, Ended, NoRows
<1>5. Writers'
  BY <1>3, RowsOK DEF ChildStart, IInv, Typed, AuthRecord, WorkerRecord, ChildRecord,
         KwinRecord, PipeRecord, Processes, Writers, Ended, NoRows
<1>6. Rows'
  BY <1>3, RowsOK DEF ChildStart, IInv, Typed, AuthRecord, WorkerRecord, ChildRecord,
         KwinRecord, PipeRecord, Processes, Writers, Rows, Ended, NoRows
<1>7. Answers'
  BY <1>3, RowsOK DEF ChildStart, IInv, Typed, AuthRecord, WorkerRecord, ChildRecord,
         KwinRecord, PipeRecord, Processes, Writers, Rows, Answers, Ended, NoRows
<1>. QED  BY <1>3, <1>4, <1>5, <1>6, <1>7 DEF IInv

LEMMA ChildRefusesKeeps ==
    ASSUME IInv, ChildRefuses
    PROVE  IInv'
<1>1. child' \in ChildRecord
  BY RowsOK DEF ChildRefuses, IInv, Typed, ChildRecord, ChildEnds, Hidden, Exited
<1>2. pipe' \in PipeRecord
  BY RowsOK DEF ChildRefuses, IInv, Typed, PipeRecord, ChildEnds, Hidden, Exited
<1>3. UNCHANGED <<auth, worker, kwin, authorized, expired>>
  BY DEF ChildRefuses
<1>4. Typed'
  BY <1>1, <1>2, <1>3 DEF IInv, Typed
<1>5. Processes'
  BY <1>4, RowsOK DEF ChildRefuses, IInv, Typed, AuthRecord, WorkerRecord, ChildRecord,
         KwinRecord, PipeRecord, Processes, ChildEnds, Hidden, Exited, NoRows, Ended
<1>6. Writers'
  BY <1>4, RowsOK DEF ChildRefuses, IInv, Typed, AuthRecord, WorkerRecord, ChildRecord,
         KwinRecord, PipeRecord, Processes, Writers, ChildEnds, Hidden, Exited, NoRows,
         Ended
<1>7. Rows'
  BY <1>4, RowsOK DEF ChildRefuses, IInv, Typed, AuthRecord, WorkerRecord, ChildRecord,
         KwinRecord, PipeRecord, Processes, Writers, Rows, ChildEnds, Hidden, Exited,
         NoRows, Ended
<1>8. Answers'
  BY <1>4, RowsOK DEF ChildRefuses, IInv, Typed, AuthRecord, WorkerRecord, ChildRecord,
         KwinRecord, PipeRecord, Processes, Writers, Rows, Answers, ChildEnds, Hidden,
         Exited, NoRows, Ended
<1>. QED  BY <1>4, <1>5, <1>6, <1>7, <1>8 DEF IInv

LEMMA AskKwinKeeps ==
    ASSUME IInv, AskKwin
    PROVE  IInv'
<1>1. CASE /\ child' = [Exposed(child) EXCEPT !.pc = "call"]
           /\ kwin' = [kwin EXCEPT !.pc = "asked", !.asked = KwinOwner]
           /\ pipe' = [pipe EXCEPT !.writers = @ \cup {"kwin"}]
  <2>1. child' \in ChildRecord
    BY <1>1, RowsOK DEF AskKwin, IInv, Typed, ChildRecord, KwinOwner, Exposed,
           ChildFails, Hidden, Failure, Statuses
  <2>2. kwin' \in KwinRecord
    BY <1>1, RowsOK DEF AskKwin, IInv, Typed, KwinRecord, KwinOwner, Exposed,
           ChildFails, Hidden, Failure, Statuses
  <2>3. pipe' \in PipeRecord
    BY <1>1, RowsOK DEF AskKwin, IInv, Typed, PipeRecord, KwinOwner, Exposed,
           ChildFails, Hidden, Failure, Statuses
  <2>4. UNCHANGED <<auth, worker, authorized, expired>>
    BY <1>1 DEF AskKwin
  <2>5. Typed'
    BY <2>1, <2>2, <2>3, <2>4 DEF IInv, Typed
  <2>6. Processes'
    BY <1>1, <2>5, RowsOK DEF AskKwin, IInv, Typed, AuthRecord, WorkerRecord,
           ChildRecord, KwinRecord, PipeRecord, Processes, KwinOwner, Exposed,
           ChildFails, Hidden, Failure, Statuses, NoRows, Ended
  <2>7. Writers'
    BY <1>1, <2>5, RowsOK DEF AskKwin, IInv, Typed, AuthRecord, WorkerRecord,
           ChildRecord, KwinRecord, PipeRecord, Processes, Writers, KwinOwner, Exposed,
           ChildFails, Hidden, Failure, Statuses, NoRows, Ended
  <2>8. Rows'
    BY <1>1, <2>5, RowsOK DEF AskKwin, IInv, Typed, AuthRecord, WorkerRecord,
           ChildRecord, KwinRecord, PipeRecord, Processes, Writers, Rows, KwinOwner,
           Exposed, ChildFails, Hidden, Failure, Statuses, NoRows, Ended
  <2>9. Answers'
    BY <1>1, <2>5, RowsOK DEF AskKwin, IInv, Typed, AuthRecord, WorkerRecord,
           ChildRecord, KwinRecord, PipeRecord, Processes, Writers, Rows, Answers,
           KwinOwner, Exposed, ChildFails, Hidden, Failure, Statuses, NoRows, Ended
  <2>. QED  BY <2>5, <2>6, <2>7, <2>8, <2>9 DEF IInv
<1>2. CASE ChildFails /\ kwin' = kwin
  <2>1. child' \in ChildRecord
    BY <1>2, RowsOK DEF AskKwin, IInv, Typed, ChildRecord, KwinOwner, Exposed,
           ChildFails, Hidden, Failure, Statuses
  <2>2. kwin' \in KwinRecord
    BY <1>2, RowsOK DEF AskKwin, IInv, Typed, KwinRecord, KwinOwner, Exposed,
           ChildFails, Hidden, Failure, Statuses
  <2>3. pipe' \in PipeRecord
    BY <1>2, RowsOK DEF AskKwin, IInv, Typed, PipeRecord, KwinOwner, Exposed,
           ChildFails, Hidden, Failure, Statuses
  <2>4. UNCHANGED <<auth, worker, authorized, expired>>
    BY <1>2 DEF AskKwin
  <2>5. Typed'
    BY <2>1, <2>2, <2>3, <2>4 DEF IInv, Typed
  <2>6. Processes'
    BY <1>2, <2>5, RowsOK DEF AskKwin, IInv, Typed, AuthRecord, WorkerRecord,
           ChildRecord, KwinRecord, PipeRecord, Processes, KwinOwner, Exposed,
           ChildFails, Hidden, Failure, Statuses, NoRows, Ended
  <2>7. Writers'
    BY <1>2, <2>5, RowsOK DEF AskKwin, IInv, Typed, AuthRecord, WorkerRecord,
           ChildRecord, KwinRecord, PipeRecord, Processes, Writers, KwinOwner, Exposed,
           ChildFails, Hidden, Failure, Statuses, NoRows, Ended
  <2>8. Rows'
    BY <1>2, <2>5, RowsOK DEF AskKwin, IInv, Typed, AuthRecord, WorkerRecord,
           ChildRecord, KwinRecord, PipeRecord, Processes, Writers, Rows, KwinOwner,
           Exposed, ChildFails, Hidden, Failure, Statuses, NoRows, Ended
  <2>9. Answers'
    BY <1>2, <2>5, RowsOK DEF AskKwin, IInv, Typed, AuthRecord, WorkerRecord,
           ChildRecord, KwinRecord, PipeRecord, Processes, Writers, Rows, Answers,
           KwinOwner, Exposed, ChildFails, Hidden, Failure, Statuses, NoRows, Ended
  <2>. QED  BY <2>5, <2>6, <2>7, <2>8, <2>9 DEF IInv
<1>. QED  BY <1>1, <1>2 DEF AskKwin

LEMMA KwinReturnsKeeps ==
    ASSUME IInv, KwinReturns
    PROVE  IInv'
<1>1. CASE /\ kwin.rows \in 1 .. MaxRows /\ pipe' = [pipe EXCEPT !.writers = @ \ {"child"}]
           /\ child' = [Hidden(child) EXCEPT !.pc = "report", !.status = "OK", !.rows = kwin.rows]
  <2>1. child' \in ChildRecord
    BY <1>1, RowsOK DEF KwinReturns, IInv, Typed, ChildRecord, ChildFails, ChildEnds,
           Hidden, Exited, Failure, Statuses, KwinRecord
  <2>2. pipe' \in PipeRecord
    BY <1>1, RowsOK DEF KwinReturns, IInv, Typed, PipeRecord, ChildFails, ChildEnds,
           Hidden, Exited, Failure, Statuses, KwinRecord
  <2>3. UNCHANGED <<auth, worker, kwin, authorized, expired>>
    BY <1>1 DEF KwinReturns
  <2>4. Typed'
    BY <2>1, <2>2, <2>3 DEF IInv, Typed
  <2>5. Processes'
    BY <1>1, <2>4, RowsOK DEF KwinReturns, IInv, Typed, AuthRecord, WorkerRecord,
           ChildRecord, KwinRecord, PipeRecord, Processes, ChildFails, ChildEnds,
           Hidden, Exited, Failure, Statuses, NoRows, Ended
  <2>6. Writers'
    BY <1>1, <2>4, RowsOK DEF KwinReturns, IInv, Typed, AuthRecord, WorkerRecord,
           ChildRecord, KwinRecord, PipeRecord, Processes, Writers, ChildFails,
           ChildEnds, Hidden, Exited, Failure, Statuses, NoRows, Ended
  <2>7. Rows'
    BY <1>1, <2>4, RowsOK DEF KwinReturns, IInv, Typed, AuthRecord, WorkerRecord,
           ChildRecord, KwinRecord, PipeRecord, Processes, Writers, Rows, ChildFails,
           ChildEnds, Hidden, Exited, Failure, Statuses, NoRows, Ended
  <2>8. Answers'
    BY <1>1, <2>4, RowsOK DEF KwinReturns, IInv, Typed, AuthRecord, WorkerRecord,
           ChildRecord, KwinRecord, PipeRecord, Processes, Writers, Rows, Answers,
           ChildFails, ChildEnds, Hidden, Exited, Failure, Statuses, NoRows, Ended
  <2>. QED  BY <2>4, <2>5, <2>6, <2>7, <2>8 DEF IInv
<1>2. CASE ChildFails
  <2>1. child' \in ChildRecord
    BY <1>2, RowsOK DEF KwinReturns, IInv, Typed, ChildRecord, ChildFails, ChildEnds,
           Hidden, Exited, Failure, Statuses, KwinRecord
  <2>2. pipe' \in PipeRecord
    BY <1>2, RowsOK DEF KwinReturns, IInv, Typed, PipeRecord, ChildFails, ChildEnds,
           Hidden, Exited, Failure, Statuses, KwinRecord
  <2>3. UNCHANGED <<auth, worker, kwin, authorized, expired>>
    BY <1>2 DEF KwinReturns
  <2>4. Typed'
    BY <2>1, <2>2, <2>3 DEF IInv, Typed
  <2>5. Processes'
    BY <1>2, <2>4, RowsOK DEF KwinReturns, IInv, Typed, AuthRecord, WorkerRecord,
           ChildRecord, KwinRecord, PipeRecord, Processes, ChildFails, ChildEnds,
           Hidden, Exited, Failure, Statuses, NoRows, Ended
  <2>6. Writers'
    BY <1>2, <2>4, RowsOK DEF KwinReturns, IInv, Typed, AuthRecord, WorkerRecord,
           ChildRecord, KwinRecord, PipeRecord, Processes, Writers, ChildFails,
           ChildEnds, Hidden, Exited, Failure, Statuses, NoRows, Ended
  <2>7. Rows'
    BY <1>2, <2>4, RowsOK DEF KwinReturns, IInv, Typed, AuthRecord, WorkerRecord,
           ChildRecord, KwinRecord, PipeRecord, Processes, Writers, Rows, ChildFails,
           ChildEnds, Hidden, Exited, Failure, Statuses, NoRows, Ended
  <2>8. Answers'
    BY <1>2, <2>4, RowsOK DEF KwinReturns, IInv, Typed, AuthRecord, WorkerRecord,
           ChildRecord, KwinRecord, PipeRecord, Processes, Writers, Rows, Answers,
           ChildFails, ChildEnds, Hidden, Exited, Failure, Statuses, NoRows, Ended
  <2>. QED  BY <2>4, <2>5, <2>6, <2>7, <2>8 DEF IInv
<1>3. CASE ChildEnds(1)
  <2>1. child' \in ChildRecord
    BY <1>3, RowsOK DEF KwinReturns, IInv, Typed, ChildRecord, ChildFails, ChildEnds,
           Hidden, Exited, Failure, Statuses, KwinRecord
  <2>2. pipe' \in PipeRecord
    BY <1>3, RowsOK DEF KwinReturns, IInv, Typed, PipeRecord, ChildFails, ChildEnds,
           Hidden, Exited, Failure, Statuses, KwinRecord
  <2>3. UNCHANGED <<auth, worker, kwin, authorized, expired>>
    BY <1>3 DEF KwinReturns
  <2>4. Typed'
    BY <2>1, <2>2, <2>3 DEF IInv, Typed
  <2>5. Processes'
    BY <1>3, <2>4, RowsOK DEF KwinReturns, IInv, Typed, AuthRecord, WorkerRecord,
           ChildRecord, KwinRecord, PipeRecord, Processes, ChildFails, ChildEnds,
           Hidden, Exited, Failure, Statuses, NoRows, Ended
  <2>6. Writers'
    BY <1>3, <2>4, RowsOK DEF KwinReturns, IInv, Typed, AuthRecord, WorkerRecord,
           ChildRecord, KwinRecord, PipeRecord, Processes, Writers, ChildFails,
           ChildEnds, Hidden, Exited, Failure, Statuses, NoRows, Ended
  <2>7. Rows'
    BY <1>3, <2>4, RowsOK DEF KwinReturns, IInv, Typed, AuthRecord, WorkerRecord,
           ChildRecord, KwinRecord, PipeRecord, Processes, Writers, Rows, ChildFails,
           ChildEnds, Hidden, Exited, Failure, Statuses, NoRows, Ended
  <2>8. Answers'
    BY <1>3, <2>4, RowsOK DEF KwinReturns, IInv, Typed, AuthRecord, WorkerRecord,
           ChildRecord, KwinRecord, PipeRecord, Processes, Writers, Rows, Answers,
           ChildFails, ChildEnds, Hidden, Exited, Failure, Statuses, NoRows, Ended
  <2>. QED  BY <2>4, <2>5, <2>6, <2>7, <2>8 DEF IInv
<1>. QED  BY <1>1, <1>2, <1>3 DEF KwinReturns

LEMMA ReportKeeps ==
    ASSUME IInv, Report
    PROVE  IInv'
<1>1. CASE child' = [child EXCEPT !.pc = "ended", !.code = 0, !.sent = TRUE]
  <2>1. child' \in ChildRecord
    BY <1>1, RowsOK DEF Report, IInv, Typed, ChildRecord, Exited
  <2>2. UNCHANGED <<auth, worker, kwin, pipe, authorized, expired>>
    BY <1>1 DEF Report
  <2>3. Typed'
    BY <2>1, <2>2 DEF IInv, Typed
  <2>4. Processes'
    BY <1>1, <2>3, RowsOK DEF Report, IInv, Typed, AuthRecord, WorkerRecord,
           ChildRecord, KwinRecord, PipeRecord, Processes, Exited, NoRows, Ended
  <2>5. Writers'
    BY <1>1, <2>3, RowsOK DEF Report, IInv, Typed, AuthRecord, WorkerRecord,
           ChildRecord, KwinRecord, PipeRecord, Processes, Writers, Exited, NoRows,
           Ended
  <2>6. Rows'
    BY <1>1, <2>3, RowsOK DEF Report, IInv, Typed, AuthRecord, WorkerRecord,
           ChildRecord, KwinRecord, PipeRecord, Processes, Writers, Rows, Exited,
           NoRows, Ended
  <2>7. Answers'
    BY <1>1, <2>3, RowsOK DEF Report, IInv, Typed, AuthRecord, WorkerRecord,
           ChildRecord, KwinRecord, PipeRecord, Processes, Writers, Rows, Answers,
           Exited, NoRows, Ended
  <2>. QED  BY <2>3, <2>4, <2>5, <2>6, <2>7 DEF IInv
<1>2. CASE child' = [child EXCEPT !.pc = "ended", !.code = 1]
  <2>1. child' \in ChildRecord
    BY <1>2, RowsOK DEF Report, IInv, Typed, ChildRecord, Exited
  <2>2. UNCHANGED <<auth, worker, kwin, pipe, authorized, expired>>
    BY <1>2 DEF Report
  <2>3. Typed'
    BY <2>1, <2>2 DEF IInv, Typed
  <2>4. Processes'
    BY <1>2, <2>3, RowsOK DEF Report, IInv, Typed, AuthRecord, WorkerRecord,
           ChildRecord, KwinRecord, PipeRecord, Processes, Exited, NoRows, Ended
  <2>5. Writers'
    BY <1>2, <2>3, RowsOK DEF Report, IInv, Typed, AuthRecord, WorkerRecord,
           ChildRecord, KwinRecord, PipeRecord, Processes, Writers, Exited, NoRows,
           Ended
  <2>6. Rows'
    BY <1>2, <2>3, RowsOK DEF Report, IInv, Typed, AuthRecord, WorkerRecord,
           ChildRecord, KwinRecord, PipeRecord, Processes, Writers, Rows, Exited,
           NoRows, Ended
  <2>7. Answers'
    BY <1>2, <2>3, RowsOK DEF Report, IInv, Typed, AuthRecord, WorkerRecord,
           ChildRecord, KwinRecord, PipeRecord, Processes, Writers, Rows, Answers,
           Exited, NoRows, Ended
  <2>. QED  BY <2>3, <2>4, <2>5, <2>6, <2>7 DEF IInv
<1>. QED  BY <1>1, <1>2 DEF Report, Exited

LEMMA KwinRepliesKeeps ==
    ASSUME IInv, KwinReplies
    PROVE  IInv'
<1>1. kwin' \in KwinRecord
  BY RowsOK DEF KwinReplies, IInv, Typed, KwinRecord
<1>2. UNCHANGED <<auth, worker, child, pipe, authorized, expired>>
  BY DEF KwinReplies
<1>3. Typed'
  BY <1>1, <1>2 DEF IInv, Typed
<1>4. Processes'
  BY <1>3, RowsOK DEF KwinReplies, IInv, Typed, AuthRecord, WorkerRecord, ChildRecord,
         KwinRecord, PipeRecord, Processes, NoRows, Ended
<1>5. Writers'
  BY <1>3, RowsOK DEF KwinReplies, IInv, Typed, AuthRecord, WorkerRecord, ChildRecord,
         KwinRecord, PipeRecord, Processes, Writers, NoRows, Ended
<1>6. Rows'
  BY <1>3, RowsOK DEF KwinReplies, IInv, Typed, AuthRecord, WorkerRecord, ChildRecord,
         KwinRecord, PipeRecord, Processes, Writers, Rows, NoRows, Ended
<1>7. Answers'
  BY <1>3, RowsOK DEF KwinReplies, IInv, Typed, AuthRecord, WorkerRecord, ChildRecord,
         KwinRecord, PipeRecord, Processes, Writers, Rows, Answers, NoRows, Ended
<1>. QED  BY <1>3, <1>4, <1>5, <1>6, <1>7 DEF IInv

LEMMA KwinWritesKeeps ==
    ASSUME IInv, KwinWrites
    PROVE  IInv'
<1>1. kwin' \in KwinRecord
  BY RowsOK DEF KwinWrites, IInv, Typed, KwinRecord
<1>2. pipe' \in PipeRecord
  BY RowsOK DEF KwinWrites, IInv, Typed, PipeRecord
<1>3. UNCHANGED <<auth, worker, child, authorized, expired>>
  BY DEF KwinWrites
<1>4. Typed'
  BY <1>1, <1>2, <1>3 DEF IInv, Typed
<1>5. Processes'
  BY <1>4, RowsOK DEF KwinWrites, IInv, Typed, AuthRecord, WorkerRecord, ChildRecord,
         KwinRecord, PipeRecord, Processes, NoRows, Ended
<1>6. Writers'
  BY <1>4, RowsOK DEF KwinWrites, IInv, Typed, AuthRecord, WorkerRecord, ChildRecord,
         KwinRecord, PipeRecord, Processes, Writers, NoRows, Ended
<1>7. Rows'
  BY <1>4, RowsOK DEF KwinWrites, IInv, Typed, AuthRecord, WorkerRecord, ChildRecord,
         KwinRecord, PipeRecord, Processes, Writers, Rows, NoRows, Ended
<1>8. Answers'
  BY <1>4, RowsOK DEF KwinWrites, IInv, Typed, AuthRecord, WorkerRecord, ChildRecord,
         KwinRecord, PipeRecord, Processes, Writers, Rows, Answers, NoRows, Ended
<1>. QED  BY <1>4, <1>5, <1>6, <1>7, <1>8 DEF IInv

LEMMA KwinClosesKeeps ==
    ASSUME IInv, KwinCloses
    PROVE  IInv'
<1>1. kwin' \in KwinRecord
  BY RowsOK DEF KwinCloses, IInv, Typed, KwinRecord
<1>2. pipe' \in PipeRecord
  BY RowsOK DEF KwinCloses, IInv, Typed, PipeRecord
<1>3. UNCHANGED <<auth, worker, child, authorized, expired>>
  BY DEF KwinCloses
<1>4. Typed'
  BY <1>1, <1>2, <1>3 DEF IInv, Typed
<1>5. Processes'
  BY <1>4, RowsOK DEF KwinCloses, IInv, Typed, AuthRecord, WorkerRecord, ChildRecord,
         KwinRecord, PipeRecord, Processes, NoRows, Ended
<1>6. Writers'
  BY <1>4, RowsOK DEF KwinCloses, IInv, Typed, AuthRecord, WorkerRecord, ChildRecord,
         KwinRecord, PipeRecord, Processes, Writers, NoRows, Ended
<1>7. Rows'
  BY <1>4, RowsOK DEF KwinCloses, IInv, Typed, AuthRecord, WorkerRecord, ChildRecord,
         KwinRecord, PipeRecord, Processes, Writers, Rows, NoRows, Ended
<1>8. Answers'
  BY <1>4, RowsOK DEF KwinCloses, IInv, Typed, AuthRecord, WorkerRecord, ChildRecord,
         KwinRecord, PipeRecord, Processes, Writers, Rows, Answers, NoRows, Ended
<1>. QED  BY <1>4, <1>5, <1>6, <1>7, <1>8 DEF IInv

LEMMA KwinRestartsKeeps ==
    ASSUME IInv, KwinRestarts
    PROVE  IInv'
<1>1. PICK n \in Nat : n = kwin.id + 1
  BY DEF IInv, Typed, KwinRecord
<1>2. CASE kwin' = [kwin EXCEPT !.id = n, !.pc = "idle"]
  <2>1. kwin' \in KwinRecord
    BY <1>2, RowsOK DEF KwinRestarts, IInv, Typed, KwinRecord
  <2>2. pipe' \in PipeRecord
    BY <1>2, RowsOK DEF KwinRestarts, IInv, Typed, PipeRecord
  <2>3. UNCHANGED <<auth, worker, child, authorized, expired>>
    BY <1>2 DEF KwinRestarts
  <2>4. Typed'
    BY <2>1, <2>2, <2>3 DEF IInv, Typed
  <2>5. Processes'
    BY <1>2, <2>4, RowsOK DEF KwinRestarts, IInv, Typed, AuthRecord, WorkerRecord,
           ChildRecord, KwinRecord, PipeRecord, Processes, NoRows, Ended
  <2>6. Writers'
    BY <1>2, <2>4, RowsOK DEF KwinRestarts, IInv, Typed, AuthRecord, WorkerRecord,
           ChildRecord, KwinRecord, PipeRecord, Processes, Writers, NoRows, Ended
  <2>7. Rows'
    BY <1>2, <2>4, RowsOK DEF KwinRestarts, IInv, Typed, AuthRecord, WorkerRecord,
           ChildRecord, KwinRecord, PipeRecord, Processes, Writers, Rows, NoRows, Ended
  <2>8. Answers'
    BY <1>2, <2>4, RowsOK DEF KwinRestarts, IInv, Typed, AuthRecord, WorkerRecord,
           ChildRecord, KwinRecord, PipeRecord, Processes, Writers, Rows, Answers,
           NoRows, Ended
  <2>. QED  BY <2>4, <2>5, <2>6, <2>7, <2>8 DEF IInv
<1>. QED  BY <1>2, <1>1 DEF KwinRestarts

LEMMA WithdrawnKeeps ==
    ASSUME IInv, Withdrawn
    PROVE  IInv'
<1>1. authorized' \in BOOLEAN /\ UNCHANGED <<auth, worker, child, kwin, pipe, expired>>
  BY DEF Withdrawn
<1>2. Typed'
  BY <1>1 DEF IInv, Typed
<1>3. Processes' /\ Writers' /\ Rows' /\ Answers'
  BY <1>1 DEF IInv, Processes, Writers, Rows, Answers, Ended
<1>. QED  BY <1>2, <1>3 DEF IInv

LEMMA ExpiresKeeps ==
    ASSUME IInv, Expires
    PROVE  IInv'
<1>1. expired' \in [worker: BOOLEAN, authority: BOOLEAN]
  BY DEF Expires, IInv, Typed
<1>2. UNCHANGED <<auth, worker, child, kwin, pipe, authorized>>
  BY DEF Expires
<1>3. Typed'
  BY <1>1, <1>2 DEF IInv, Typed
<1>4. Processes'
  BY <1>3, RowsOK DEF Expires, IInv, Typed, AuthRecord, WorkerRecord, ChildRecord,
         KwinRecord, PipeRecord, Processes, NoRows, Ended
<1>5. Writers'
  BY <1>3, RowsOK DEF Expires, IInv, Typed, AuthRecord, WorkerRecord, ChildRecord,
         KwinRecord, PipeRecord, Processes, Writers, NoRows, Ended
<1>6. Rows'
  BY <1>3, RowsOK DEF Expires, IInv, Typed, AuthRecord, WorkerRecord, ChildRecord,
         KwinRecord, PipeRecord, Processes, Writers, Rows, NoRows, Ended
<1>7. Answers'
  BY <1>3, RowsOK DEF Expires, IInv, Typed, AuthRecord, WorkerRecord, ChildRecord,
         KwinRecord, PipeRecord, Processes, Writers, Rows, Answers, NoRows, Ended
<1>. QED  BY <1>3, <1>4, <1>5, <1>6, <1>7 DEF IInv

-----------------------------------------------------------------------------
(* The theorems *)

\* The helper runs while the worker waits for it, or after the worker was
\* killed there; and KWin, while it is asked and once it has answered, is the
\* process the worker trusted.
HelperRecord == [pc: {"none", "starting", "asking", "ended"}, owner: Nat, code: Nat]
HelperRuns ==
    ~Ended(helper) => \/ worker.pc = "trust"
                      \/ /\ worker.pc = "ended" /\ worker.code \in {Killed, Terminated}
                         /\ child.pc = "none"
Asked == kwin.pc = "asked" \/ kwin.rows # NoRows => kwin.asked = worker.trusted
HInv == helper \in HelperRecord /\ HelperRuns /\ Asked

\* Steps that leave the helper, and the worker's choice, alone.
LEMMA HelperStays ==
    ASSUME IInv, HInv, UNCHANGED <<helper, kwin>>, worker'.trusted = worker.trusted,
           \/ Ended(helper)
           \/ UNCHANGED <<worker, child>>
    PROVE  HInv'
<1>1. helper' \in HelperRecord /\ Asked'
  BY DEF HInv, Asked
<1>2. HelperRuns'
  BY DEF HInv, HelperRuns, Ended
<1>. QED  BY <1>1, <1>2 DEF HInv

LEMMA WorkerHelper ==
    ASSUME IInv, HInv, WorkerStep, ~Boot, ~Trust
    PROVE  HInv'
<1>1. worker.pc \notin {"trust", "ended"} \/ helper.pc = "ended"
  BY DEF WorkerStep, BootFails, Fork, RequestRefused, Drain, ReceiveShape, WaitChild,
         Encode, Send, Exit
<1>2. Ended(helper)
  BY <1>1 DEF HInv, HelperRuns, Ended
<1>3. UNCHANGED <<helper, kwin>>
  BY DEF WorkerStep, BootFails, Fork, RequestRefused, Drain, ReceiveShape, WaitChild,
         Encode, Send, Exit
<1>4. CASE BootFails \/ Fork \/ RequestRefused \/ Send \/ Exit
  <2>1. worker'.trusted = worker.trusted
    BY <1>4 DEF BootFails, Fork, RequestRefused, Send, Exit, WorkerGoto, Exited, IInv, Typed,
                WorkerRecord
  <2>. QED  BY <1>2, <1>3, <2>1, HelperStays
<1>5. CASE Drain \/ ReceiveShape \/ WaitChild
  <2>1. worker'.trusted = worker.trusted
    BY <1>5 DEF Drain, ReceiveShape, WaitChild, WorkerGoto, IInv, Typed, WorkerRecord
  <2>. QED  BY <1>2, <1>3, <2>1, HelperStays
<1>6. CASE Encode
  <2>1. worker'.trusted = worker.trusted
    BY <1>6 DEF Encode, WorkerGoto, IInv, Typed, WorkerRecord
  <2>. QED  BY <1>2, <1>3, <2>1, HelperStays
<1>. QED  BY <1>4, <1>5, <1>6 DEF WorkerStep

LEMMA BootHelper ==
    ASSUME IInv, HInv, Boot
    PROVE  HInv'
<1>1. helper' \in HelperRecord
  BY DEF Boot, HInv, HelperRecord
<1>2. worker'.pc = "trust" /\ worker'.trusted = worker.trusted /\ kwin' = kwin
  BY DEF Boot, WorkerGoto, IInv, Typed, WorkerRecord
<1>. QED  BY <1>1, <1>2 DEF HInv, HelperRuns, Asked

\* Nobody has been asked yet when the worker makes its choice.
LEMMA TrustHelper ==
    ASSUME IInv, HInv, Trust
    PROVE  HInv'
<1>1. kwin.pc # "asked" /\ kwin.rows = NoRows /\ UNCHANGED <<kwin, helper>>
  BY DEF Trust, IInv, Processes, Writers
<1>2. Ended(helper')
  BY <1>1 DEF Trust, Ended
<1>. QED  BY <1>1, <1>2 DEF HInv, HelperRuns, Asked

LEMMA HelperMoves ==
    ASSUME HInv, HelperStep, kwin.id \in Nat
    PROVE  HInv'
<1>1. UNCHANGED <<worker, child, kwin>>
  BY DEF HelperStep, HelperStart, HelperAnswers, HelperFails, HelperEnds
<1>2. helper' \in HelperRecord /\ (~Ended(helper') => ~Ended(helper))
  <2>1. CASE HelperStart
    BY <2>1 DEF HelperStart, HInv, HelperRecord, Ended
  <2>2. ASSUME NEW code \in Nat, NEW owner \in Nat, HelperEnds(code, owner)
        PROVE  helper' \in HelperRecord /\ Ended(helper')
    BY <2>2 DEF HelperEnds, HInv, HelperRecord, Ended
  <2>3. HelperStart \/ HelperEnds(1, 0) \/ HelperEnds(0, kwin.id)
    BY DEF HelperStep, HelperAnswers, HelperFails, KwinOwner
  <2>. QED  BY <2>1, <2>2, <2>3
<1>. QED  BY <1>1, <1>2 DEF HInv, HelperRuns, Asked

\* A helper that outlives the worker has no child beside it.
LEMMA DeathHelper ==
    ASSUME IInv, HInv, NEW signal \in {Killed, Terminated}, WorkerDies(signal), ~Ended(worker),
           UNCHANGED <<kwin, helper>>
    PROVE  HInv'
<1>1. /\ worker'.pc = "ended" /\ worker'.code = signal
      /\ worker'.trusted = worker.trusted
  BY DEF WorkerDies, Exited, IInv, Typed, WorkerRecord
<1>2. ~Ended(helper) => child.pc = "none" /\ child' = child
  BY DEF HInv, HelperRuns, IInv, Processes, WorkerDies, WithParent, Ended
<1>. QED  BY <1>1, <1>2 DEF HInv, HelperRuns, Asked, Ended

\* The child and KWin: whoever is asked is the one the worker trusted.
LEMMA ChildHelper ==
    ASSUME IInv, HInv, ChildStep
    PROVE  HInv'
<1>1. child.pc # "none" /\ UNCHANGED <<helper, worker>>
  BY DEF ChildStep, ChildStart, ChildRefuses, AskKwin, KwinReturns, Report
<1>2. Ended(helper)
  BY <1>1 DEF HInv, HelperRuns, IInv, Processes
<1>3. CASE kwin' = kwin
  BY <1>1, <1>2, <1>3, HelperStays
<1>4. CASE kwin' # kwin
  <2>1. KwinOwner = worker.trusted /\ kwin' = [kwin EXCEPT !.pc = "asked", !.asked = KwinOwner]
    BY <1>4 DEF ChildStep, ChildStart, ChildRefuses, AskKwin, KwinReturns, Report
  <2>2. kwin'.asked = worker.trusted
    BY <2>1 DEF IInv, Typed, KwinRecord
  <2>. QED  BY <1>1, <1>2, <2>2 DEF HInv, HelperRuns, Asked, Ended
<1>. QED  BY <1>3, <1>4

LEMMA KwinHelper ==
    ASSUME IInv, HInv, KwinReplies \/ KwinWrites \/ KwinCloses \/ KwinRestarts
    PROVE  HInv'
<1>1. UNCHANGED <<helper, worker, child>>
  BY DEF KwinReplies, KwinWrites, KwinCloses, KwinRestarts
<1>2. /\ kwin'.asked = kwin.asked
      /\ kwin'.pc = "asked" \/ kwin'.rows # NoRows => kwin.pc = "asked" \/ kwin.rows # NoRows
  <2>1. CASE KwinReplies
    BY <2>1 DEF KwinReplies, IInv, Typed, KwinRecord
  <2>2. CASE KwinWrites
    BY <2>2 DEF KwinWrites, IInv, Typed, KwinRecord
  <2>3. CASE KwinCloses
    BY <2>3 DEF KwinCloses, IInv, Typed, KwinRecord
  <2>4. CASE KwinRestarts
    BY <2>4 DEF KwinRestarts, IInv, Typed, KwinRecord
  <2>. QED  BY <2>1, <2>2, <2>3, <2>4
<1>. QED  BY <1>1, <1>2 DEF HInv, HelperRuns, Asked, Ended

LEMMA AuthorityHelper ==
    ASSUME IInv, HInv, AuthorityStep \/ Withdrawn \/ Expires
    PROVE  HInv'
<1>1. CASE Launch
  <2>1. Ended(helper) /\ UNCHANGED <<helper, kwin>> /\ worker'.trusted = worker.trusted
    BY <1>1 DEF Launch, HInv, HelperRuns, IInv, Processes, Typed, WorkerRecord
  <2>. QED  BY <2>1, HelperStays
<1>2. CASE LaunchFails \/ Check \/ PollWorker \/ Withdrawn \/ Expires
  <2>1. UNCHANGED <<helper, kwin, worker, child>>
    BY <1>2 DEF LaunchFails, Check, PollWorker, Withdrawn, Expires
  <2>. QED  BY <2>1, HelperStays
<1>3. CASE Reap
  <2>1. CASE Ended(worker)
    <3>1. UNCHANGED <<helper, kwin, worker, child>>
      BY <1>3, <2>1 DEF Reap
    <3>. QED  BY <3>1, HelperStays
  <2>2. CASE ~Ended(worker)
    <3>1. WorkerDies(Terminated) /\ UNCHANGED <<kwin, helper>>
      BY <1>3, <2>2 DEF Reap
    <3>. QED  BY <2>2, <3>1, DeathHelper
  <2>. QED  BY <2>1, <2>2
<1>. QED  BY <1>1, <1>2, <1>3 DEF AuthorityStep

LEMMA HelperInit == OneShotInit => HInv
<1>. SUFFICES ASSUME OneShotInit
              PROVE  HInv
  OBVIOUS
<1>1. helper \in HelperRecord /\ Ended(helper) /\ kwin.pc = "idle" /\ kwin.rows = NoRows
  BY DEF OneShotInit, HelperRecord, Ended, NoRows
<1>. QED  BY <1>1 DEF HInv, HelperRuns, Asked

LEMMA HelperInductive == IInv /\ HInv /\ [Next]_vars => HInv'
<1>. SUFFICES ASSUME IInv, HInv, [Next]_vars
              PROVE  HInv'
  OBVIOUS
<1>1. CASE UNCHANGED oneShotVars
  BY <1>1, HelperStays DEF oneShotVars
<1>2. CASE AuthorityStep \/ Withdrawn \/ Expires
  BY <1>2, AuthorityHelper
<1>3. CASE WorkerStep
  BY <1>3, WorkerHelper, BootHelper, TrustHelper
<1>4. CASE ChildStep \/ HelperStep
  <2>1. kwin.id \in Nat
    BY DEF IInv, Typed, KwinRecord
  <2>. QED  BY <1>4, <2>1, ChildHelper, HelperMoves
<1>5. CASE WorkerKilled
  BY <1>5, DeathHelper DEF WorkerKilled
<1>6. CASE KwinReplies \/ KwinWrites \/ KwinCloses \/ KwinRestarts
  BY <1>6, KwinHelper
<1>7. UNCHANGED vars => UNCHANGED oneShotVars
  BY DEF vars
<1>8. Next => OneShotNext \/ UNCHANGED oneShotVars
  BY DEF Next, OneShot, Persistent
<1>. QED  BY <1>1, <1>2, <1>3, <1>4, <1>5, <1>6, <1>7, <1>8 DEF OneShotNext

LEMMA InitInductive == OneShotInit => IInv
<1>. SUFFICES ASSUME OneShotInit
              PROVE  IInv
  OBVIOUS
<1>1. auth \in AuthRecord /\ auth.pc = "launch" /\ auth.status # "OK"
  BY DEF OneShotInit, AuthRecord, Statuses, NoRows
<1>2. /\ worker \in WorkerRecord /\ worker.pc = "none" /\ worker.status # "OK"
      /\ worker.spool = 0 /\ ~worker.drained
  BY DEF OneShotInit, WorkerRecord, Statuses, NoRows
<1>3. /\ child \in ChildRecord /\ child.pc = "none" /\ child.status # "OK"
      /\ ~child.exposed
  BY DEF OneShotInit, ChildRecord, Statuses, NoRows
<1>4. /\ kwin \in KwinRecord /\ kwin.pc = "idle" /\ kwin.wrote = 0 /\ kwin.rows = NoRows
  BY DEF OneShotInit, KwinRecord, NoRows
<1>5. pipe \in PipeRecord /\ pipe.rows = 0
  BY DEF OneShotInit, PipeRecord
<1>6. Typed
  BY <1>1, <1>2, <1>3, <1>4, <1>5 DEF OneShotInit, Typed
<1>7. Processes /\ Writers /\ Rows /\ Answers
  BY <1>1, <1>2, <1>3, <1>4, <1>5 DEF Processes, Writers, Rows, Answers
<1>. QED  BY <1>6, <1>7 DEF IInv

LEMMA StepInductive == IInv /\ HInv /\ [Next]_vars => IInv'
<1>. SUFFICES ASSUME IInv, HInv, [Next]_vars
              PROVE  IInv'
  OBVIOUS
<1>1. CASE UNCHANGED oneShotVars
  BY <1>1 DEF oneShotVars, IInv, Typed, Processes, Writers, Rows, Answers, Ended
<1>2. CASE AuthorityStep
  BY <1>2, LaunchKeeps, LaunchFailsKeeps, CheckKeeps, PollWorkerKeeps, ReapKeeps
     DEF AuthorityStep
<1>3. CASE WorkerStep
  <2>1. helper.owner \in Nat
    BY DEF HInv, HelperRecord
  <2>. QED
    BY <1>3, <2>1, BootKeeps, TrustKeeps, BootFailsKeeps, ForkKeeps, RequestRefusedKeeps,
       DrainKeeps, ReceiveShapeKeeps, WaitChildKeeps, EncodeKeeps, SendKeeps, ExitKeeps
       DEF WorkerStep
<1>4. CASE ChildStep
  BY <1>4, ChildStartKeeps, ChildRefusesKeeps, AskKwinKeeps, KwinReturnsKeeps, ReportKeeps
     DEF ChildStep
<1>5. CASE HelperStep \/ WorkerKilled \/ KwinReplies \/ KwinWrites \/ KwinCloses \/ KwinRestarts
           \/ Withdrawn \/ Expires
  BY <1>5, HelperKeeps, WorkerKilledKeeps, KwinRepliesKeeps, KwinWritesKeeps, KwinClosesKeeps,
     KwinRestartsKeeps, WithdrawnKeeps, ExpiresKeeps
<1>6. UNCHANGED vars => UNCHANGED oneShotVars
  BY DEF vars
<1>7. Next => OneShotNext \/ UNCHANGED oneShotVars
  BY DEF Next, OneShot, Persistent
<1>. QED  BY <1>1, <1>2, <1>3, <1>4, <1>5, <1>6, <1>7 DEF OneShotNext

\* However the authority's thread, the worker, its child and KWin interleave,
\* whoever is killed, withdrawn or restarted and whatever comes too late, the
\* processes, the pipe's ends, the rows and the answers stay related as
\* ksd_local_capture_execute (src/src/local_capture.c) relies on.
THEOREM InductiveCorrect == FairSpec => [](IInv /\ HInv)
<1>1. Init => IInv /\ HInv
  BY InitInductive, HelperInit DEF Init
<1>. QED  BY <1>1, StepInductive, HelperInductive, PTL DEF FairSpec

\* For pictures of any size: a capture the authority answers with OK has the
\* rows KWin announced, exactly those it wrote, KWin has closed the pipe (the
\* drain to end of file and the comparison of sizes in
\* ksd_local_capture_execute), and it is the KWin that
\* resolve_trusted_kwin_pid found while the worker was still root.
THEOREM WholeCorrect == FairSpec => []CaptureIsWhole
<1>1. IInv /\ HInv => CaptureIsWhole
  BY DEF IInv, HInv, Asked, Writers, Rows, Answers, CaptureIsWhole
<1>. QED  BY <1>1, InductiveCorrect, PTL

\* When ksd_capture_worker_execute returns, the worker has ended and no child
\* of it talks to KWin or is exposed to it, also when the worker was killed
\* between fork and the child's prctl(PR_SET_PDEATHSIG).  What may still run
\* is the helper of resolve_trusted_kwin_pid, only if the worker was killed
\* while it waited for it, and then there never was a child.
THEOREM NothingLeftCorrect == FairSpec => []NothingOutlivesCapture
<1>1. IInv /\ HInv => NothingOutlivesCapture
  <2>. SUFFICES ASSUME IInv, HInv, auth.pc = "done"
                PROVE  NothingOutlivesCapture
    BY DEF NothingOutlivesCapture
  <2>1. Ended(worker) /\ child.pc \in {"none", "starting", "ended"} /\ ~child.exposed
    BY DEF IInv, Processes
  <2>2. ~Ended(helper) => worker.code \in {Killed, Terminated} /\ child.pc = "none"
    BY <2>1 DEF HInv, HelperRuns, Ended
  <2>3. child.pc = "none" => auth.status # "OK"
    BY DEF IInv, Writers, Answers
  <2>. QED  BY <2>1, <2>2, <2>3 DEF NothingOutlivesCapture
<1>. QED  BY <1>1, InductiveCorrect, PTL
-----------------------------------------------------------------------------
(* The worker that stays: its invariant. *)

ServeStages ==
    {"read", "open", "execute", "answer", "query", "watch", "outputs", "attach",
     "sync", "core", "seal", "portal", "call", "reply", "wait", "file", "ended"}
ServeStatuses == Statuses \cup {"UNSUPPORTED", "CANCELLED", "RESOURCE_EXHAUSTED", "INTERNAL"}

\* What the outputs of the scenes are captured to.
Pieces == UNION {{SegmentOf(i, s) : i \in DOMAIN s.outputs} : s \in Scenes}

ServeRecord ==
    [backend: {"X11", "GENERIC"}, pc: ServeStages, op: Operations \cup {None},
     status: ServeStatuses \cup {None}, conn: {"none", "live", "dead"},
     broken: BOOLEAN, clean: BOOLEAN, scene: Scenes \cup {None}, next: Nat,
     segments: Seq(Pieces), which: Seq(Nat), image: BOOLEAN]
DisplayRecord == [up: BOOLEAN, deaths: Nat, mapped: BOOLEAN, detaching: BOOLEAN]
PortalRecord ==
    [request: {"none", "open", "over", "closed"}, response: {None, 0, 1, 2},
     listening: BOOLEAN, heard: BOOLEAN, replied: BOOLEAN, timer: BOOLEAN]

DisplayTyped ==
    /\ request \in Operations \cup {None} /\ serve \in ServeRecord
    /\ display \in DisplayRecord /\ portal \in PortalRecord

\* A request that nothing stood in the way of has a live connection by the time
\* it uses one: a connection that failed was dropped with the answer before.
Connected ==
    /\ serve.pc = "read" => ~serve.broken
    /\ serve.pc \in {"open", "execute"} => serve.op \in Operations
    /\ serve.pc \in {"open", "execute"} /\ serve.clean => Valid(serve.op)
    /\ serve.pc = "open" /\ serve.clean => display.up
    /\ serve.pc = "execute" /\ serve.clean /\ serve.op # "desktop" => serve.conn = "live"
    /\ serve.pc \in {"query", "outputs", "attach", "sync", "core", "seal"} /\ serve.clean
         => serve.conn = "live"

\* An area that is covered leaves a segment of every output it has passed.
AreaTaken ==
    /\ serve.pc \in {"read", "open", "execute"} => serve.next = 1
    /\ serve.pc \in {"open", "execute"} /\ serve.op = "area" /\ serve.backend = "GENERIC"
         => serve.scene \in Scenes /\ (serve.clean => Covered(serve.scene))
    /\ serve.pc = "outputs" =>
         /\ serve.scene \in Scenes /\ (serve.clean => Covered(serve.scene))
         /\ serve.next > 0
         /\ \A i \in DOMAIN serve.scene.outputs :
              i < serve.next /\ Intersects(serve.scene.outputs[i], serve.scene.area)
                => serve.segments # <<>>

\* The X server has a segment mapped no longer than it has to detach from it.
SegmentReleased ==
    /\ display.mapped <=> display.detaching
    /\ serve.pc \in {"core", "seal"} /\ serve.clean => ~display.mapped

\* Whoever waits for the portal listened before the request existed.
PortalHeard ==
    /\ portal.heard => portal.request = "over"
    /\ serve.pc = "call" => portal = [NoPortal EXCEPT !.listening = TRUE]
    /\ serve.pc \in {"reply", "wait"} =>
         /\ portal.listening
         /\ portal.response # None => portal.heard
         /\ serve.clean /\ portal.heard => portal.response = 0
    /\ serve.pc = "reply" => ~portal.replied /\ ~portal.timer
    /\ serve.pc = "wait" /\ serve.clean /\ portal.timer => portal.heard
    /\ portal.replied /\ serve.pc \notin {"wait", "ended"} => portal.request # "open"

Answered == serve.pc = "answer" /\ serve.clean => serve.status = "OK"

DisplayInv ==
    DisplayTyped /\ Connected /\ AreaTaken /\ SegmentReleased /\ PortalHeard /\ Answered
-----------------------------------------------------------------------------
(* The worker that stays: its steps. *)

\* What DisplayConstants says of a scene.
LEMMA SceneTyped ==
    ASSUME NEW s \in Scenes
    PROVE  /\ s.area \in Areas /\ s.outputs \in Seq(Outputs)
           /\ s.screencopy \in BOOLEAN /\ s.frames \in Seq(Frames)
           /\ DOMAIN s.outputs = 1 .. Len(s.outputs) /\ Len(s.outputs) \in Nat
           /\ Len(s.frames) = Len(s.outputs)
<1>1. /\ s \in [area: Areas, outputs: Seq(Outputs), screencopy: BOOLEAN, frames: Seq(Frames)]
      /\ Len(s.frames) = Len(s.outputs)
  BY DisplayConstants
<1>2. /\ s.area \in Areas /\ s.outputs \in Seq(Outputs)
      /\ s.screencopy \in BOOLEAN /\ s.frames \in Seq(Frames)
  BY <1>1
<1> QED BY <1>1, <1>2

\* A result can be anything but OK for a request that something stood in the
\* way of, and only OK for another.
LEMMA GoAnswer ==
    ASSUME DisplayInv, serve.pc \notin {"wait", "ended"},
           serve' \in ServeRecord, serve'.pc = "answer",
           serve'.clean => serve'.status = "OK", UNCHANGED <<request, display, portal>>
    PROVE  DisplayInv'
BY DEF DisplayInv, DisplayTyped, Connected, AreaTaken, SegmentReleased, PortalHeard,
       Answered

LEMMA ResultType ==
    ASSUME DisplayInv, NEW s \in ServeStatuses
    PROVE  /\ Result(s) \in ServeRecord /\ Result(s).pc = "answer"
           /\ Result(s).clean = serve.clean /\ Result(s).status = s
           /\ \A c \in BOOLEAN : /\ [Result(s) EXCEPT !.clean = c] \in ServeRecord
                                 /\ [Result(s) EXCEPT !.clean = c].pc = "answer"
                                 /\ [Result(s) EXCEPT !.clean = c].clean = c
<1>1. serve \in ServeRecord
  BY DEF DisplayInv, DisplayTyped
<1>2. PICK b \in BOOLEAN : b = (serve.broken \/ serve.conn = "dead")
  OBVIOUS
<1>3. Result(s) = [serve EXCEPT !.pc = "answer", !.status = s, !.broken = b]
  BY <1>1, <1>2 DEF Result, ServeRecord
<1>4. Result(s) \in ServeRecord /\ Result(s).pc = "answer"
      /\ Result(s).clean = serve.clean /\ Result(s).status = s
  BY <1>1, <1>3 DEF ServeRecord, ServeStages
<1>5. ASSUME NEW c \in BOOLEAN
      PROVE  /\ [Result(s) EXCEPT !.clean = c] \in ServeRecord
             /\ [Result(s) EXCEPT !.clean = c].pc = "answer"
             /\ [Result(s) EXCEPT !.clean = c].clean = c
  BY <1>4 DEF ServeRecord
<1> QED BY <1>4, <1>5

LEMMA FinishedType ==
    ASSUME DisplayInv
    PROVE  /\ Finished \in ServeRecord /\ Finished.pc \in {"read", "ended"}
           /\ Finished.next = 1 /\ Finished.clean = FALSE
           /\ Finished.conn = serve.conn /\ Finished.broken = serve.broken
           /\ Gone \in ServeRecord /\ Gone.pc = "ended" /\ Gone.clean = FALSE
<1>1. serve \in ServeRecord
  BY DEF DisplayInv, DisplayTyped
<1>2. <<>> \in Seq(Pieces) /\ <<>> \in Seq(Nat)
  OBVIOUS
<1>3. PICK s \in Seq(Pieces), n \in Seq(Nat) : s = <<>> /\ n = <<>>
  BY <1>2, Zenon
<1>4. PICK p \in {"read", "ended"} : p = IF hangup THEN "ended" ELSE "read"
  OBVIOUS
<1>5. Finished = [serve EXCEPT !.pc = p, !.op = None, !.status = None, !.clean = FALSE,
                     !.scene = None, !.next = 1, !.segments = s, !.which = n,
                     !.image = FALSE]
  BY <1>3, <1>4 DEF Finished
<1>6. /\ Finished \in ServeRecord /\ Finished.pc \in {"read", "ended"}
      /\ Finished.next = 1 /\ Finished.clean = FALSE
      /\ Finished.conn = serve.conn /\ Finished.broken = serve.broken
  BY <1>1, <1>5 DEF ServeRecord, ServeStages
<1>7. Gone \in ServeRecord /\ Gone.pc = "ended" /\ Gone.clean = FALSE
  BY <1>6 DEF Gone, ServeRecord, ServeStages
<1> QED BY <1>6, <1>7

\* A process that is gone promises nothing.
LEMMA GoneInv ==
    ASSUME DisplayInv, serve' = Gone, UNCHANGED <<display, portal>>,
           request' \in Operations \cup {None}
    PROVE  DisplayInv'
<1>1. serve' \in ServeRecord /\ serve'.pc = "ended"
  BY FinishedType
<1> QED BY <1>1 DEF DisplayInv, DisplayTyped, Connected, AreaTaken, SegmentReleased,
        PortalHeard, Answered

LEMMA ReadRequestInv ==
    ASSUME DisplayInv, ReadRequest
    PROVE  DisplayInv'
<1>1. /\ serve \in ServeRecord /\ request \in Operations /\ serve.pc = "read"
      /\ request' = None /\ UNCHANGED <<display, portal>>
  BY DEF DisplayInv, DisplayTyped, ReadRequest
<1>2. CASE serve' = Gone
  BY <1>1, <1>2, GoneInv
<1>3. CASE serve' # Gone
  <2>1. PICK scene \in ScenesOf(request) :
          serve' = [serve EXCEPT !.pc = IF serve.conn = "none" THEN "open" ELSE "execute",
                                 !.op = request, !.status = "INTERNAL",
                                 !.scene = scene, !.clean = Promising(request, scene)]
    BY <1>3 DEF ReadRequest
  <2>2. PICK p \in {"open", "execute"} : p = IF serve.conn = "none" THEN "open" ELSE "execute"
    OBVIOUS
  <2>3. PICK c \in BOOLEAN : c = Promising(request, scene)
    BY DEF Promising
  <2>4. scene \in Scenes \cup {None}
    BY <2>1 DEF ScenesOf
  <2>5. serve' = [serve EXCEPT !.pc = p, !.op = request, !.status = "INTERNAL",
                               !.scene = scene, !.clean = c]
    BY <2>1, <2>2, <2>3
  <2>6. /\ serve' \in ServeRecord /\ serve'.pc = p /\ serve'.op = request
        /\ serve'.scene = scene /\ serve'.clean = c /\ serve'.conn = serve.conn
        /\ serve'.backend = serve.backend /\ serve'.next = serve.next
    BY <1>1, <2>4, <2>5 DEF ServeRecord, ServeStages, ServeStatuses
  <2>7. request # "area" \/ serve.backend # "GENERIC" \/ scene \in Scenes
    BY <2>1 DEF ScenesOf
  <2>8. c => /\ Valid(request)
             /\ p = "open" => display.up
             /\ p = "execute" /\ request # "desktop" => serve.conn = "live"
             /\ request = "area" /\ serve.backend = "GENERIC" => Covered(scene)
    BY <1>1, <2>2, <2>3 DEF Promising, DisplayInv, Connected, ServeRecord
  <2>9. Connected'
    BY <1>1, <2>6, <2>8 DEF Connected, Valid
  <2>10. AreaTaken'
    BY <1>1, <2>6, <2>7, <2>8 DEF AreaTaken, DisplayInv
  <2>11. SegmentReleased' /\ PortalHeard' /\ Answered'
    BY <1>1, <2>6 DEF DisplayInv, SegmentReleased, PortalHeard, Answered
  <2> QED BY <1>1, <2>6, <2>9, <2>10, <2>11 DEF DisplayInv, DisplayTyped
<1> QED BY <1>2, <1>3

\* The connection and the request as they were, on the way to another stage.
LEMMA OpenInv ==
    ASSUME DisplayInv, Open
    PROVE  DisplayInv'
<1>1. serve \in ServeRecord /\ serve.pc = "open" /\ UNCHANGED <<request, display, portal>>
  BY DEF DisplayInv, DisplayTyped, Open
<1>2. CASE display.up
  <2>1. serve' = [serve EXCEPT !.conn = "live", !.pc = "execute"]
    BY <1>2 DEF Open
  <2>2. /\ serve' \in ServeRecord /\ serve'.pc = "execute" /\ serve'.conn = "live"
        /\ serve'.op = serve.op /\ serve'.clean = serve.clean
        /\ serve'.scene = serve.scene /\ serve'.backend = serve.backend
        /\ serve'.next = serve.next
    BY <1>1, <2>1 DEF ServeRecord, ServeStages
  <2>3. Connected' /\ AreaTaken'
    BY <1>1, <2>2 DEF DisplayInv, Connected, AreaTaken, Valid
  <2>4. SegmentReleased' /\ PortalHeard' /\ Answered'
    BY <1>1, <2>2 DEF DisplayInv, SegmentReleased, PortalHeard, Answered
  <2> QED BY <1>1, <2>2, <2>3, <2>4 DEF DisplayInv, DisplayTyped
<1>3. CASE ~display.up
  <2>1. serve' = [serve EXCEPT !.status = "UNAVAILABLE", !.pc = "answer"]
    BY <1>3 DEF Open
  <2>2. serve' \in ServeRecord /\ serve'.pc = "answer" /\ serve'.clean = serve.clean
    BY <1>1, <2>1 DEF ServeRecord, ServeStages, ServeStatuses, Statuses
  <2>3. ~serve.clean
    BY <1>1, <1>3 DEF DisplayInv, Connected
  <2> QED BY <1>1, <2>2, <2>3, GoAnswer
<1> QED BY <1>2, <1>3

LEMMA ExecuteInv ==
    ASSUME DisplayInv, Execute
    PROVE  DisplayInv'
<1>1. /\ serve \in ServeRecord /\ serve.pc = "execute"
      /\ UNCHANGED <<request, display, portal>>
  BY DEF DisplayInv, DisplayTyped, Execute
<1>2. CASE ~Valid(serve.op)
  <2>1. serve' = [serve EXCEPT !.pc = "answer", !.status = "INVALID_REQUEST"]
    BY <1>2 DEF Execute, Valid
  <2>2. serve' \in ServeRecord /\ serve'.pc = "answer" /\ serve'.clean = serve.clean
    BY <1>1, <2>1 DEF ServeRecord, ServeStages, ServeStatuses, Statuses
  <2>3. ~serve.clean
    BY <1>1, <1>2 DEF DisplayInv, Connected
  <2> QED BY <1>1, <2>2, <2>3, GoAnswer
<1>3. CASE Valid(serve.op) /\ serve.op \in Operations
  <2>1. serve.op \in {"watch", "query", "desktop", "area"}
    BY <1>3, DisplayConstants
  <2>2. PICK p \in {"watch", "query", "portal", "attach", "outputs"} :
           /\ serve' = [serve EXCEPT !.pc = p]
           /\ p \in {"query", "outputs", "attach"} => serve.op # "desktop"
           /\ p = "outputs" => serve.op = "area" /\ serve.backend # "X11"
    BY <1>3, <2>1 DEF Execute
  <2>3. /\ serve' \in ServeRecord /\ serve'.pc = p /\ serve'.conn = serve.conn
        /\ serve'.op = serve.op /\ serve'.clean = serve.clean
        /\ serve'.scene = serve.scene /\ serve'.backend = serve.backend
        /\ serve'.next = serve.next /\ serve'.segments = serve.segments
    BY <1>1, <2>2 DEF ServeRecord, ServeStages
  <2>4. Connected'
    BY <1>1, <2>2, <2>3 DEF DisplayInv, Connected, Valid
  <2>5. AreaTaken'
    <3>1. p = "outputs" => /\ serve.scene \in Scenes /\ serve.next = 1
                           /\ serve.clean => Covered(serve.scene)
      BY <1>1, <2>2 DEF DisplayInv, AreaTaken, ServeRecord
    <3>2. ASSUME p = "outputs", NEW i \in DOMAIN serve.scene.outputs
          PROVE  ~(i < serve.next)
      <4>1. i \in 1 .. Len(serve.scene.outputs) /\ Len(serve.scene.outputs) \in Nat
        BY <3>1, <3>2, SceneTyped
      <4> QED BY <3>1, <3>2, <4>1
    <3> QED BY <2>2, <2>3, <3>1, <3>2 DEF AreaTaken
  <2>6. SegmentReleased' /\ PortalHeard' /\ Answered'
    BY <1>1, <2>2, <2>3 DEF DisplayInv, SegmentReleased, PortalHeard, Answered
  <2> QED BY <1>1, <2>3, <2>4, <2>5, <2>6 DEF DisplayInv, DisplayTyped
<1> QED BY <1>2, <1>3, <1>1 DEF DisplayInv, Connected

LEMMA QueryInv ==
    ASSUME DisplayInv, Query
    PROVE  DisplayInv'
<1>1. /\ serve.pc = "query" /\ UNCHANGED <<request, display, portal>>
      /\ serve.clean => serve.conn = "live"
  BY DEF DisplayInv, Connected, Query
<1>2. CASE serve' = Result("OK")
  <2>1. "OK" \in ServeStatuses
    BY DEF ServeStatuses, Statuses
  <2> QED BY <1>1, <1>2, <2>1, ResultType, GoAnswer
<1>3. ASSUME NEW s \in {"UNAVAILABLE", "TIMEOUT"},
             serve' = [Result(s) EXCEPT !.clean = @ /\ serve.conn = "dead"]
      PROVE  DisplayInv'
  <2>1. s \in ServeStatuses
    BY <1>3 DEF ServeStatuses, Statuses
  <2>2. PICK c \in BOOLEAN : c = (serve.clean /\ serve.conn = "dead")
    OBVIOUS
  <2>3. serve' = [Result(s) EXCEPT !.clean = c]
    BY <1>3, <2>1, <2>2, ResultType
  <2>4. c = FALSE
    BY <1>1, <2>2
  <2> QED BY <1>1, <2>1, <2>3, <2>4, ResultType, GoAnswer
<1> QED BY <1>2, <1>3 DEF Query

LEMMA AnswerInv ==
    ASSUME DisplayInv, Answer
    PROVE  DisplayInv'
<1>1. serve \in ServeRecord /\ serve.pc = "answer" /\ UNCHANGED <<request, display, portal>>
  BY DEF DisplayInv, DisplayTyped, Answer
<1>2. PICK k \in {"none", "live", "dead"} : k = IF serve.broken THEN "none" ELSE serve.conn
  BY <1>1 DEF ServeRecord
<1>3. serve' = [Finished EXCEPT !.conn = k, !.broken = FALSE]
  BY <1>2, FinishedType DEF Answer
<1>4. /\ serve' \in ServeRecord /\ serve'.pc \in {"read", "ended"} /\ serve'.next = 1
      /\ serve'.broken = FALSE
  BY <1>3, FinishedType DEF ServeRecord
<1> QED BY <1>1, <1>4 DEF DisplayInv, DisplayTyped, Connected, AreaTaken, SegmentReleased,
        PortalHeard, Answered
\* The output that the loop stands on.
LEMMA OutputFacts ==
    ASSUME DisplayInv, OutputLeft
    PROVE  /\ serve \in ServeRecord /\ serve.scene \in Scenes
           /\ serve.next \in DOMAIN serve.scene.outputs
           /\ DOMAIN serve.scene.outputs = 1 .. Len(serve.scene.outputs)
           /\ Len(serve.scene.outputs) \in Nat
           /\ serve.next \in Nat /\ serve.next > 0
           /\ Segment \in Pieces
<1>1. /\ serve \in ServeRecord /\ serve.scene \in Scenes /\ serve.next \in Nat
      /\ serve.next \in DOMAIN serve.scene.outputs /\ serve.next > 0
  BY DEF DisplayInv, DisplayTyped, AreaTaken, ServeRecord, OutputLeft, Scene
<1>2. Segment = SegmentOf(serve.next, serve.scene)
  BY DEF Segment, Scene
<1>3. Segment \in Pieces
  BY <1>1, <1>2 DEF Pieces
<1> QED BY <1>1, <1>3, SceneTyped

\* The step to the next output, with or without a segment of this one.
LEMMA NextOutput ==
    ASSUME DisplayInv, OutputLeft, UNCHANGED <<request, display, portal>>,
           serve' \in ServeRecord, serve'.pc = "outputs", serve'.next = serve.next + 1,
           serve'.scene = serve.scene, serve'.conn = serve.conn,
           serve'.clean => serve.clean,
           \/ serve'.segments # <<>>
           \/ /\ serve'.segments = serve.segments
              /\ ~Intersects(serve.scene.outputs[serve.next], serve.scene.area)
    PROVE  DisplayInv'
<1>1. /\ serve.scene \in Scenes /\ serve.next \in Nat /\ serve.next > 0
      /\ DOMAIN serve.scene.outputs = 1 .. Len(serve.scene.outputs)
      /\ Len(serve.scene.outputs) \in Nat
  BY OutputFacts
<1>2. serve.pc = "outputs"
  BY DEF OutputLeft
<1>3. Connected' /\ SegmentReleased' /\ PortalHeard' /\ Answered'
  BY <1>2 DEF DisplayInv, Connected, SegmentReleased, PortalHeard, Answered
<1>4. ASSUME NEW i \in DOMAIN serve.scene.outputs, i < serve'.next,
             Intersects(serve.scene.outputs[i], serve.scene.area)
      PROVE  serve'.segments # <<>>
  <2>1. i < serve.next \/ i = serve.next
    BY <1>1, <1>4
  <2> QED BY <2>1, <1>2, <1>4 DEF DisplayInv, AreaTaken
<1>5. AreaTaken'
  BY <1>1, <1>2, <1>4 DEF DisplayInv, AreaTaken
<1> QED BY <1>3, <1>5 DEF DisplayInv, DisplayTyped

LEMMA SkipOutputInv ==
    ASSUME DisplayInv, SkipOutput
    PROVE  DisplayInv'
<1>1. /\ OutputLeft /\ UNCHANGED <<request, display, portal>>
      /\ ~Intersects(serve.scene.outputs[serve.next], serve.scene.area)
  BY DEF SkipOutput, Current, Scene
<1>2. serve \in ServeRecord /\ serve.pc = "outputs" /\ serve.next \in Nat
  BY <1>1, OutputFacts DEF OutputLeft
<1>3. PICK n \in Nat : n = serve.next + 1
  BY <1>2
<1>4. serve' = [serve EXCEPT !.next = n]
  BY <1>3 DEF SkipOutput
<1>5. /\ serve' \in ServeRecord /\ serve'.pc = "outputs" /\ serve'.next = serve.next + 1
      /\ serve'.scene = serve.scene /\ serve'.conn = serve.conn
      /\ serve'.clean = serve.clean /\ serve'.segments = serve.segments
  BY <1>2, <1>3, <1>4 DEF ServeRecord
<1> QED BY <1>1, <1>5, NextOutput

\* An output taken.
LEMMA TakenFacts ==
    ASSUME DisplayInv, OutputLeft
    PROVE  /\ Taken \in ServeRecord /\ Taken.pc = "outputs"
           /\ Taken.next = serve.next + 1 /\ Taken.scene = serve.scene
           /\ Taken.conn = serve.conn /\ Taken.clean = serve.clean
           /\ Taken.segments # <<>>
<1>1. /\ serve \in ServeRecord /\ serve.pc = "outputs" /\ serve.next \in Nat
      /\ Segment \in Pieces /\ serve.segments \in Seq(Pieces) /\ serve.which \in Seq(Nat)
  BY OutputFacts DEF OutputLeft, ServeRecord
<1>2. PICK n \in Nat : n = serve.next + 1
  BY <1>1
<1>3. /\ Append(serve.segments, Segment) \in Seq(Pieces)
      /\ Append(serve.segments, Segment) # <<>>
  BY <1>1
<1>4. Append(serve.which, serve.next) \in Seq(Nat)
  BY <1>1
<1>5. PICK s \in Seq(Pieces), v \in Seq(Nat) :
         s = Append(serve.segments, Segment) /\ v = Append(serve.which, serve.next)
  BY <1>3, <1>4, Zenon
<1>6. Taken = [serve EXCEPT !.next = n, !.segments = s, !.which = v]
  BY <1>2, <1>5 DEF Taken
<1>7. s # <<>>
  BY <1>3, <1>5
<1> QED BY <1>1, <1>2, <1>6, <1>7 DEF ServeRecord

\* A covered area has pixels on the output that it touches.
LEMMA CoveredHasPixels ==
    ASSUME DisplayInv, OutputLeft, Intersects(Current, Scene.area), serve.clean
    PROVE  HasPixels(Segment)
<1>1. Covered(serve.scene) /\ serve.next \in DOMAIN serve.scene.outputs
  BY OutputFacts DEF OutputLeft, DisplayInv, AreaTaken
<1>2. Intersects(serve.scene.outputs[serve.next], serve.scene.area)
  BY DEF Current, Scene
<1> QED BY <1>1, <1>2 DEF Covered, Segment, Current, Scene

LEMMA CaptureOutputInv ==
    ASSUME DisplayInv, CaptureOutput
    PROVE  DisplayInv'
<1>1. /\ OutputLeft /\ UNCHANGED <<request, display, portal>>
      /\ Intersects(Current, Scene.area)
  BY DEF CaptureOutput
<1>2. serve.pc = "outputs" /\ (serve.clean => serve.conn = "live")
  BY <1>1 DEF OutputLeft, DisplayInv, Connected
<1>3. "UNAVAILABLE" \in ServeStatuses
  BY DEF ServeStatuses, Statuses
<1>4. CASE serve' = Taken
  BY <1>1, <1>4, TakenFacts, NextOutput
<1>5. CASE serve' = Result("UNAVAILABLE") /\ (serve.conn = "dead" \/ ~HasPixels(Segment))
  <2>1. ~serve.clean
    BY <1>1, <1>2, <1>5, CoveredHasPixels
  <2> QED BY <1>1, <1>2, <1>3, <1>5, <2>1, ResultType, GoAnswer
<1>6. ASSUME NEW s \in {"UNAVAILABLE", "TIMEOUT", "CANCELLED", "RESOURCE_EXHAUSTED"},
             serve' = [Result(s) EXCEPT !.clean = FALSE]
      PROVE  DisplayInv'
  <2>1. s \in ServeStatuses
    BY <1>6 DEF ServeStatuses, Statuses
  <2> QED BY <1>1, <1>2, <1>6, <2>1, ResultType, GoAnswer
<1> QED BY <1>4, <1>5, <1>6 DEF CaptureOutput

LEMMA OutputChangesInv ==
    ASSUME DisplayInv, OutputChanges
    PROVE  DisplayInv'
<1>1. OutputLeft /\ UNCHANGED <<request, display, portal>>
  BY DEF OutputChanges
<1>2. CASE serve' = [Taken EXCEPT !.clean = FALSE]
  <2>1. Taken \in ServeRecord
    BY <1>1, TakenFacts
  <2>2. /\ serve' \in ServeRecord /\ serve'.clean = FALSE /\ serve'.pc = Taken.pc
        /\ serve'.next = Taken.next /\ serve'.scene = Taken.scene
        /\ serve'.conn = Taken.conn /\ serve'.segments = Taken.segments
    BY <1>2, <2>1 DEF ServeRecord
  <2> QED BY <1>1, <2>2, TakenFacts, NextOutput
<1>3. CASE serve' = Gone
  BY <1>1, <1>3, GoneInv DEF DisplayInv, DisplayTyped
<1> QED BY <1>2, <1>3 DEF OutputChanges

LEMMA ComposeCaptureInv ==
    ASSUME DisplayInv, ComposeCapture
    PROVE  DisplayInv'
<1>1. /\ serve \in ServeRecord /\ serve.pc = "outputs" /\ serve.scene \in Scenes
      /\ serve.next \notin DOMAIN serve.scene.outputs /\ serve.next \in Nat
      /\ serve.next > 0 /\ UNCHANGED <<request, display, portal>>
  BY DEF ComposeCapture, Scene, DisplayInv, DisplayTyped, AreaTaken, ServeRecord
<1>2. serve.segments = <<>> => ~serve.clean
  <2> SUFFICES ASSUME serve.clean
               PROVE  serve.segments # <<>>
    OBVIOUS
  <2>1. Covered(serve.scene)
    BY <1>1 DEF DisplayInv, AreaTaken
  <2>2. PICK i \in DOMAIN serve.scene.outputs :
           Intersects(serve.scene.outputs[i], serve.scene.area)
    BY <2>1 DEF Covered
  <2>3. i < serve.next
    <3>1. /\ DOMAIN serve.scene.outputs = 1 .. Len(serve.scene.outputs)
          /\ Len(serve.scene.outputs) \in Nat
      BY <1>1, SceneTyped
    <3> QED BY <1>1, <3>1
  <2> QED BY <1>1, <2>2, <2>3 DEF DisplayInv, AreaTaken
<1>3. CASE serve.segments = <<>> /\ serve' = Result("UNAVAILABLE")
  <2>1. "UNAVAILABLE" \in ServeStatuses
    BY DEF ServeStatuses, Statuses
  <2> QED BY <1>1, <1>2, <1>3, <2>1, ResultType, GoAnswer
<1>4. CASE serve' = [serve EXCEPT !.pc = "answer", !.status = "OK", !.image = TRUE]
  <2>1. serve' \in ServeRecord /\ serve'.pc = "answer" /\ serve'.status = "OK"
    BY <1>1, <1>4 DEF ServeRecord, ServeStages, ServeStatuses, Statuses
  <2> QED BY <1>1, <2>1, GoAnswer
<1>5. ASSUME NEW s \in {"RESOURCE_EXHAUSTED", "INTERNAL"},
             serve' = [Result(s) EXCEPT !.clean = FALSE]
      PROVE  DisplayInv'
  <2>1. s \in ServeStatuses
    BY <1>5 DEF ServeStatuses
  <2> QED BY <1>1, <1>5, <2>1, ResultType, GoAnswer
<1> QED BY <1>3, <1>4, <1>5 DEF ComposeCapture

LEMMA AttachInv ==
    ASSUME DisplayInv, Attach
    PROVE  DisplayInv'
<1>1. /\ serve \in ServeRecord /\ display \in DisplayRecord /\ serve.pc = "attach"
      /\ UNCHANGED <<request, portal>>
  BY DEF DisplayInv, DisplayTyped, Attach
<1>2. CASE serve'.pc = "sync"
  <2>1. PICK image \in BOOLEAN : serve' = [serve EXCEPT !.pc = "sync", !.image = image]
    <3>1. CASE serve' = [serve EXCEPT !.pc = "sync"]
      <4>1. serve' = [serve EXCEPT !.pc = "sync", !.image = serve.image]
            /\ serve.image \in BOOLEAN
        BY <1>1, <3>1 DEF ServeRecord
      <4> QED BY <4>1
    <3>2. CASE serve' # [serve EXCEPT !.pc = "sync"]
      BY <1>1, <1>2, <3>2 DEF Attach, ServeRecord
    <3> QED BY <3>1, <3>2
  <2>2. display' = display \/ \E m \in BOOLEAN :
           display' = [display EXCEPT !.mapped = m, !.detaching = m]
    BY <1>1, <1>2 DEF Attach
  <2>3. /\ serve' \in ServeRecord /\ serve'.clean = serve.clean /\ serve'.conn = serve.conn
    BY <1>1, <2>1 DEF ServeRecord, ServeStages
  <2>4. display' \in DisplayRecord /\ (display'.mapped <=> display'.detaching)
    BY <1>1, <2>2 DEF DisplayRecord, DisplayInv, SegmentReleased
  <2>5. Connected' /\ AreaTaken' /\ Answered' /\ PortalHeard'
    BY <1>1, <1>2, <2>3 DEF DisplayInv, Connected, AreaTaken, Answered, PortalHeard
  <2>6. SegmentReleased'
    BY <1>2, <2>4 DEF SegmentReleased
  <2> QED BY <1>1, <2>3, <2>4, <2>5, <2>6 DEF DisplayInv, DisplayTyped
<1>3. CASE serve'.pc # "sync"
  <2>1. PICK s \in {"UNSUPPORTED", "INVALID_REQUEST", "INTERNAL"} :
           /\ serve' = [serve EXCEPT !.pc = "answer", !.status = s, !.clean = FALSE]
           /\ display' = display
    BY <1>1, <1>3 DEF Attach, ServeRecord
  <2>2. serve' \in ServeRecord /\ serve'.pc = "answer" /\ serve'.clean = FALSE
    BY <1>1, <2>1 DEF ServeRecord, ServeStages, ServeStatuses, Statuses
  <2> QED BY <1>1, <2>1, <2>2, GoAnswer
<1> QED BY <1>2, <1>3

LEMMA SyncInv ==
    ASSUME DisplayInv, Sync
    PROVE  DisplayInv'
<1>1. /\ serve \in ServeRecord /\ serve.pc = "sync"
      /\ UNCHANGED <<request, display, portal>>
      /\ serve.conn = "live" => ~display.detaching
      /\ serve.clean => serve.conn = "live"
  BY DEF DisplayInv, DisplayTyped, Connected, Sync
<1>2. PICK p \in {"seal", "core"}, b \in BOOLEAN :
         serve' = [serve EXCEPT !.pc = p, !.broken = b]
  BY <1>1 DEF Sync, ServeRecord
<1>3. /\ serve' \in ServeRecord /\ serve'.pc = p /\ serve'.clean = serve.clean
      /\ serve'.conn = serve.conn
  BY <1>1, <1>2 DEF ServeRecord, ServeStages
<1> QED BY <1>1, <1>3 DEF DisplayInv, DisplayTyped, Connected, AreaTaken, SegmentReleased,
        PortalHeard, Answered

LEMMA CoreInv ==
    ASSUME DisplayInv, Core
    PROVE  DisplayInv'
<1>1. /\ serve \in ServeRecord /\ serve.pc = "core"
      /\ UNCHANGED <<request, display, portal>>
      /\ serve.clean => serve.conn = "live"
  BY DEF DisplayInv, DisplayTyped, Connected, Core
<1>2. CASE serve' = [serve EXCEPT !.pc = "seal", !.image = TRUE]
  <2>1. /\ serve' \in ServeRecord /\ serve'.pc = "seal" /\ serve'.clean = serve.clean
        /\ serve'.conn = serve.conn
    BY <1>1, <1>2 DEF ServeRecord, ServeStages
  <2> QED BY <1>1, <2>1 DEF DisplayInv, DisplayTyped, Connected, AreaTaken,
          SegmentReleased, PortalHeard, Answered
<1>3. CASE serve' = [Result("UNAVAILABLE") EXCEPT !.clean = @ /\ serve.conn = "dead"]
  <2>1. "UNAVAILABLE" \in ServeStatuses
    BY DEF ServeStatuses, Statuses
  <2>2. PICK c \in BOOLEAN : c = (serve.clean /\ serve.conn = "dead")
    OBVIOUS
  <2>3. serve' = [Result("UNAVAILABLE") EXCEPT !.clean = c]
    BY <1>3, <2>1, <2>2, ResultType
  <2>4. c = FALSE
    BY <1>1, <2>2
  <2> QED BY <1>1, <2>1, <2>3, <2>4, ResultType, GoAnswer
<1> QED BY <1>2, <1>3 DEF Core

LEMMA SealInv ==
    ASSUME DisplayInv, Seal
    PROVE  DisplayInv'
<1>1. /\ serve \in ServeRecord /\ serve.pc = "seal"
      /\ UNCHANGED <<request, display, portal>>
      /\ serve.clean => ~display.mapped
  BY DEF DisplayInv, DisplayTyped, SegmentReleased, Seal
<1>2. \/ /\ display.mapped
         /\ serve' = [serve EXCEPT !.pc = "answer", !.status = "INTERNAL", !.image = FALSE]
      \/ serve' = [serve EXCEPT !.pc = "answer", !.status = "OK"]
  BY DEF Seal
<1>3. serve' \in ServeRecord /\ serve'.pc = "answer" /\ (serve'.clean => serve'.status = "OK")
  BY <1>1, <1>2 DEF ServeRecord, ServeStages, ServeStatuses, Statuses
<1> QED BY <1>1, <1>3, GoAnswer
LEMMA SubscribeInv ==
    ASSUME DisplayInv, Subscribe
    PROVE  DisplayInv'
<1>1. /\ serve \in ServeRecord /\ serve.pc = "portal" /\ UNCHANGED <<request, display>>
  BY DEF DisplayInv, DisplayTyped, Subscribe
<1>2. CASE /\ serve' = [serve EXCEPT !.pc = "call"]
           /\ portal' = [NoPortal EXCEPT !.listening = TRUE]
  <2>1. serve' \in ServeRecord /\ serve'.pc = "call"
    BY <1>1, <1>2 DEF ServeRecord, ServeStages
  <2>2. /\ portal' \in PortalRecord /\ ~portal'.heard /\ ~portal'.replied
    BY <1>2 DEF NoPortal, PortalRecord
  <2>3. PortalHeard'
    BY <1>2, <2>1, <2>2 DEF PortalHeard
  <2>4. Connected' /\ AreaTaken' /\ SegmentReleased' /\ Answered'
    BY <1>1, <2>1 DEF DisplayInv, Connected, AreaTaken, SegmentReleased, Answered
  <2> QED BY <1>1, <2>1, <2>2, <2>3, <2>4 DEF DisplayInv, DisplayTyped
<1>3. CASE /\ serve' = [serve EXCEPT !.pc = "answer", !.clean = FALSE,
                                     !.status = "UNAVAILABLE"]
           /\ portal' = portal
  <2>1. serve' \in ServeRecord /\ serve'.pc = "answer" /\ serve'.clean = FALSE
    BY <1>1, <1>3 DEF ServeRecord, ServeStages, ServeStatuses, Statuses
  <2> QED BY <1>1, <1>3, <2>1, GoAnswer
<1> QED BY <1>2, <1>3 DEF Subscribe

LEMMA ScreenshotInv ==
    ASSUME DisplayInv, Screenshot
    PROVE  DisplayInv'
<1>1. /\ serve \in ServeRecord /\ serve.pc = "call" /\ UNCHANGED <<request, display>>
      /\ serve' = [serve EXCEPT !.pc = "reply"]
      /\ portal' = [portal EXCEPT !.request = "open"]
      /\ portal = [NoPortal EXCEPT !.listening = TRUE]
  BY DEF DisplayInv, DisplayTyped, PortalHeard, Screenshot
<1>2. serve' \in ServeRecord /\ serve'.pc = "reply"
  BY <1>1 DEF ServeRecord, ServeStages
<1>3. /\ portal' \in PortalRecord /\ ~portal'.heard /\ ~portal'.replied
      /\ portal'.listening /\ portal'.response = None /\ ~portal'.timer
  BY <1>1 DEF NoPortal, PortalRecord
<1>4. PortalHeard'
  BY <1>2, <1>3 DEF PortalHeard
<1>5. Connected' /\ AreaTaken' /\ SegmentReleased' /\ Answered'
  BY <1>1, <1>2 DEF DisplayInv, Connected, AreaTaken, SegmentReleased, Answered
<1> QED BY <1>1, <1>2, <1>3, <1>4, <1>5 DEF DisplayInv, DisplayTyped

LEMMA ReplyInv ==
    ASSUME DisplayInv, Reply
    PROVE  DisplayInv'
<1>1. /\ serve \in ServeRecord /\ portal \in PortalRecord /\ serve.pc = "reply"
      /\ UNCHANGED <<request, display>> /\ PortalHeard
  BY DEF DisplayInv, DisplayTyped, Reply
<1>2. CASE /\ serve' = [serve EXCEPT !.pc = "wait"]
           /\ portal' = [portal EXCEPT !.replied = TRUE, !.listening = TRUE]
  <2>1. serve' \in ServeRecord /\ serve'.pc = "wait" /\ serve'.clean = serve.clean
    BY <1>1, <1>2 DEF ServeRecord, ServeStages
  <2>2. /\ portal' \in PortalRecord /\ portal'.listening /\ portal'.heard = portal.heard
        /\ portal'.response = portal.response /\ portal'.request = portal.request
        /\ portal'.timer = portal.timer
    BY <1>1, <1>2 DEF PortalRecord
  <2>3. PortalHeard'
    BY <1>1, <2>1, <2>2 DEF PortalHeard
  <2>4. Connected' /\ AreaTaken' /\ SegmentReleased' /\ Answered'
    BY <1>1, <2>1 DEF DisplayInv, Connected, AreaTaken, SegmentReleased, Answered
  <2> QED BY <1>1, <2>1, <2>2, <2>3, <2>4 DEF DisplayInv, DisplayTyped
<1>3. CASE /\ serve' = [serve EXCEPT !.pc = "answer", !.clean = FALSE,
                                     !.status = "UNAVAILABLE"]
           /\ portal' = [portal EXCEPT !.listening = FALSE]
  <2>1. serve' \in ServeRecord /\ serve'.pc = "answer" /\ serve'.clean = FALSE
    BY <1>1, <1>3 DEF ServeRecord, ServeStages, ServeStatuses, Statuses
  <2>2. /\ portal' \in PortalRecord /\ portal'.heard = portal.heard
        /\ portal'.request = portal.request /\ portal'.replied = portal.replied
    BY <1>1, <1>3 DEF PortalRecord
  <2>3. PortalHeard'
    BY <1>1, <2>1, <2>2 DEF PortalHeard
  <2>4. Connected' /\ AreaTaken' /\ SegmentReleased' /\ Answered'
    BY <1>1, <2>1 DEF DisplayInv, Connected, AreaTaken, SegmentReleased, Answered
  <2> QED BY <1>1, <2>1, <2>2, <2>3, <2>4 DEF DisplayInv, DisplayTyped
<1> QED BY <1>2, <1>3 DEF Reply

LEMMA AwaitResponseInv ==
    ASSUME DisplayInv, AwaitResponse
    PROVE  DisplayInv'
<1>1. /\ serve \in ServeRecord /\ portal \in PortalRecord /\ serve.pc = "wait"
      /\ UNCHANGED <<request, display>> /\ PortalHeard
  BY DEF DisplayInv, DisplayTyped, AwaitResponse
<1>2. /\ serve' \in ServeRecord /\ serve'.pc \in {"file", "answer"}
      /\ serve'.pc = "answer" /\ serve'.clean => serve'.status = "OK"
  <2>1. CASE portal.heard /\ portal.response = 0
    <3>1. serve' = [serve EXCEPT !.pc = "file"]
      BY <2>1 DEF AwaitResponse
    <3> QED BY <1>1, <3>1 DEF ServeRecord, ServeStages
  <2>2. CASE portal.heard /\ portal.response # 0
    <3>1. ~serve.clean
      BY <1>1, <2>2 DEF PortalHeard
    <3>2. PICK s \in {"CANCELLED", "UNAVAILABLE"} :
             serve' = [serve EXCEPT !.pc = "answer", !.status = s]
      BY <2>2 DEF AwaitResponse
    <3> QED BY <1>1, <3>1, <3>2 DEF ServeRecord, ServeStages, ServeStatuses, Statuses
  <2>3. CASE ~portal.heard
    <3>1. portal.timer /\ serve' = [serve EXCEPT !.pc = "answer", !.status = "TIMEOUT"]
      BY <2>3 DEF AwaitResponse
    <3>2. ~serve.clean
      BY <1>1, <2>3, <3>1 DEF PortalHeard
    <3> QED BY <1>1, <3>1, <3>2 DEF ServeRecord, ServeStages, ServeStatuses, Statuses
  <2> QED BY <2>1, <2>2, <2>3
<1>3. /\ portal' \in PortalRecord /\ portal'.heard = portal.heard
      /\ portal'.request # "open"
      /\ portal.heard => portal'.request = "over"
  <2>1. CASE portal.heard
    <3>1. portal' = [portal EXCEPT !.listening = FALSE]
      BY <2>1 DEF AwaitResponse
    <3> QED BY <1>1, <2>1, <3>1 DEF PortalRecord, PortalHeard
  <2>2. CASE ~portal.heard
    <3>1. PICK r : r = IF portal.request = "open" THEN "closed" ELSE portal.request
      OBVIOUS
    <3>2. portal' = [portal EXCEPT !.listening = FALSE, !.request = r]
      BY <1>1, <2>2, <3>1 DEF AwaitResponse, PortalRecord
    <3>3. r \in {"none", "over", "closed"}
      BY <1>1, <3>1 DEF PortalRecord
    <3> QED BY <1>1, <2>2, <3>2, <3>3 DEF PortalRecord
  <2> QED BY <2>1, <2>2
<1>4. PortalHeard'
  BY <1>2, <1>3 DEF PortalHeard
<1>5. Connected' /\ AreaTaken' /\ SegmentReleased' /\ Answered'
  BY <1>1, <1>2 DEF DisplayInv, Connected, AreaTaken, SegmentReleased, Answered
<1> QED BY <1>1, <1>2, <1>3, <1>4, <1>5 DEF DisplayInv, DisplayTyped

LEMMA TakeFileInv ==
    ASSUME DisplayInv, TakeFile
    PROVE  DisplayInv'
<1>1. /\ serve \in ServeRecord /\ serve.pc = "file"
      /\ UNCHANGED <<request, display, portal>>
  BY DEF DisplayInv, DisplayTyped, TakeFile
<1>2. \/ serve' = [serve EXCEPT !.pc = "answer", !.status = "OK", !.image = TRUE]
      \/ serve' = [serve EXCEPT !.pc = "answer", !.status = "UNAVAILABLE", !.clean = FALSE]
  BY DEF TakeFile
<1>3. serve' \in ServeRecord /\ serve'.pc = "answer" /\ (serve'.clean => serve'.status = "OK")
  BY <1>1, <1>2 DEF ServeRecord, ServeStages, ServeStatuses, Statuses
<1> QED BY <1>1, <1>3, GoAnswer

\* The process ends, by itself or by the monitor's or the alarm's doing.
LEMMA EndInv ==
    ASSUME DisplayInv, WatchEnds \/ MonitorExit \/ Alarm
    PROVE  DisplayInv'
<1>1. serve' = Gone /\ UNCHANGED <<request, display, portal>>
  BY DEF WatchEnds, MonitorExit, Alarm
<1> QED BY <1>1, GoneInv DEF DisplayInv, DisplayTyped

LEMMA RequestInv ==
    ASSUME DisplayInv, Request \/ Hangup
    PROVE  DisplayInv'
<1>1. request' \in Operations \cup {None} /\ UNCHANGED <<serve, display, portal>>
  BY DEF Request, Hangup, DisplayInv, DisplayTyped
<1> QED BY <1>1 DEF DisplayInv, DisplayTyped, Connected, AreaTaken, SegmentReleased,
        PortalHeard, Answered, Valid

LEMMA DetachInv ==
    ASSUME DisplayInv, Detach
    PROVE  DisplayInv'
<1>1. /\ UNCHANGED <<request, serve, portal>> /\ display \in DisplayRecord
      /\ display' = [display EXCEPT !.mapped = FALSE, !.detaching = FALSE]
  BY DEF Detach, DisplayInv, DisplayTyped
<1>2. /\ display' \in DisplayRecord /\ display'.up = display.up
      /\ ~display'.mapped /\ ~display'.detaching
  BY <1>1 DEF DisplayRecord
<1> QED BY <1>1, <1>2 DEF DisplayInv, DisplayTyped, Connected, AreaTaken, SegmentReleased,
        PortalHeard, Answered, Valid

LEMMA DisplayDiesInv ==
    ASSUME DisplayInv, DisplayDies
    PROVE  DisplayInv'
<1>1. /\ UNCHANGED <<request, portal>> /\ display \in DisplayRecord /\ serve \in ServeRecord
  BY DEF DisplayDies, DisplayInv, DisplayTyped
<1>2. PICK n \in Nat : n = display.deaths + 1
  BY <1>1 DEF DisplayRecord
<1>3. display' = [display EXCEPT !.up = FALSE, !.deaths = n, !.mapped = FALSE,
                                 !.detaching = FALSE]
  BY <1>2 DEF DisplayDies
<1>4. display' \in DisplayRecord /\ ~display'.mapped /\ ~display'.detaching
  BY <1>1, <1>3 DEF DisplayRecord
<1>5. PICK k \in {"none", "live", "dead"} : serve' = [serve EXCEPT !.conn = k, !.clean = FALSE]
  BY <1>1 DEF DisplayDies, ServeRecord
<1>6. /\ serve' \in ServeRecord /\ serve'.clean = FALSE /\ serve'.pc = serve.pc
      /\ serve'.op = serve.op /\ serve'.scene = serve.scene /\ serve'.next = serve.next
      /\ serve'.broken = serve.broken /\ serve'.backend = serve.backend
      /\ serve'.segments = serve.segments
  BY <1>1, <1>5 DEF ServeRecord
<1>7. AreaTaken'
  BY <1>6 DEF DisplayInv, AreaTaken
<1>8. Connected' /\ SegmentReleased' /\ PortalHeard' /\ Answered'
  BY <1>1, <1>4, <1>6 DEF DisplayInv, Connected, SegmentReleased, PortalHeard, Answered
<1> QED BY <1>1, <1>4, <1>6, <1>7, <1>8 DEF DisplayInv, DisplayTyped

LEMMA DisplayReturnsInv ==
    ASSUME DisplayInv, DisplayReturns
    PROVE  DisplayInv'
<1>1. /\ UNCHANGED <<request, serve, portal>> /\ display \in DisplayRecord
      /\ display' = [display EXCEPT !.up = TRUE]
  BY DEF DisplayReturns, DisplayInv, DisplayTyped
<1>2. /\ display' \in DisplayRecord /\ display'.up
      /\ display'.mapped = display.mapped /\ display'.detaching = display.detaching
  BY <1>1 DEF DisplayRecord
<1> QED BY <1>1, <1>2 DEF DisplayInv, DisplayTyped, Connected, AreaTaken, SegmentReleased,
        PortalHeard, Answered, Valid

\* What is left when only the request's cleanliness and the portal change.
LEMMA PortalSide ==
    ASSUME DisplayInv, UNCHANGED <<request, display>>, NEW c \in BOOLEAN,
           serve' = [serve EXCEPT !.clean = serve.clean /\ c],
           portal' \in PortalRecord, PortalHeard'
    PROVE  DisplayInv'
<1>1. serve \in ServeRecord
  BY DEF DisplayInv, DisplayTyped
<1>2. PICK d \in BOOLEAN : d = (serve.clean /\ c)
  OBVIOUS
<1>3. serve' = [serve EXCEPT !.clean = d]
  BY <1>2
<1>4. /\ serve' \in ServeRecord /\ serve'.clean = d /\ serve'.pc = serve.pc
      /\ serve'.op = serve.op /\ serve'.scene = serve.scene /\ serve'.next = serve.next
      /\ serve'.broken = serve.broken /\ serve'.backend = serve.backend
      /\ serve'.segments = serve.segments /\ serve'.conn = serve.conn
      /\ serve'.status = serve.status
  BY <1>1, <1>3 DEF ServeRecord
<1>5. d => serve.clean
  BY <1>2
<1>6. Connected' /\ SegmentReleased' /\ Answered'
  BY <1>4, <1>5 DEF DisplayInv, Connected, SegmentReleased, Answered, Valid
<1>7. AreaTaken'
  BY <1>4, <1>5 DEF DisplayInv, AreaTaken
<1> QED BY <1>4, <1>6, <1>7 DEF DisplayInv, DisplayTyped

LEMMA RespondInv ==
    ASSUME DisplayInv, Respond
    PROVE  DisplayInv'
<1>1. /\ UNCHANGED <<request, display>> /\ portal \in PortalRecord /\ serve \in ServeRecord
      /\ portal.request = "open" /\ portal.response = None /\ PortalHeard
  BY DEF Respond, DisplayInv, DisplayTyped
<1>2. PICK code \in 0 .. 2 :
        /\ portal' = [portal EXCEPT !.response = code, !.request = "over",
                                    !.heard = portal.listening]
        /\ serve' = [serve EXCEPT !.clean =
                        @ /\ (serve.pc \in {"reply", "wait"} => code = 0)]
  BY DEF Respond
<1>3. PICK c \in BOOLEAN : c = (serve.pc \in {"reply", "wait"} => code = 0)
  OBVIOUS
<1>4. serve' = [serve EXCEPT !.clean = serve.clean /\ c]
  BY <1>2, <1>3
<1>5. /\ portal' \in PortalRecord /\ portal'.request = "over" /\ portal'.response = code
      /\ portal'.heard = portal.listening /\ portal'.listening = portal.listening
      /\ portal'.replied = portal.replied /\ portal'.timer = portal.timer
  <2>1. PICK r \in {None, 0, 1, 2} : r = code
    <3>1. code = 0 \/ code = 1 \/ code = 2
      OBVIOUS
    <3> QED BY <3>1, Zenon
  <2>2. PICK l \in BOOLEAN : l = portal.listening
    BY <1>1 DEF PortalRecord
  <2>3. portal' = [portal EXCEPT !.response = r, !.request = "over", !.heard = l]
    BY <1>2, <2>1, <2>2, Zenon
  <2>4. /\ portal' \in PortalRecord /\ portal'.request = "over" /\ portal'.response = r
        /\ portal'.heard = l /\ portal'.listening = portal.listening
        /\ portal'.replied = portal.replied /\ portal'.timer = portal.timer
    BY <1>1, <2>3 DEF PortalRecord
  <2> QED BY <2>1, <2>2, <2>4, Zenon
<1>6. serve'.pc = serve.pc /\ (serve'.clean => serve.clean /\ c)
  <2>1. PICK d \in BOOLEAN : d = (serve.clean /\ c)
    OBVIOUS
  <2>2. serve' = [serve EXCEPT !.clean = d]
    BY <1>4, <2>1
  <2>3. serve'.pc = serve.pc /\ serve'.clean = d
    BY <1>1, <2>2 DEF ServeRecord
  <2> QED BY <2>1, <2>3
<1>7. serve.pc # "call"
  BY <1>1 DEF PortalHeard, NoPortal
<1>8. PortalHeard'
  BY <1>1, <1>3, <1>5, <1>6, <1>7 DEF PortalHeard
<1> QED BY <1>1, <1>4, <1>5, <1>8, PortalSide

LEMMA ResponseTimeoutInv ==
    ASSUME DisplayInv, ResponseTimeout
    PROVE  DisplayInv'
<1>1. /\ UNCHANGED <<request, display>> /\ portal \in PortalRecord /\ serve \in ServeRecord
      /\ serve.pc = "wait" /\ PortalHeard
      /\ portal' = [portal EXCEPT !.timer = TRUE]
      /\ serve' = [serve EXCEPT !.clean = @ /\ portal.response # None]
  BY DEF ResponseTimeout, DisplayInv, DisplayTyped
<1>2. PICK c \in BOOLEAN : c = (portal.response # None)
  OBVIOUS
<1>3. serve' = [serve EXCEPT !.clean = serve.clean /\ c]
  BY <1>1, <1>2
<1>4. /\ portal' \in PortalRecord /\ portal'.request = portal.request
      /\ portal'.response = portal.response /\ portal'.heard = portal.heard
      /\ portal'.listening = portal.listening /\ portal'.replied = portal.replied
  BY <1>1 DEF PortalRecord
<1>5. serve'.pc = serve.pc /\ (serve'.clean => serve.clean /\ c)
  BY <1>1, <1>3 DEF ServeRecord
<1>6. PortalHeard'
  BY <1>1, <1>2, <1>4, <1>5 DEF PortalHeard
<1> QED BY <1>1, <1>3, <1>4, <1>6, PortalSide

-----------------------------------------------------------------------------
(* The worker that stays: its theorems. *)

LEMMA DisplayInitial == DisplayInit => DisplayInv
<1> SUFFICES ASSUME DisplayInit
             PROVE  DisplayInv
  OBVIOUS
<1>1. PICK b \in Backends :
         serve = [backend |-> b, pc |-> "read", op |-> None, status |-> None,
                  conn |-> "none", broken |-> FALSE, clean |-> FALSE,
                  scene |-> None, next |-> 1, segments |-> <<>>,
                  which |-> <<>>, image |-> FALSE]
  BY DEF DisplayInit
<1>2. b \in {"X11", "GENERIC"}
  BY DisplayConstants
<1>3. <<>> \in Seq(Pieces) /\ <<>> \in Seq(Nat)
  OBVIOUS
<1>4. PICK s \in Seq(Pieces), n \in Seq(Nat) : s = <<>> /\ n = <<>>
  BY <1>3, Zenon
<1>5. serve = [backend |-> b, pc |-> "read", op |-> None, status |-> None,
               conn |-> "none", broken |-> FALSE, clean |-> FALSE,
               scene |-> None, next |-> 1, segments |-> s,
               which |-> n, image |-> FALSE]
  BY <1>1, <1>4
<1>6. /\ serve \in ServeRecord /\ serve.pc = "read" /\ ~serve.clean /\ ~serve.broken
      /\ serve.next = 1
  BY <1>2, <1>5 DEF ServeRecord, ServeStages
<1>7. /\ request = None /\ display \in DisplayRecord /\ ~display.mapped /\ ~display.detaching
      /\ portal \in PortalRecord /\ ~portal.heard /\ ~portal.replied
  BY DEF DisplayInit, DisplayRecord, PortalRecord, NoPortal
<1> QED BY <1>6, <1>7 DEF DisplayInv, DisplayTyped, Connected, AreaTaken, SegmentReleased,
        PortalHeard, Answered

LEMMA DisplayStep == DisplayInv /\ [Next]_vars => DisplayInv'
<1> SUFFICES ASSUME DisplayInv, [Next]_vars
             PROVE  DisplayInv'
  OBVIOUS
<1>1. CASE UNCHANGED displayVars
  BY <1>1 DEF displayVars, DisplayInv, DisplayTyped, Connected, AreaTaken,
     SegmentReleased, PortalHeard, Answered, Valid
<1>2. CASE ServeStep
  BY <1>2, ReadRequestInv, OpenInv, ExecuteInv, QueryInv, AnswerInv, SkipOutputInv,
     CaptureOutputInv, OutputChangesInv, ComposeCaptureInv, AttachInv, SyncInv, CoreInv,
     SealInv, SubscribeInv, ScreenshotInv, ReplyInv, AwaitResponseInv, TakeFileInv
     DEF ServeStep
<1>3. CASE WatchEnds \/ MonitorExit \/ Alarm \/ Request \/ Hangup \/ Detach \/ DisplayDies
           \/ DisplayReturns \/ Respond \/ ResponseTimeout
  BY <1>3, EndInv, RequestInv, DetachInv, DisplayDiesInv, DisplayReturnsInv, RespondInv,
     ResponseTimeoutInv
<1>4. UNCHANGED vars => UNCHANGED displayVars
  BY DEF vars
<1>5. Next => DisplayNext \/ UNCHANGED displayVars
  BY DEF Next, OneShot, Persistent
<1> QED BY <1>1, <1>2, <1>3, <1>4, <1>5 DEF DisplayNext

\* However the display dies and returns, outputs change, the user answers and
\* the authority hangs up between its steps, the connection, the outputs
\* passed, the X server's segment and the portal's request stay related as
\* serve_persistently (src/src/capture_worker.c) relies on.
THEOREM DisplayInductiveCorrect == FairSpec => []DisplayInv
<1>1. Init => DisplayInv
  BY DisplayInitial DEF Init
<1> QED BY <1>1, DisplayStep, PTL DEF FairSpec

\* For any scenes and any number of requests and deaths: a request that nothing
\* outside stood in the way of is answered OK, and no dialogue of the portal
\* whose request is known stays on the screen behind the answer.
THEOREM HealthyCorrect == FairSpec => []HealthyDisplayServes
<1>1. DisplayInv => HealthyDisplayServes
  BY DEF DisplayInv, Answered, PortalHeard, HealthyDisplayServes
<1> QED BY <1>1, DisplayInductiveCorrect, PTL

-----------------------------------------------------------------------------
(* The picture: its arithmetic, for every scale, transform and area. *)

\* Two facts about products, from which the others' steps are put together.
LEMMA Product ==
    ASSUME NEW x \in Int, NEW y \in Int, x >= 0, y >= 0
    PROVE  x * y \in Int /\ x * y >= 0
OBVIOUS

LEMMA Cancel ==
    ASSUME NEW x \in Int, NEW c \in Int, c > 0
    PROVE  /\ c * x > 0 => x > 0
           /\ c * x >= 0 => x >= 0
           /\ x > 0 => c * x > 0
OBVIOUS

\* Induction, for a set: the numbers up to one outside it would be finitely
\* many without a last.
LEMMA SetInduction ==
    ASSUME NEW S, 0 \in S, \A n \in Nat : n \in S => n + 1 \in S
    PROVE  Nat \subseteq S
<1> SUFFICES ASSUME NEW n \in Nat, n \notin S
             PROVE  FALSE
  OBVIOUS
<1> DEFINE B == {k \in 0 .. n : k \notin S}
           down == [k \in B |-> k - 1]
<1>1. /\ IsFiniteSet(B) /\ IsFiniteSet(B \ {n})
      /\ Cardinality(B \ {n}) < Cardinality(B)
  <2>1. 0 \in Int /\ n \in Int
    OBVIOUS
  <2>2. IsFiniteSet(0 .. n)
    BY <2>1, FS_Interval
  <2>3. IsFiniteSet(B)
    BY <2>2, FS_Subset
  <2>4. n \in B
    OBVIOUS
  <2>5. IsFiniteSet(B \ {n}) /\ Cardinality(B \ {n}) = Cardinality(B) - 1
    BY <2>3, <2>4, FS_RemoveElement
  <2>6. Cardinality(B) \in Nat
    BY <2>3, FS_CardinalityType
  <2> QED BY <2>3, <2>5, <2>6
<1>2. down \in [B -> B \ {n}]
  OBVIOUS
<1>3. PICK x \in B, y \in B : x # y /\ down[x] = down[y]
  <2> HIDE DEF B, down
  <2> QED BY <1>1, <1>2, FS_PigeonHole
<1> QED BY <1>3


\* Along one side, in units of half a pixel of an output times a pixel of the
\* picture: U and V, half a pixel of the output and of the picture; from F to
\* G, the part of the output; from H to B, the same part of the picture; the
\* output's pixels e .. f - 1 and the picture's a .. b - 1 that stand for it.
\* Each end of the part is an end of the output or of the picture.
Sides(U, V, F, G, H, B, e, f, a, b) ==
    /\ U \in Int /\ V \in Int /\ U > 0 /\ V > 0
    /\ F \in Int /\ G \in Int /\ H \in Int /\ B \in Int /\ G - F = B - H
    /\ e \in Int /\ f \in Int /\ a \in Int /\ b \in Int /\ e < f
    /\ (2 * e - 1) * U < F /\ F <= (2 * e + 1) * U
    /\ (2 * f - 1) * U < G /\ G <= (2 * f + 1) * U
    /\ (2 * a - 1) * V < H /\ H <= (2 * a + 1) * V
    /\ (2 * b - 1) * V < B /\ B <= (2 * b + 1) * V
    /\ (F = 0 /\ e = 0) \/ (H = 0 /\ a = 0)
    /\ G = 2 * f * U \/ B = 2 * b * V

\* j: the output's pixel, from its first, read for pixel k of the part.
Samples(e, f, a, b, k, j) ==
    /\ k \in Int /\ j \in Int /\ 0 <= k /\ k < b - a /\ 0 <= j /\ j < f - e
    /\ 2 * (b - a) * j <= (2 * k + 1) * (f - e)
    /\ (2 * k + 1) * (f - e) < 2 * (b - a) * (j + 1)

\* A picture at least as fine as the output does not show it too late: the
\* error is a mean of the errors at the two ends.
LEMMA FineUpper ==
    ASSUME NEW U, NEW V, NEW F, NEW G, NEW H, NEW B, NEW e, NEW f, NEW a, NEW b,
           NEW k, NEW j, Sides(U, V, F, G, H, B, e, f, a, b),
           Samples(e, f, a, b, k, j), V <= U, 1 <= j
    PROVE  2 * (e + j) * U < (2 * a + 2 * k + 1) * V + F - H + U
<1> USE DEF Sides, Samples
<1> DEFINE D0 == U - 2 * e * U + F + 2 * a * V - H
           Dc == U - 2 * f * U + G + 2 * b * V - B
           X == D0 + (2 * k + 1) * V - 2 * j * U
<1>1. D0 \in Int /\ Dc \in Int /\ X \in Int
  OBVIOUS
<1>2. D0 >= 0
  OBVIOUS
<1>3. Dc >= 0
  OBVIOUS
<1>4. Dc = D0 + 2 * (b - a) * V - 2 * (f - e) * U
  OBVIOUS
<1>5. (f - e) * X >= (f - e - j) * D0 + j * Dc
  <2>1. ((2 * k + 1) * (f - e) - 2 * (b - a) * j) * V >= 0
    BY Product
  <2>2. (f - e) * X - ((f - e - j) * D0 + j * Dc)
          = ((2 * k + 1) * (f - e) - 2 * (b - a) * j) * V
    BY <1>4
  <2> HIDE DEF D0, Dc, X
  <2> QED BY <2>1, <2>2, <1>1
<1>6. CASE D0 > 0 \/ Dc > 0
  <2> HIDE DEF D0, Dc, X
  <2>1. (f - e - j) * D0 >= 0 /\ j * Dc >= 0 
    BY <1>1, <1>2, <1>3, Product
  <2>2. (f - e - j) * D0 > 0 \/ j * Dc > 0
    BY <1>1, <1>6, Cancel
  <2>3. (f - e) * X > 0
    BY <1>1, <1>5, <2>1, <2>2
  <2>4. X > 0
    BY <1>1, <2>3, Cancel
  <2> QED BY <2>4 DEF X, D0
<1>7. CASE D0 = 0 /\ Dc = 0
  <2>1. U = V
    BY <1>7
  <2>2. (b - a) * V = (f - e) * V
    BY <1>4, <1>7, <2>1
  <2>3. b - a = f - e
    BY <2>2
  <2>4. 2 * k + 1 >= 2 * j
    <3>1. (f - e) * (2 * k + 1 - 2 * j) >= 0
      BY <2>3
    <3> QED BY <3>1, Cancel
  <2>5. (2 * k + 1 - 2 * j) * V > 0
    <3>1. 2 * k + 1 - 2 * j > 0
      BY <2>4
    <3> QED BY <3>1, Cancel
  <2> QED BY <2>5, <2>1, <1>7
<1> QED BY <1>1, <1>2, <1>3, <1>6, <1>7

\* Nor too early.
LEMMA FineLower ==
    ASSUME NEW U, NEW V, NEW F, NEW G, NEW H, NEW B, NEW e, NEW f, NEW a, NEW b,
           NEW k, NEW j, Sides(U, V, F, G, H, B, e, f, a, b),
           Samples(e, f, a, b, k, j), V <= U, j + 1 < f - e
    PROVE  (2 * a + 2 * k + 1) * V + F - H < (2 * (e + j) + 3) * U
<1> USE DEF Sides, Samples
<1> DEFINE D0 == U + 2 * e * U - F - 2 * a * V + H
           Dc == U + 2 * f * U - G - 2 * b * V + B
           X == D0 + 2 * (j + 1) * U - (2 * k + 1) * V
<1>1. D0 \in Int /\ Dc \in Int /\ X \in Int
  OBVIOUS
<1>2. D0 >= 0 /\ Dc >= 0
  OBVIOUS
<1>3. Dc = D0 + 2 * (f - e) * U - 2 * (b - a) * V
  OBVIOUS
<1>4. (f - e) * X > (f - e - (j + 1)) * D0 + (j + 1) * Dc
  <2>1. (2 * (b - a) * (j + 1) - (2 * k + 1) * (f - e)) * V > 0
    BY Cancel
  <2>2. (f - e) * X - ((f - e - (j + 1)) * D0 + (j + 1) * Dc)
          = (2 * (b - a) * (j + 1) - (2 * k + 1) * (f - e)) * V
    BY <1>3
  <2> HIDE DEF D0, Dc, X
  <2> QED BY <2>1, <2>2, <1>1
<1>5. (f - e - (j + 1)) * D0 >= 0 /\ (j + 1) * Dc >= 0
  <2> HIDE DEF D0, Dc, X
  <2> QED BY <1>1, <1>2, Product
<1>6. X > 0
  <2> HIDE DEF D0, Dc, X
  <2>1. (f - e) * X > 0
    BY <1>1, <1>4, <1>5
  <2> QED BY <1>1, <2>1, Cancel
<1> QED BY <1>6

\* A picture less fine than the output, which rounding alone can make it, has
\* as many pixels for the part as the output, or one less for a whole output.
LEMMA CoarseCount ==
    ASSUME NEW U, NEW V, NEW F, NEW G, NEW H, NEW B, NEW e, NEW f, NEW a, NEW b,
           Sides(U, V, F, G, H, B, e, f, a, b), U < V, (2 * (f - e) - 1) * V < B - H
    PROVE  \/ b - a = f - e
           \/ b - a = f - e - 1 /\ F = 0 /\ e = 0 /\ G = 2 * f * U
<1> USE DEF Sides
<1> DEFINE c == f - e
           m == b - a
<1>1. (2 * m + 2) * V > (2 * c - 1) * V
  OBVIOUS
<1>2. 2 * m + 2 > 2 * c - 1
  <2>1. (2 * m + 3 - 2 * c) * V > 0
    BY <1>1
  <2>2. 2 * m + 3 - 2 * c > 0
    BY <2>1, Cancel
  <2> QED BY <2>2
<1>3. CASE F = 0 /\ e = 0 /\ G = 2 * f * U
  <2>1. c * V > c * U
    BY Cancel
  <2>2. (2 * m - 2) * V < 2 * c * V
    BY <1>3, <2>1
  <2>3. (2 * c - 2 * m + 2) * V > 0
    BY <2>2
  <2>4. 2 * c - 2 * m + 2 > 0
    BY <2>3, Cancel
  <2> QED BY <1>2, <1>3, <2>4
<1>4. CASE ~(F = 0 /\ e = 0 /\ G = 2 * f * U)
  <2>1. (2 * c + 1) * V > (2 * c + 1) * U /\ (2 * c + 2) * V > (2 * c + 2) * U
    BY Cancel
  <2>2. (2 * c + 2 - 2 * m) * V > 0
    BY <1>4, <2>1
  <2>3. (2 * m + 1 - (2 * c - 1)) * V > 0
    BY <1>4
  <2>4. 2 * c + 2 - 2 * m > 0 /\ 2 * m + 1 - (2 * c - 1) > 0
    BY <2>2, <2>3, Cancel
  <2> QED BY <2>4
<1> QED BY <1>3, <1>4

\* Such a picture reads pixel after pixel, and so is not too late.
LEMMA CoarseUpper ==
    ASSUME NEW U, NEW V, NEW F, NEW G, NEW H, NEW B, NEW e, NEW f, NEW a, NEW b,
           NEW k, NEW j, Sides(U, V, F, G, H, B, e, f, a, b),
           Samples(e, f, a, b, k, j), U < V, (2 * (f - e) - 1) * V < B - H
    PROVE  2 * (e + j) * U < (2 * a + 2 * k + 1) * V + F - H + U
<1> USE DEF Sides, Samples
<1>1. k * V >= k * U
  <2>1. k * (V - U) >= 0
    BY Product
  <2> QED BY <2>1
<1>2. CASE b - a = f - e
  <2>1. (f - e) * (2 * k + 1 - 2 * j) >= 0
    BY <1>2
  <2>2. 2 * k + 1 - 2 * j >= 0
    BY <2>1, Cancel
  <2>3. (k - j) * U >= 0
    BY <2>2, Product
  <2> QED BY <1>1, <2>3
<1>3. CASE b - a = f - e - 1 /\ F = 0 /\ e = 0 /\ G = 2 * f * U
  <2>1. (b - a) * (2 * k + 3 - 2 * j) > 0
    BY <1>3
  <2>2. 2 * k + 3 - 2 * j > 0
    BY <2>1, Cancel
  <2>3. (k + 1 - j) * U >= 0
    BY <2>2, Product
  <2>4. H < 2 * a * V
    BY <1>3
  <2> QED BY <1>1, <1>3, <2>3, <2>4
<1> QED BY <1>2, <1>3, CoarseCount

\* Nor too early: again a mean of what happens at the ends.
LEMMA CoarseLower ==
    ASSUME NEW U, NEW V, NEW F, NEW G, NEW H, NEW B, NEW e, NEW f, NEW a, NEW b,
           NEW k, NEW j, Sides(U, V, F, G, H, B, e, f, a, b),
           Samples(e, f, a, b, k, j), U < V, (2 * (f - e) - 1) * V < B - H,
           j + 1 < f - e
    PROVE  (2 * a + 2 * k + 1) * V + F - H < (2 * (e + j) + 3) * U
<1> USE DEF Sides, Samples
<1>1. V < 2 * U
  <2>1. (2 * (f - e) - 1) * V < (2 * (f - e) + 2) * U
    OBVIOUS
  <2>2. (f - e - 2) * V >= (f - e - 2) * U
    <3>1. (f - e - 2) * (V - U) >= 0
      BY Product
    <3> QED BY <3>1
  <2> QED BY <2>1, <2>2
<1>2. CASE b - a = f - e
  <2> DEFINE c == f - e
             s == 2 * k + 1
             Y0 == (2 * e + 2) * U - 2 * a * V - F + H
             Yc == (2 * f + 2) * U - 2 * b * V - G + B
             Y == (2 * e + 2 + s) * U - s * V - 2 * a * V - F + H
  <2>1. Y \in Int /\ Y0 \in Int /\ Yc \in Int
    OBVIOUS
  <2>2. Y0 > 0 /\ Yc > 0
    BY <1>1
  <2>3. 2 * c * Y = (2 * c - s) * Y0 + s * Yc
    BY <1>2
  <2>4. s \in Int /\ s > 0 /\ c \in Int /\ 2 * c - s > 0
    BY <1>2
  <2>5. Y > 0
    <3> HIDE DEF Y0, Yc, Y, s, c
    <3>1. (2 * c - s) * Y0 > 0 /\ s * Yc > 0
      BY <2>1, <2>2, <2>4, Cancel
    <3>2. 2 * c * Y > 0
      BY <2>1, <2>3, <2>4, <3>1
    <3> QED BY <2>1, <2>4, <3>2, Cancel
  <2>6. c * (2 * (j + 1) - s) > 0
    BY <1>2
  <2>7. 2 * (j + 1) - s > 0
    BY <2>4, <2>6, Cancel
  <2>8. (j - k) * U >= 0
    BY <2>7, Product
  <2> QED BY <2>5, <2>8
<1>3. CASE b - a = f - e - 1 /\ F = 0 /\ e = 0 /\ G = 2 * f * U
  <2> DEFINE m == b - a
  <2>1. (2 * m + 1) * V < (2 * m + 2) * U
    BY <1>3
  <2>2. (2 * a + 2 * k + 1) * V + F - H < (2 * k + 2) * V
    BY <1>3
  <2>3. (2 * m + 1) * ((2 * k + 2) * V) < (2 * k + 2) * ((2 * m + 2) * U)
    <3>1. (2 * k + 2) * ((2 * m + 2) * U - (2 * m + 1) * V) > 0
      BY <2>1, Cancel
    <3> QED BY <3>1
  <2>4. m * (2 * (j + 1) - (2 * k + 1)) > 0
    BY <1>3
  <2>5. 2 * (j + 1) - (2 * k + 1) > 0
    BY <2>4, Cancel
  <2>6. CASE j = k
    <3>1. m > 2 * k + 1
      BY <1>3, <2>6
    <3>2. (2 * m - 2 * k - 1) * U > 0
      BY <3>1, Cancel
    <3>3. (2 * m + 1) * ((2 * k + 3) * U - (2 * k + 2) * V) > 0
      BY <2>3, <3>2
    <3>4. (2 * k + 3) * U - (2 * k + 2) * V > 0
      BY <3>3, Cancel
    <3> QED BY <1>3, <2>2, <2>6, <3>4
  <2>7. CASE j >= k + 1
    <3>1. (6 * m - 2 * k + 1) * U > 0
      BY Cancel
    <3>2. (2 * m + 1) * ((2 * k + 5) * U - (2 * k + 2) * V) > 0
      BY <2>3, <3>1
    <3>3. (2 * k + 5) * U - (2 * k + 2) * V > 0
      BY <3>2, Cancel
    <3>4. (j - (k + 1)) * U >= 0
      BY <2>7, Product
    <3> QED BY <1>3, <2>2, <3>3, <3>4
  <2> QED BY <2>5, <2>6, <2>7
<1> QED BY <1>2, <1>3, CoarseCount

\* So the pixel shown is less than a pixel from what is there.
LEMMA SampleNear ==
    ASSUME NEW U, NEW V, NEW F, NEW G, NEW H, NEW B, NEW e, NEW f, NEW a, NEW b,
           NEW k, NEW j, Sides(U, V, F, G, H, B, e, f, a, b),
           Samples(e, f, a, b, k, j), (2 * (f - e) - 1) * V < B - H
    PROVE  /\ (2 * (e + j) + 1) * U - 2 * U < (2 * a + 2 * k + 1) * V + F - H
           /\ (2 * a + 2 * k + 1) * V + F - H < (2 * (e + j) + 1) * U + 2 * U
<1>1. 2 * (e + j) * U < (2 * a + 2 * k + 1) * V + F - H + U
  <2>1. CASE j = 0
    <3>1. 2 * k * V >= 0
      BY Product DEF Sides, Samples
    <3> QED BY <2>1, <3>1 DEF Sides, Samples
  <2>2. CASE j >= 1 /\ V <= U
    BY <2>2, FineUpper
  <2>3. CASE U < V
    BY <2>3, CoarseUpper
  <2> QED BY <2>1, <2>2, <2>3 DEF Sides, Samples
<1>2. (2 * a + 2 * k + 1) * V + F - H < (2 * (e + j) + 3) * U
  <2>1. CASE j + 1 = f - e
    <3>1. (b - a - k - 1) * V >= 0
      BY Product DEF Sides, Samples
    <3> QED BY <2>1, <3>1 DEF Sides, Samples
  <2>2. CASE j + 1 < f - e /\ V <= U
    BY <2>2, FineLower
  <2>3. CASE j + 1 < f - e /\ U < V
    BY <2>3, CoarseLower
  <2> QED BY <2>1, <2>2, <2>3 DEF Sides, Samples
<1> QED BY <1>1, <1>2 DEF Sides, Samples
-----------------------------------------------------------------------------
\* What a quotient of whole numbers is.
LEMMA Quotient ==
    ASSUME NEW n \in Int, NEW d \in Int, d > 0
    PROVE  n \div d \in Int /\ (n \div d) * d <= n /\ n < (n \div d + 1) * d
OBVIOUS

\* mapped_edge: the pixels before the edge are those whose centre is before
\* the offset.
LEMMA EdgeIs ==
    ASSUME NEW offset \in Nat, NEW screen \in Nat, screen > 0,
           NEW pixels \in Nat, NEW e, e = MappedEdge(offset, screen, pixels)
    PROVE  /\ e \in Nat /\ (2 * e - 1) * screen < 2 * offset * pixels
           /\ 2 * offset * pixels <= (2 * e + 1) * screen
<1> DEFINE n == 2 * offset * pixels - screen
<1>1. n \in Int /\ offset * pixels >= 0
  BY Product
<1>2. CASE offset = 0 \/ n <= 0
  <2>1. e = 0
    BY <1>2 DEF MappedEdge
  <2> QED BY <1>1, <1>2, <2>1
<1>3. CASE ~(offset = 0 \/ n <= 0)
  <2>1. e = (n + 2 * screen - 1) \div (2 * screen)
    BY <1>3 DEF MappedEdge
  <2>2. /\ e \in Int /\ e * (2 * screen) <= n + 2 * screen - 1
        /\ n + 2 * screen - 1 < (e + 1) * (2 * screen)
    <3> HIDE DEF n
    <3> QED BY <1>1, <2>1, Quotient
  <2>3. e >= 0
    <3>1. 2 * screen * (e + 1) > 0
      BY <1>1, <1>3, <2>2
    <3>2. e + 1 > 0
      BY <2>2, <3>1, Cancel
    <3> QED BY <2>2, <3>2
  <2> QED BY <1>1, <2>2, <2>3
<1> QED BY <1>2, <1>3

\* The edge at the end is the end.
LEMMA EdgeOfEnd ==
    ASSUME NEW screen \in Nat, screen > 0, NEW pixels \in Nat
    PROVE  MappedEdge(screen, screen, pixels) = pixels
<1>0. PICK e : e = MappedEdge(screen, screen, pixels)
  OBVIOUS
<1>1. /\ e \in Nat /\ (2 * e - 1) * screen < 2 * screen * pixels
      /\ 2 * screen * pixels <= (2 * e + 1) * screen
  BY <1>0, EdgeIs
<1>2. screen * (2 * pixels - (2 * e - 1)) > 0 /\ screen * (2 * e + 1 - 2 * pixels) >= 0
  BY <1>1
<1>3. 2 * pixels - (2 * e - 1) > 0 /\ 2 * e + 1 - 2 * pixels >= 0
  BY <1>1, <1>2, Cancel
<1>4. e = pixels
  <2>1. pixels - e >= 0 /\ e - pixels >= 0
    BY <1>1, <1>3
  <2> QED BY <1>1, <2>1
<1> QED BY <1>0, <1>4

\* Edges keep their order.
LEMMA EdgeMonotone ==
    ASSUME NEW o \in Nat, NEW o2 \in Nat, o <= o2, NEW screen \in Nat, screen > 0,
           NEW pixels \in Nat
    PROVE  MappedEdge(o, screen, pixels) <= MappedEdge(o2, screen, pixels)
<1>0. PICK e, f : e = MappedEdge(o, screen, pixels) /\ f = MappedEdge(o2, screen, pixels)
  OBVIOUS
<1>1. e \in Nat /\ f \in Nat /\ (2 * e - 1) * screen < 2 * o * pixels
      /\ 2 * o2 * pixels <= (2 * f + 1) * screen
  BY <1>0, EdgeIs
<1>2. (o2 - o) * pixels >= 0
  BY Product
<1>3. screen * (2 * f + 2 - 2 * e) > 0
  BY <1>1, <1>2
<1>4. 2 * f + 2 - 2 * e > 0
  BY <1>1, <1>3, Cancel
<1> QED BY <1>0, <1>1, <1>4

\* A pixel of the picture is past an edge exactly if its centre is past the
\* offset.
LEMMA EdgeDecides ==
    ASSUME NEW offset \in Nat, NEW screen \in Nat, screen > 0, NEW pixels \in Nat,
           NEW c \in Int
    PROVE  MappedEdge(offset, screen, pixels) <= c
             <=> 2 * offset * pixels <= (2 * c + 1) * screen
<1>0. PICK e : e = MappedEdge(offset, screen, pixels)
  OBVIOUS
<1>1. /\ e \in Nat /\ (2 * e - 1) * screen < 2 * offset * pixels
      /\ 2 * offset * pixels <= (2 * e + 1) * screen
  BY <1>0, EdgeIs
<1>2. CASE e <= c
  <2>1. (c - e) * screen >= 0
    BY <1>1, <1>2, Product
  <2> QED BY <1>0, <1>1, <1>2, <2>1
<1>3. CASE e > c
  <2>1. (e - 1 - c) * screen >= 0
    BY <1>1, <1>3, Product
  <2> QED BY <1>0, <1>1, <1>3, <2>1
<1> QED BY <1>1, <1>2, <1>3

\* rounded_ratio rounds down by no more than a half.
LEMMA RatioIs ==
    ASSUME NEW n \in Nat, NEW d \in Nat, d > 0
    PROVE  RoundedRatio(n, d) \in Nat /\ 2 * n - d <= 2 * d * RoundedRatio(n, d)
<1> DEFINE q == n \div d
           r == n % d
<1>1. q \in Nat /\ r \in Nat /\ r < d /\ n = d * q + r
  OBVIOUS
<1>2. CASE r > d \div 2 \/ (r * 2 = d /\ q % 2 = 1)
  <2>1. RoundedRatio(n, d) = q + 1
    BY <1>2 DEF RoundedRatio
  <2> HIDE DEF q, r
  <2> QED BY <1>1, <2>1
<1>3. CASE ~(r > d \div 2 \/ (r * 2 = d /\ q % 2 = 1))
  <2>1. RoundedRatio(n, d) = q
    BY <1>3 DEF RoundedRatio
  <2>2. r <= d \div 2
    BY <1>1, <1>3
  <2>3. 2 * r <= d
    <3> HIDE DEF q, r
    <3> QED BY <1>1, <2>2
  <2> HIDE DEF q, r
  <2> QED BY <1>1, <2>1, <2>3
<1> QED BY <1>2, <1>3

\* Comparing ratios crosswise is transitive.
LEMMA RatioTransitive ==
    ASSUME NEW a \in Nat, NEW b \in Nat, NEW c \in Nat, NEW d \in Nat, NEW e \in Nat,
           NEW f \in Nat, d > 0, a * d <= c * b, c * f <= e * d
    PROVE  a * f <= e * b
<1>1. (c * b - a * d) * f >= 0 /\ (e * d - c * f) * b >= 0
  BY Product
<1>2. d * (e * b - a * f) = (c * b - a * d) * f + (e * d - c * f) * b
  OBVIOUS
<1>3. d * (e * b - a * f) >= 0
  BY <1>1, <1>2
<1>4. e * b - a * f >= 0
  BY <1>3, Cancel
<1> QED BY <1>4

\* Side i is at least as sharp as side j.
Sharper(p, u, i, j) == p[j] * u[i] <= p[i] * u[j]

\* Of finitely many sides one is the sharpest.
LEMMA SharpestExists ==
    ASSUME NEW N \in Nat, NEW p \in [1 .. N -> Nat], NEW u \in [1 .. N -> Nat],
           \A i \in 1 .. N : u[i] > 0, NEW I, I \subseteq 1 .. N, I # {}
    PROVE  \E i \in I : \A j \in I : Sharper(p, u, i, j)
<1>1. \A i, j \in 1 .. N : Sharper(p, u, i, j) \/ Sharper(p, u, j, i)
  <2> TAKE i \in 1 .. N, j \in 1 .. N
  <2>1. p[j] * u[i] \in Int /\ p[i] * u[j] \in Int
    OBVIOUS
  <2> QED BY <2>1 DEF Sharper
<1>2. \A i, j, k \in 1 .. N : Sharper(p, u, i, j) /\ Sharper(p, u, j, k) => Sharper(p, u, i, k)
  <2> SUFFICES ASSUME NEW i \in 1 .. N, NEW j \in 1 .. N, NEW k \in 1 .. N,
                      Sharper(p, u, i, j), Sharper(p, u, j, k)
               PROVE  Sharper(p, u, i, k)
    OBVIOUS
  <2>1. /\ p[i] \in Nat /\ p[j] \in Nat /\ p[k] \in Nat /\ u[i] \in Nat /\ u[j] \in Nat
        /\ u[k] \in Nat /\ u[j] > 0
    OBVIOUS
  <2>2. p[j] * u[i] <= p[i] * u[j] /\ p[k] * u[j] <= p[j] * u[k]
    BY DEF Sharper
  <2>3. p[k] * u[i] <= p[i] * u[k]
    BY <2>1, <2>2, RatioTransitive
  <2> QED BY <2>3 DEF Sharper
<1> DEFINE Upto(n) == I \cap (1 .. n)
           S == {n \in Nat : n <= N => (Upto(n) = {} \/
                   \E i \in Upto(n) : \A j \in Upto(n) : Sharper(p, u, i, j))}
<1>3. 0 \in S
  OBVIOUS
<1>4. ASSUME NEW n \in Nat, n \in S
      PROVE  n + 1 \in S
  <2>0. n + 1 \in Nat
    OBVIOUS
  <2> SUFFICES ASSUME n + 1 <= N
               PROVE  Upto(n + 1) = {} \/ \E i \in Upto(n + 1) : \A j \in Upto(n + 1) :
                         Sharper(p, u, i, j)
    BY <2>0, Zenon
  <2>1. n + 1 \in 1 .. N /\ n <= N
    OBVIOUS
  <2>2. Upto(n + 1) = IF n + 1 \in I THEN Upto(n) \cup {n + 1} ELSE Upto(n)
    OBVIOUS
  <2>3. Upto(n) \subseteq 1 .. N
    OBVIOUS
  <2>4. Upto(n) = {} \/ \E i \in Upto(n) : \A j \in Upto(n) : Sharper(p, u, i, j)
    BY <1>4, <2>1, Zenon
  <2> HIDE DEF Upto
  <2>5. CASE n + 1 \notin I
    BY <2>2, <2>4, <2>5
  <2>6. CASE n + 1 \in I /\ Upto(n) = {}
    BY <1>1, <2>1, <2>2, <2>6
  <2>7. CASE n + 1 \in I /\ Upto(n) # {}
    <3>1. PICK b \in Upto(n) : \A j \in Upto(n) : Sharper(p, u, b, j)
      BY <2>4, <2>7
    <3>2. CASE Sharper(p, u, b, n + 1)
      BY <2>2, <2>7, <3>1, <3>2
    <3>3. CASE Sharper(p, u, n + 1, b)
      <4>1. \A j \in Upto(n) : Sharper(p, u, n + 1, j)
        BY <1>2, <2>1, <2>3, <3>1, <3>3
      <4> QED BY <1>1, <2>1, <2>2, <2>7, <4>1
    <3> QED BY <1>1, <2>1, <2>3, <3>2, <3>3
  <2> QED BY <2>5, <2>6, <2>7
<1>5. N \in S
  <2> HIDE DEF S
  <2> QED BY <1>3, <1>4, SetInduction
<1>6. Upto(N) = I
  OBVIOUS
<1>7. Upto(N) = {} \/ \E i \in Upto(N) : \A j \in Upto(N) : Sharper(p, u, i, j)
  BY <1>5
<1> HIDE DEF Upto
<1> QED BY <1>6, <1>7
-----------------------------------------------------------------------------
\* A size scaled by a ratio p / u of at least one: a whole number, no smaller
\* than the size, and no coarser than a side that is less sharp.
LEMMA ScaleWhole ==
    ASSUME NEW L \in Nat, NEW p \in Nat, NEW u \in Nat, NEW P \in Nat, p <= u, L <= P
    PROVE  2 * L * p - u <= 2 * u * P
<1>1. L * (u - p) >= 0 /\ u * (P - L) >= 0
  BY Product
<1> QED BY <1>1

LEMMA ScaleGrows ==
    ASSUME NEW L \in Nat, NEW p \in Nat, NEW u \in Nat, NEW P \in Nat, L > 0, u > 0, p > u,
           2 * (L * p) - u <= 2 * u * P
    PROVE  L <= P
<1>1. L * (p - u) > 0
  BY Cancel
<1>2. u * (2 * P + 1 - 2 * L) > 0
  BY <1>1
<1>3. 2 * P + 1 - 2 * L > 0
  BY <1>2, Cancel
<1> QED BY <1>3

LEMMA ScaleSharpest ==
    ASSUME NEW L \in Nat, NEW p \in Nat, NEW u \in Nat, NEW P \in Nat, NEW pb \in Nat,
           NEW ub \in Nat, ub > 0, p * ub <= pb * u, 2 * (L * pb) - ub <= 2 * ub * P
    PROVE  2 * L * p - u <= 2 * u * P
<1>1. L * (pb * u - p * ub) >= 0 /\ u * (2 * ub * P - 2 * (L * pb) + ub) >= 0
  BY Product
<1>2. ub * (2 * u * P - 2 * L * p + u) >= 0
  BY <1>1
<1>3. 2 * u * P - 2 * L * p + u >= 0
  BY <1>2, Cancel
<1> QED BY <1>3

\* compose_capture's scale: no segment has more pixels than the picture has
\* for its part, but for the rounding of the picture's size.
LEMMA ScaledIs ==
    ASSUME NEW length \in Nat, length > 0, NEW N \in Nat,
           NEW sides \in [1 .. N -> [pixels: Nat, units: Lengths]],
           NEW P, P = Scaled(length, sides)
    PROVE  /\ P \in Nat
           /\ \A i \in 1 .. N :
                2 * length * sides[i].pixels - sides[i].units <= 2 * sides[i].units * P
<1> DEFINE I == {i \in DOMAIN sides : sides[i].pixels > sides[i].units}
           best == CHOOSE i \in I : \A j \in I :
                      sides[j].pixels * sides[i].units <= sides[i].pixels * sides[j].units
<1>1. P = IF I = {} THEN length ELSE RoundedRatio(length * sides[best].pixels, sides[best].units)
  BY DEF Scaled
<1>2. \A i \in 1 .. N : sides[i].pixels \in Nat /\ sides[i].units \in Nat /\ sides[i].units > 0
  BY DEF Lengths
<1>3. length \in Nat /\ length > 0
  OBVIOUS
<1>4. CASE I = {}
  <2>1. ASSUME NEW i \in 1 .. N
        PROVE  2 * length * sides[i].pixels - sides[i].units <= 2 * sides[i].units * length
    <3>1. PICK p \in Nat, u \in Nat : p = sides[i].pixels /\ u = sides[i].units /\ u > 0
      BY <1>2
    <3>2. p <= u
      BY <1>4, <3>1
    <3>4. 2 * length * p - u <= 2 * u * length
      <4>1. length <= length
        BY <1>3
      <4> QED BY <1>3, <3>2, <4>1, ScaleWhole, Zenon
    <3> QED BY <3>1, <3>4
  <2> QED BY <1>1, <1>3, <1>4, <2>1
<1>5. CASE I # {}
  <2> DEFINE pp == [i \in 1 .. N |-> sides[i].pixels]
             uu == [i \in 1 .. N |-> sides[i].units]
  <2>1. pp \in [1 .. N -> Nat] /\ uu \in [1 .. N -> Nat] /\ \A i \in 1 .. N : uu[i] > 0
    BY <1>2
  <2>2. I \subseteq 1 .. N
    OBVIOUS
  <2>3. PICK b \in I : \A j \in I : Sharper(pp, uu, b, j)
    <3> HIDE DEF pp, uu, I
    <3> QED BY <1>5, <2>1, <2>2, SharpestExists
  <2>4. \A j \in I : sides[j].pixels * sides[b].units <= sides[b].pixels * sides[j].units
    BY <2>2, <2>3 DEF Sharper
  <2>5. best \in I /\ \A j \in I :
           sides[j].pixels * sides[best].units <= sides[best].pixels * sides[j].units
    <3> HIDE DEF I
    <3> QED BY <2>4, Zenon
  <2> HIDE DEF best, I
  <2>6. PICK pb \in Nat, ub \in Nat : pb = sides[best].pixels /\ ub = sides[best].units
    BY <1>2, <2>2, <2>5
  <2>7. ub > 0 /\ pb > ub
    BY <1>2, <2>2, <2>5, <2>6 DEF I
  <2>8. length * pb \in Nat
    BY <1>3, Product
  <2>9. P \in Nat /\ 2 * (length * pb) - ub <= 2 * ub * P
    BY <1>1, <1>5, <2>6, <2>7, <2>8, RatioIs
  <2>10. P >= length
    BY <1>3, <2>7, <2>9, ScaleGrows
  <2>11. ASSUME NEW i \in 1 .. N
         PROVE  2 * length * sides[i].pixels - sides[i].units <= 2 * sides[i].units * P
    <3>1. PICK p \in Nat, u \in Nat : p = sides[i].pixels /\ u = sides[i].units /\ u > 0
      BY <1>2
    <3>2. CASE i \in I
      <4>1. p * ub <= pb * u
        BY <2>5, <2>6, <3>1, <3>2
      <4>6. 2 * length * p - u <= 2 * u * P
        BY <1>3, <2>7, <2>9, <4>1, ScaleSharpest
      <4> QED BY <3>1, <4>6
    <3>3. CASE i \notin I
      <4>1. p <= u
        BY <3>1, <3>3 DEF I
      <4>3. 2 * length * p - u <= 2 * u * P
        BY <1>3, <2>9, <2>10, <4>1, ScaleWhole
      <4> QED BY <3>1, <4>3
    <3> QED BY <3>2, <3>3
  <2> QED BY <2>9, <2>11
<1> QED BY <1>4, <1>5
-----------------------------------------------------------------------------
\* An edge of the output in units of the picture's pixels, and the reverse.
LEMMA EdgeScaled ==
    ASSUME NEW o \in Nat, NEW s \in Nat, NEW p \in Nat, NEW e \in Nat, NEW t \in Nat, t > 0,
           (2 * e - 1) * s < 2 * o * p, 2 * o * p <= (2 * e + 1) * s
    PROVE  (2 * e - 1) * (s * t) < 2 * o * p * t /\ 2 * o * p * t <= (2 * e + 1) * (s * t)
<1>1. t * (2 * o * p - (2 * e - 1) * s) > 0 /\ t * ((2 * e + 1) * s - 2 * o * p) >= 0
  BY Cancel, Product
<1> QED BY <1>1

\* The edges of a part in the output and in the picture are related as Sides
\* says.
LEMMA PartEdges ==
    ASSUME NEW d \in Nat, NEW n \in Nat, NEW w \in Nat, NEW p \in Nat, NEW o \in Nat,
           NEW L \in Nat, NEW P \in Nat, n > 0, w > 0, p > 0, L > 0, P > 0,
           d + n <= w, o + n <= L, d = 0 \/ o = 0, d + n = w \/ o + n = L,
           NEW e, NEW f, NEW a, NEW b,
           e = MappedEdge(d, w, p), f = MappedEdge(d + n, w, p),
           a = MappedEdge(o, L, P), b = MappedEdge(o + n, L, P), e < f
    PROVE  Sides(w * P, L * p, 2 * d * p * P, 2 * (d + n) * p * P,
                 2 * o * P * p, 2 * (o + n) * P * p, e, f, a, b)
<1>1. d + n \in Nat /\ o + n \in Nat
  OBVIOUS
<1>2. /\ e \in Nat /\ (2 * e - 1) * w < 2 * d * p /\ 2 * d * p <= (2 * e + 1) * w
      /\ f \in Nat /\ (2 * f - 1) * w < 2 * (d + n) * p /\ 2 * (d + n) * p <= (2 * f + 1) * w
  BY <1>1, EdgeIs
<1>3. /\ a \in Nat /\ (2 * a - 1) * L < 2 * o * P /\ 2 * o * P <= (2 * a + 1) * L
      /\ b \in Nat /\ (2 * b - 1) * L < 2 * (o + n) * P /\ 2 * (o + n) * P <= (2 * b + 1) * L
  BY <1>1, EdgeIs
<1>4. /\ (2 * e - 1) * (w * P) < 2 * d * p * P
      /\ 2 * d * p * P <= (2 * e + 1) * (w * P)
  BY <1>2, EdgeScaled
<1>5. /\ (2 * f - 1) * (w * P) < 2 * (d + n) * p * P
      /\ 2 * (d + n) * p * P <= (2 * f + 1) * (w * P)
  BY <1>1, <1>2, EdgeScaled
<1>6. /\ (2 * a - 1) * (L * p) < 2 * o * P * p
      /\ 2 * o * P * p <= (2 * a + 1) * (L * p)
  BY <1>3, EdgeScaled
<1>7. /\ (2 * b - 1) * (L * p) < 2 * (o + n) * P * p
      /\ 2 * (o + n) * P * p <= (2 * b + 1) * (L * p)
  BY <1>1, <1>3, EdgeScaled
<1>8. w * P \in Int /\ L * p \in Int /\ w * P > 0 /\ L * p > 0
  BY Cancel
<1>9. (2 * d * p * P = 0 /\ e = 0) \/ (2 * o * P * p = 0 /\ a = 0)
  <2>1. d = 0 => e = 0
    BY DEF MappedEdge
  <2>2. o = 0 => a = 0
    BY DEF MappedEdge
  <2> QED BY <2>1, <2>2
<1>10. 2 * (d + n) * p * P = 2 * f * (w * P) \/ 2 * (o + n) * P * p = 2 * b * (L * p)
  <2>1. CASE d + n = w
    <3>1. f = p
      BY <2>1, EdgeOfEnd
    <3> QED BY <2>1, <3>1
  <2>2. CASE o + n = L
    <3>1. b = P
      BY <2>2, EdgeOfEnd
    <3>2. 2 * L * P * p = 2 * P * (L * p)
      OBVIOUS
    <3> QED BY <2>2, <3>1, <3>2, Zenon
  <2> QED BY <2>1, <2>2
<1>11. 2 * (d + n) * p * P - 2 * d * p * P = 2 * (o + n) * P * p - 2 * o * P * p
  OBVIOUS
<1>12. /\ 2 * d * p * P \in Int /\ 2 * (d + n) * p * P \in Int
       /\ 2 * o * P * p \in Int /\ 2 * (o + n) * P * p \in Int
  OBVIOUS
<1>13. e \in Int /\ f \in Int /\ a \in Int /\ b \in Int
  BY <1>2, <1>3
<1> QED BY <1>4, <1>5, <1>6, <1>7, <1>8, <1>9, <1>10, <1>11, <1>12, <1>13, Zenon DEF Sides

\* The picture has the pixels that a segment of n of its L units has, but for
\* half a pixel.
Fits(L, count, n, P) == 2 * L * count - n <= 2 * n * P

\* Such a part is short of the output's pixels by rounding only.
LEMMA PartFits ==
    ASSUME NEW n \in Nat, NEW p \in Nat, NEW o \in Nat, NEW L \in Nat, NEW P \in Nat,
           NEW c \in Nat, n > 0, p > 0, n <= L, 2 * L * c - n <= 2 * n * P
    PROVE  (2 * c - 1) * (L * p) < 2 * (o + n) * P * p - 2 * o * P * p
<1>1. (2 * c - 1) * L < 2 * n * P
  <2>1. CASE n < L
    BY <2>1
  <2>2. CASE n = L
    <3>1. L * (2 * P + 1 - 2 * c) >= 0
      BY <2>2
    <3>2. 2 * P + 1 - 2 * c >= 0
      BY <2>2, <3>1, Cancel
    <3>3. L * (2 * P + 1 - 2 * c) > 0
      BY <2>2, <3>2, Cancel
    <3> QED BY <2>2, <3>3
  <2> QED BY <2>1, <2>2
<1>2. p * (2 * n * P - (2 * c - 1) * L) > 0
  BY <1>1, Cancel
<1> QED BY <1>2

\* compose_segment reads within the segment.
LEMMA SampleIs ==
    ASSUME NEW e \in Nat, NEW f \in Nat, NEW a \in Nat, NEW b \in Nat, NEW c \in Nat,
           e < f, a <= c, c < b, NEW j, j = Sample(0, c - a, f - e, b - a)
    PROVE  Samples(e, f, a, b, c - a, j)
<1>1. PICK k \in Int : k = c - a /\ 0 <= k /\ k < b - a
  OBVIOUS
<1>2. PICK m \in Int, g \in Int : m = b - a /\ g = f - e /\ m > 0 /\ g > 0
  OBVIOUS
<1>3. j = ((2 * k + 1) * g) \div (2 * m)
  BY <1>1, <1>2 DEF Sample
<1>4. j \in Int /\ j * (2 * m) <= (2 * k + 1) * g /\ (2 * k + 1) * g < (j + 1) * (2 * m)
  BY <1>1, <1>2, <1>3, Quotient
<1>5. j >= 0
  <2>1. (2 * k + 1) * g > 0
    BY <1>1, <1>2, Cancel
  <2>2. 2 * m * (j + 1) > 0
    BY <1>2, <1>4, <2>1
  <2>3. j + 1 > 0
    BY <1>2, <1>4, <2>2, Cancel
  <2> QED BY <1>4, <2>3
<1>6. j < g
  <2>1. (2 * m - (2 * k + 1)) * g > 0
    BY <1>1, <1>2, Cancel
  <2>2. 2 * m * (g - j) > 0
    BY <1>1, <1>2, <1>4, <2>1
  <2>3. g - j > 0
    BY <1>2, <1>4, <2>2, Cancel
  <2> QED BY <1>2, <1>4, <2>3
<1>7. 2 * m * j <= (2 * k + 1) * g /\ (2 * k + 1) * g < 2 * m * (j + 1)
  BY <1>1, <1>2, <1>4
<1> QED BY <1>1, <1>2, <1>4, <1>5, <1>6, <1>7 DEF Samples

\* Along one side, n units that are the output's from d on and the area's from
\* o on, a column c of the picture there, and the pixel j read for it.
SideOf(area0, start, d, o, n, w, p, L, P, e, f, a, b, c, j) ==
    /\ area0 \in Int /\ start \in Int /\ d \in Nat /\ o \in Nat /\ area0 + o = start + d
    /\ w \in Nat /\ p \in Nat /\ L \in Nat /\ P \in Nat /\ w > 0 /\ p > 0 /\ L > 0 /\ P > 0
    /\ n \in Nat /\ n > 0 /\ d + n <= w /\ o + n <= L
    /\ (d = 0 \/ o = 0) /\ (d + n = w \/ o + n = L)
    /\ e = MappedEdge(d, w, p) /\ f = MappedEdge(d + n, w, p) /\ e < f
    /\ a = MappedEdge(o, L, P) /\ b = MappedEdge(o + n, L, P) /\ Fits(L, f - e, n, P)
    /\ c \in Nat /\ a <= c /\ c < b /\ j = Sample(0, c - a, f - e, b - a)

\* The pixel read is less than a pixel away from the centre of the column.
LEMMA SideNear ==
    ASSUME NEW area0, NEW start, NEW d, NEW o, NEW n, NEW w, NEW p, NEW L, NEW P,
           NEW e, NEW f, NEW a, NEW b, NEW c, NEW j,
           SideOf(area0, start, d, o, n, w, p, L, P, e, f, a, b, c, j)
    PROVE  /\ e \in Nat /\ f \in Nat /\ j \in Nat /\ j < f - e /\ f <= p
           /\ CentreNear(c, area0, L, P, start, w, p, e + j)
<1>0. /\ area0 \in Int /\ start \in Int /\ d \in Nat /\ o \in Nat /\ area0 + o = start + d
      /\ w \in Nat /\ p \in Nat /\ L \in Nat /\ P \in Nat /\ w > 0 /\ p > 0 /\ L > 0 /\ P > 0
      /\ n \in Nat /\ n > 0 /\ c \in Nat
  BY DEF SideOf
<1>2. /\ d + n <= w /\ o + n <= L /\ (d = 0 \/ o = 0) /\ (d + n = w \/ o + n = L)
      /\ d + n \in Nat /\ o + n \in Nat
  BY DEF SideOf
<1>3. e = MappedEdge(d, w, p) /\ f = MappedEdge(d + n, w, p)
  BY DEF SideOf
<1>4. a = MappedEdge(o, L, P) /\ b = MappedEdge(o + n, L, P)
  BY DEF SideOf
<1>5. e \in Nat /\ f \in Nat /\ a \in Nat /\ b \in Nat
  BY <1>0, <1>2, <1>3, <1>4, EdgeIs
<1>6. f <= p
  <2>1. f <= MappedEdge(w, w, p)
    BY <1>0, <1>2, <1>3, EdgeMonotone
  <2> QED BY <1>0, <2>1, EdgeOfEnd
<1>7. Sides(w * P, L * p, 2 * d * p * P, 2 * (d + n) * p * P,
            2 * o * P * p, 2 * (o + n) * P * p, e, f, a, b)
  <2>1. e < f
    BY DEF SideOf
  <2> QED BY <1>0, <1>2, <1>3, <1>4, <2>1, PartEdges
<1>8. Samples(e, f, a, b, c - a, j)
  <2>1. e < f /\ a <= c /\ c < b /\ j = Sample(0, c - a, f - e, b - a)
    BY DEF SideOf
  <2> QED BY <1>0, <1>5, <2>1, SampleIs
<1>9. (2 * (f - e) - 1) * (L * p) < 2 * (o + n) * P * p - 2 * o * P * p
  <2>1. f - e \in Nat /\ n <= L
    BY <1>0, <1>2, <1>5 DEF SideOf
  <2>2. 2 * L * (f - e) - n <= 2 * n * P
    BY DEF SideOf, Fits
  <2> QED BY <1>0, <2>1, <2>2, PartFits
<1>10. /\ (2 * (e + j) + 1) * (w * P) - 2 * (w * P)
            < (2 * a + 2 * (c - a) + 1) * (L * p) + 2 * d * p * P - 2 * o * P * p
       /\ (2 * a + 2 * (c - a) + 1) * (L * p) + 2 * d * p * P - 2 * o * P * p
            < (2 * (e + j) + 1) * (w * P) + 2 * (w * P)
  BY <1>7, <1>8, <1>9, SampleNear, Zenon
<1>11. j \in Nat /\ j < f - e
  BY <1>5, <1>8 DEF Samples
<1>12. CentreNear(c, area0, L, P, start, w, p, e + j)
  <2>1. PICK q \in Int : q = e + j
    BY <1>5, <1>11
  <2>2. ((2 * c + 1) * L + 2 * P * (area0 - start)) * p
          = (2 * a + 2 * (c - a) + 1) * (L * p) + 2 * d * p * P - 2 * o * P * p
    <3>1. area0 - start = d - o /\ 2 * a + 2 * (c - a) + 1 = 2 * c + 1
      BY <1>0, <1>5
    <3>2. ((2 * c + 1) * L + 2 * P * (d - o)) * p
            = (2 * c + 1) * (L * p) + 2 * d * p * P - 2 * o * P * p
      BY <1>0
    <3> QED BY <3>1, <3>2
  <2>3. /\ (2 * q + 1) * P * w = (2 * q + 1) * (w * P) /\ 2 * P * w = 2 * (w * P)
    BY <1>0
  <2> QED BY <1>10, <2>1, <2>2, <2>3 DEF CentreNear, Centre
<1> QED BY <1>5, <1>6, <1>11, <1>12

\* The clipping in compose_segment does nothing to a part of the area.
LEMMA FilledIs ==
    ASSUME NEW offset \in Nat, NEW length \in Nat, NEW L \in Nat, NEW P \in Nat, L > 0,
           offset + length <= L
    PROVE  Filled(offset, length, L, P) =
             [first |-> MappedEdge(offset, L, P), end |-> MappedEdge(offset + length, L, P)]
<1>1. PICK a, b : a = MappedEdge(offset, L, P) /\ b = MappedEdge(offset + length, L, P)
  OBVIOUS
<1>2. offset + length \in Nat /\ offset <= L
  OBVIOUS
<1>3. a \in Nat /\ b \in Nat
  BY <1>1, <1>2, EdgeIs
<1>4. a <= P /\ b <= P
  <2>1. a <= MappedEdge(L, L, P) /\ b <= MappedEdge(L, L, P)
    BY <1>1, <1>2, EdgeMonotone
  <2> QED BY <2>1, EdgeOfEnd
<1>5. MinOf(a, P) = a /\ MinOf(b, P) = b
  BY <1>3, <1>4 DEF MinOf
<1> QED BY <1>1, <1>5 DEF Filled

\* The columns filled from an output are those whose centre is on it.
LEMMA SideOn ==
    ASSUME NEW area0 \in Int, NEW start \in Int, NEW w \in Nat, NEW L \in Nat, NEW P \in Nat,
           w > 0, L > 0, NEW c \in Nat, c < P, NEW left, NEW right,
           left = MaxOf(area0, start), right = MinOf(area0 + L, start + w)
    PROVE  CentreOn(c, area0, L, P, start, w) <=>
             /\ right - left > 0
             /\ MappedEdge(left - area0, L, P) <= c
             /\ c < MappedEdge(left - area0 + (right - left), L, P)
<1>1. /\ left \in Int /\ right \in Int /\ area0 <= left /\ start <= left
      /\ right <= area0 + L /\ right <= start + w /\ (left = area0 \/ left = start)
      /\ (right = area0 + L \/ right = start + w)
  BY DEF MaxOf, MinOf
<1>2. PICK o \in Nat : o = left - area0
  BY <1>1
<1>3. PICK t \in Int : t = (2 * c + 1) * L
  OBVIOUS
<1>4. 0 < t /\ t < 2 * P * L
  <2>1. (2 * c + 1) * L > 0 /\ (2 * P - 2 * c - 1) * L > 0
    BY Cancel
  <2> QED BY <1>3, <2>1
<1>5. CentreOn(c, area0, L, P, start, w) <=>
        2 * P * start <= t + 2 * P * area0 /\ t + 2 * P * area0 < 2 * P * (start + w)
  BY <1>3 DEF CentreOn, Centre
<1>6. CentreOn(c, area0, L, P, start, w) <=>
        2 * P * left <= t + 2 * P * area0 /\ t + 2 * P * area0 < 2 * P * right
  <2>1. 2 * P * area0 <= t + 2 * P * area0 /\ t + 2 * P * area0 < 2 * P * (area0 + L)
    BY <1>4
  <2>2. /\ 2 * P * (left - start) >= 0 /\ 2 * P * (left - area0) >= 0
        /\ 2 * P * (start + w - right) >= 0 /\ 2 * P * (area0 + L - right) >= 0
    <3>1. /\ left - start \in Int /\ left - area0 \in Int /\ start + w - right \in Int
          /\ area0 + L - right \in Int
      BY <1>1
    <3>2. /\ P * (left - start) >= 0 /\ P * (left - area0) >= 0
          /\ P * (start + w - right) >= 0 /\ P * (area0 + L - right) >= 0
      BY <1>1, <3>1, Product
    <3> QED BY <1>1, <3>2
  <2>3. 2 * P * left >= 2 * P * start /\ 2 * P * (start + w) >= 2 * P * right
    BY <1>1, <2>2
  <2>4. CASE 2 * P * left <= t + 2 * P * area0 /\ t + 2 * P * area0 < 2 * P * right
    BY <1>1, <1>5, <2>3, <2>4
  <2>5. CASE 2 * P * start <= t + 2 * P * area0 /\ t + 2 * P * area0 < 2 * P * (start + w)
    BY <1>1, <1>5, <2>1, <2>5
  <2> QED BY <1>5, <2>4, <2>5
<1>7. 2 * P * left <= t + 2 * P * area0 <=> 2 * o * P <= t
  BY <1>1, <1>2
<1>8. 2 * o * P <= t <=> MappedEdge(o, L, P) <= c
  BY <1>3, EdgeDecides
<1>9. CASE right - left > 0
  <2>1. PICK x \in Nat : x = o + (right - left)
    BY <1>1, <1>2, <1>9
  <2>2. t + 2 * P * area0 < 2 * P * right <=> t < 2 * x * P
    BY <1>1, <1>2, <2>1
  <2>3. 2 * x * P <= t <=> MappedEdge(x, L, P) <= c
    BY <1>3, EdgeDecides
  <2>4. MappedEdge(x, L, P) \in Nat
    BY EdgeIs
  <2>5. t < 2 * x * P <=> c < MappedEdge(x, L, P)
    BY <2>3, <2>4
  <2> QED BY <1>2, <1>6, <1>7, <1>8, <1>9, <2>1, <2>2, <2>5
<1>10. CASE ~(right - left > 0)
  <2>1. P * (left - right) >= 0
    BY <1>1, <1>10, Product
  <2> QED BY <1>1, <1>6, <1>10, <2>1
<1> QED BY <1>9, <1>10

\* inverse_transform undoes what the compositor does, for every orientation
\* and every size.
LEMMA Oriented ==
    ASSUME NEW x \in Int, NEW y \in Int, NEW w \in Nat, NEW h \in Nat, NEW t \in 0 .. 7,
           0 <= x, 0 <= y, x < (IF Turned(t) THEN h ELSE w), y < (IF Turned(t) THEN w ELSE h)
    PROVE  \E u \in 0 .. w - 1, v \in 0 .. h - 1 :
             /\ InverseTransform(x, y, w, h, t) = <<u, v>>
             /\ Placed(x, y, IF Turned(t) THEN h ELSE w, IF Turned(t) THEN w ELSE h, t)
                  = <<u, v>>
<1> USE DEF InverseTransform, Placed, QuarterTurned, Turned
<1>0. CASE t = 0
  BY <1>0
<1>1. CASE t = 1
  BY <1>1
<1>2. CASE t = 2
  BY <1>2
<1>3. CASE t = 3
  BY <1>3
<1>4. CASE t = 4
  BY <1>4
<1>5. CASE t = 5
  BY <1>5
<1>6. CASE t = 6
  BY <1>6
<1>7. CASE t = 7
  BY <1>7
<1> HIDE DEF InverseTransform, Placed, QuarterTurned, Turned
<1> QED BY <1>0, <1>1, <1>2, <1>3, <1>4, <1>5, <1>6, <1>7

\* The pixel that the compositor put in a place: no two are in one.
Seen(at, w, h, t) ==
    CASE t = 0 -> <<at[1], at[2]>>
      [] t = 1 -> <<w - 1 - at[2], at[1]>>
      [] t = 2 -> <<w - 1 - at[1], h - 1 - at[2]>>
      [] t = 3 -> <<at[2], h - 1 - at[1]>>
      [] t = 4 -> <<w - 1 - at[1], at[2]>>
      [] t = 5 -> <<at[2], at[1]>>
      [] t = 6 -> <<at[1], h - 1 - at[2]>>
      [] t = 7 -> <<w - 1 - at[2], h - 1 - at[1]>>

\* So what the buffer shows at the place read is what was to be shown.
LEMMA PlacedOnce ==
    ASSUME NEW x \in Int, NEW y \in Int, NEW w \in Nat, NEW h \in Nat, NEW t \in 0 .. 7
    PROVE  Seen(Placed(x, y, w, h, t), w, h, t) = <<x, y>>
<1> USE DEF Placed, QuarterTurned, Seen
<1>0. CASE t = 0
  BY <1>0
<1>1. CASE t = 1
  BY <1>1
<1>2. CASE t = 2
  BY <1>2
<1>3. CASE t = 3
  BY <1>3
<1>4. CASE t = 4
  BY <1>4
<1>5. CASE t = 5
  BY <1>5
<1>6. CASE t = 6
  BY <1>6
<1>7. CASE t = 7
  BY <1>7
<1> HIDE DEF Placed, QuarterTurned, Seen
<1> QED BY <1>0, <1>1, <1>2, <1>3, <1>4, <1>5, <1>6, <1>7

\* Along one side, the n units from `left' on that the area and the output
\* have in common; they have none if n is not positive.
Overlap(area0, L, start, w, left, n) ==
    /\ area0 \in Int /\ start \in Int /\ w \in Nat /\ L \in Nat /\ w > 0 /\ L > 0
    /\ left \in Int /\ n \in Int
    /\ left = MaxOf(area0, start) /\ n = MinOf(area0 + L, start + w) - left

\* A column c that compose_segment fills from there.
Column(area0, L, start, w, p, P, left, n, crop, fill, c) ==
    /\ Overlap(area0, L, start, w, left, n) /\ n > 0
    /\ p \in Nat /\ p > 0 /\ P \in Nat
    /\ crop = Crop(left - start, n, w, p) /\ crop.count > 0 /\ Fits(L, crop.count, n, P)
    /\ fill = Filled(left - area0, n, L, P)
    /\ c \in Nat /\ c < P /\ fill.first <= c /\ c < fill.end

\* Such a column's centre is on the output, and the pixel read is near it.
LEMMA SideCopied ==
    ASSUME NEW area0, NEW L, NEW start, NEW w, NEW p, NEW P, NEW left, NEW n,
           NEW crop, NEW fill, NEW c,
           Column(area0, L, start, w, p, P, left, n, crop, fill, c)
    PROVE  /\ crop.first \in Nat /\ crop.count \in Nat /\ crop.first + crop.count <= p
           /\ CentreOn(c, area0, L, P, start, w)
           /\ \E j \in Nat :
                /\ j < crop.count /\ CentreNear(c, area0, L, P, start, w, p, crop.first + j)
                /\ \A source \in Int :
                     Sample(source, c - fill.first, crop.count, fill.end - fill.first)
                       = source + j
<1>0. /\ area0 \in Int /\ start \in Int /\ w \in Nat /\ p \in Nat /\ L \in Nat /\ P \in Nat
      /\ w > 0 /\ p > 0 /\ L > 0 /\ left \in Int /\ n \in Nat /\ n > 0
      /\ left = MaxOf(area0, start) /\ n = MinOf(area0 + L, start + w) - left /\ c \in Nat /\ c < P
  BY DEF Column, Overlap
<1>1. PICK right \in Int : right = MinOf(area0 + L, start + w)
  BY <1>0 DEF MinOf
<1>2. /\ left \in Int /\ area0 <= left /\ start <= left
      /\ left + n <= area0 + L /\ left + n <= start + w /\ (left = area0 \/ left = start)
      /\ (left + n = area0 + L \/ left + n = start + w)
      /\ n = right - left /\ n \in Nat
  BY <1>0, <1>1 DEF MaxOf, MinOf
<1>3. PICK e, f : e = MappedEdge(left - start, w, p) /\ f = MappedEdge(left - start + n, w, p)
  OBVIOUS
<1>4. PICK a, b : a = MappedEdge(left - area0, L, P) /\ b = MappedEdge(left - area0 + n, L, P)
  OBVIOUS
<1>5. /\ left - start \in Nat /\ left - start + n \in Nat /\ left - area0 \in Nat
      /\ left - area0 + n \in Nat /\ left - area0 + n <= L
  BY <1>0, <1>2
<1>6. e \in Nat /\ f \in Nat /\ a \in Nat /\ b \in Nat
  BY <1>0, <1>3, <1>4, <1>5, EdgeIs
<1>7. crop = [first |-> e, count |-> f - e]
  BY <1>3 DEF Column, Crop
<1>8. fill = [first |-> a, end |-> b]
  <2>1. PICK o \in Nat : o = left - area0 /\ o + n <= L
    BY <1>5
  <2>2. Filled(o, n, L, P) = [first |-> MappedEdge(o, L, P), end |-> MappedEdge(o + n, L, P)]
    <3>1. o \in Nat /\ n \in Nat /\ L \in Nat /\ P \in Nat /\ L > 0 /\ o + n <= L
      BY <1>0, <2>1
    <3> QED BY ONLY <3>1, FilledIs
  <2> QED BY <1>4, <2>1, <2>2, Zenon DEF Column
<1>9. /\ crop.first = e /\ crop.count = f - e /\ e < f /\ fill.first = a /\ fill.end = b
      /\ a <= c /\ c < b
  BY <1>6, <1>7, <1>8 DEF Column
<1>10. PICK j : j = Sample(0, c - a, f - e, b - a)
  OBVIOUS
<1>11. Fits(L, f - e, n, P)
  BY <1>9, Zenon DEF Column
<1>12. P > 0
  BY <1>0
<1>13. /\ j \in Nat /\ j < f - e /\ f <= p /\ CentreNear(c, area0, L, P, start, w, p, e + j)
  <2>1. PICK d \in Nat, o \in Nat : d = left - start /\ o = left - area0
    BY <1>5
  <2>2. area0 + o = start + d
    BY <1>0, <2>1
  <2>3. d + n <= w /\ o + n <= L
    BY ONLY <1>0, <1>2, <2>1
  <2>4. (d = 0 \/ o = 0) /\ (d + n = w \/ o + n = L)
    BY ONLY <1>0, <1>2, <2>1
  <2>5. /\ e = MappedEdge(d, w, p) /\ f = MappedEdge(d + n, w, p)
        /\ a = MappedEdge(o, L, P) /\ b = MappedEdge(o + n, L, P)
    BY <1>3, <1>4, <2>1, Zenon
  <2>6. SideOf(area0, start, d, o, n, w, p, L, P, e, f, a, b, c, j)
    BY <1>0, <1>9, <1>10, <1>11, <1>12, <2>2, <2>3, <2>4, <2>5, Zenon DEF SideOf
  <2> QED BY <2>6, SideNear
<1>14. CentreOn(c, area0, L, P, start, w)
  <2>1. left - area0 + (right - left) = left - area0 + n
    BY <1>2
  <2> QED BY <1>0, <1>1, <1>2, <1>4, <1>9, <2>1, SideOn
<1>15. ASSUME NEW source \in Int
       PROVE  Sample(source, c - fill.first, crop.count, fill.end - fill.first) = source + j
  <2>1. PICK y : y = ((2 * (c - a) + 1) * (f - e)) \div (2 * (b - a))
    OBVIOUS
  <2>2. j = 0 + y
    BY <1>10, <2>1 DEF Sample
  <2>3. (2 * (c - a) + 1) * (f - e) \in Int /\ 2 * (b - a) \in Int /\ 2 * (b - a) > 0
    BY <1>0, <1>6, <1>9
  <2>4. y \in Int
    BY <2>1, <2>3, Quotient
  <2>5. j = y
    BY <2>2, <2>4
  <2> QED BY <1>9, <2>1, <2>5 DEF Sample
<1>16. crop.first + crop.count <= p
  BY <1>0, <1>6, <1>9, <1>13
<1> QED BY <1>6, <1>9, <1>13, <1>14, <1>15, <1>16

\* And the reverse: a column whose centre is on the output is filled.
LEMMA SideFilled ==
    ASSUME NEW area0, NEW L, NEW start, NEW w, NEW left, NEW n, NEW P \in Nat, NEW c \in Nat,
           Overlap(area0, L, start, w, left, n), c < P, CentreOn(c, area0, L, P, start, w)
    PROVE  /\ n > 0
           /\ Filled(left - area0, n, L, P).first <= c
           /\ c < Filled(left - area0, n, L, P).end
<1>0. /\ area0 \in Int /\ start \in Int /\ w \in Nat /\ L \in Nat /\ w > 0 /\ L > 0
      /\ left \in Int /\ n \in Int
      /\ left = MaxOf(area0, start) /\ n = MinOf(area0 + L, start + w) - left
  BY DEF Overlap
<1>1. PICK right \in Int : right = MinOf(area0 + L, start + w)
  BY <1>0 DEF MinOf
<1>2. left \in Int /\ area0 <= left /\ right <= area0 + L /\ n = right - left
  BY <1>0, <1>1 DEF MaxOf, MinOf
<1>3. /\ right - left > 0 /\ MappedEdge(left - area0, L, P) <= c
      /\ c < MappedEdge(left - area0 + (right - left), L, P)
  BY <1>0, <1>1, SideOn
<1>4. left - area0 \in Nat /\ n \in Nat /\ left - area0 + n <= L
  BY <1>0, <1>2, <1>3
<1>5. Filled(left - area0, n, L, P) =
        [first |-> MappedEdge(left - area0, L, P), end |-> MappedEdge(left - area0 + n, L, P)]
  BY <1>0, <1>4, FilledIs
<1> QED BY <1>2, <1>3, <1>5

\* What is read is what the compositor put there.
LEMMA ReadBack ==
    ASSUME NEW s, s.bufferW \in Nat, s.bufferH \in Nat, s.transform \in 0 .. 7,
           s.sent = s.transform,
           s.inverted \in BOOLEAN, NEW x \in Int, NEW y \in Int, 0 <= x, 0 <= y,
           x < (IF Turned(s.transform) THEN s.bufferH ELSE s.bufferW),
           y < (IF Turned(s.transform) THEN s.bufferW ELSE s.bufferH),
           NEW i, i = InverseTransform(x, y, s.bufferW, s.bufferH, s.transform),
           NEW at, at = IF s.inverted THEN <<i[1], s.bufferH - 1 - i[2]>> ELSE i
    PROVE  InBuffer(s, at) /\ Contents(s, at) = <<x + s.shown[1], y + s.shown[2]>>
<1> DEFINE w == IF Turned(s.transform) THEN s.bufferH ELSE s.bufferW
           h == IF Turned(s.transform) THEN s.bufferW ELSE s.bufferH
           row == IF s.inverted THEN s.bufferH - 1 - at[2] ELSE at[2]
           p == CHOOSE p \in (0 .. w - 1) \X (0 .. h - 1) :
                   Placed(p[1], p[2], w, h, s.transform) = <<at[1], row>>
<1>1. PICK u \in 0 .. s.bufferW - 1, v \in 0 .. s.bufferH - 1 :
        i = <<u, v>> /\ Placed(x, y, w, h, s.transform) = <<u, v>>
  <2>1. PICK W \in Nat, H \in Nat, t \in 0 .. 7 :
          W = s.bufferW /\ H = s.bufferH /\ t = s.transform
    OBVIOUS
  <2>2. x < (IF Turned(t) THEN H ELSE W) /\ y < (IF Turned(t) THEN W ELSE H)
        /\ 0 <= x /\ 0 <= y
    BY <2>1, Zenon
  <2>3. \E u \in 0 .. W - 1, v \in 0 .. H - 1 :
           /\ InverseTransform(x, y, W, H, t) = <<u, v>>
           /\ Placed(x, y, IF Turned(t) THEN H ELSE W, IF Turned(t) THEN W ELSE H, t)
                = <<u, v>>
    BY ONLY <2>2, Oriented
  <2> QED BY <2>1, <2>3, Zenon
<1>2. at[1] = u /\ row = v /\ at[2] \in 0 .. s.bufferH - 1
  BY <1>1
<1>3. w \in Nat /\ h \in Nat /\ <<x, y>> \in (0 .. w - 1) \X (0 .. h - 1)
  OBVIOUS
<1> HIDE DEF w, h, row
<1>4. /\ p \in (0 .. w - 1) \X (0 .. h - 1)
      /\ Placed(p[1], p[2], w, h, s.transform) = <<at[1], row>>
  <2>1. Placed(<<x, y>>[1], <<x, y>>[2], w, h, s.transform) = <<at[1], row>>
    BY <1>1, <1>2
  <2> QED BY <1>3, <2>1, Zenon
<1> HIDE DEF p
<1>5. p[1] \in Int /\ p[2] \in Int
  BY <1>3, <1>4
<1>6. p[1] = x /\ p[2] = y
  <2>1. Placed(p[1], p[2], w, h, s.transform) = Placed(x, y, w, h, s.transform)
    BY <1>1, <1>2, <1>4, Zenon
  <2>2. PICK W \in Nat, H \in Nat, t \in 0 .. 7, px \in Int, py \in Int :
          W = w /\ H = h /\ t = s.transform /\ px = p[1] /\ py = p[2]
    BY <1>3, <1>5
  <2>3. Seen(Placed(px, py, W, H, t), W, H, t) = <<px, py>>
    BY ONLY PlacedOnce
  <2>4. Seen(Placed(x, y, W, H, t), W, H, t) = <<x, y>>
    BY ONLY PlacedOnce
  <2>5. <<px, py>> = <<x, y>>
    BY <2>1, <2>2, <2>3, <2>4, Zenon
  <2>6. px = x /\ py = y
    BY <2>5
  <2> QED BY <2>2, <2>6
<1>7. Contents(s, at) = <<p[1] + s.shown[1], p[2] + s.shown[2]>>
  BY Zenon DEF Contents, p, w, h, row
<1>8. InBuffer(s, at)
  BY <1>1, <1>2 DEF InBuffer
<1> QED BY <1>6, <1>7, <1>8

\* A segment of an output as either protocol delivers it, if a screencopy
\* frame is the part that was asked for.
SegmentFor(s, o, area) ==
    \/ \E frame \in Frames : /\ UprightCrop(o, Intersection(o, area), frame)
                             /\ s = ScreencopySegment(o, Intersection(o, area), frame)
    \/ s = ImageCopySegment(o, Intersection(o, area))

\* Its two sides.
LEMMA SegmentSides ==
    ASSUME NEW area \in Areas, NEW o \in Outputs, NEW s, SegmentFor(s, o, area)
    PROVE  /\ Overlap(area.x, area.w, o.x, o.w, s.x, s.w)
           /\ Overlap(area.y, area.h, o.y, o.h, s.y, s.h)
           /\ s.x = Intersection(o, area).x /\ s.w = Intersection(o, area).w
           /\ s.y = Intersection(o, area).y /\ s.h = Intersection(o, area).h
           /\ s.pixelW = Crop(s.x - o.x, s.w, o.w, o.pw).count
           /\ s.pixelH = Crop(s.y - o.y, s.h, o.h, o.ph).count
<1>1. /\ s.x = Intersection(o, area).x /\ s.w = Intersection(o, area).w
      /\ s.y = Intersection(o, area).y /\ s.h = Intersection(o, area).h
      /\ s.pixelW = Crop(Intersection(o, area).x - o.x, Intersection(o, area).w, o.w, o.pw).count
      /\ s.pixelH = Crop(Intersection(o, area).y - o.y, Intersection(o, area).h, o.h, o.ph).count
  BY DEF SegmentFor, UprightCrop, ScreencopySegment, ImageCopySegment
<1>2. /\ Intersection(o, area).x = MaxOf(area.x, o.x)
      /\ Intersection(o, area).y = MaxOf(area.y, o.y)
      /\ Intersection(o, area).w = MinOf(area.x + area.w, o.x + o.w) - MaxOf(area.x, o.x)
      /\ Intersection(o, area).h = MinOf(area.y + area.h, o.y + o.h) - MaxOf(area.y, o.y)
  BY DEF Intersection
<1>3. /\ area.x \in Int /\ area.y \in Int /\ area.w \in Nat /\ area.h \in Nat
      /\ area.w > 0 /\ area.h > 0 /\ o.x \in Int /\ o.y \in Int /\ o.w \in Nat /\ o.h \in Nat
      /\ o.w > 0 /\ o.h > 0
  BY DEF Areas, Outputs, Lengths
<1>4. /\ MaxOf(area.x, o.x) \in Int /\ MaxOf(area.y, o.y) \in Int
      /\ MinOf(area.x + area.w, o.x + o.w) - MaxOf(area.x, o.x) \in Int
      /\ MinOf(area.y + area.h, o.y + o.h) - MaxOf(area.y, o.y) \in Int
  BY <1>3 DEF MaxOf, MinOf
<1>5. /\ s.x = MaxOf(area.x, o.x) /\ s.w = MinOf(area.x + area.w, o.x + o.w) - s.x
      /\ s.y = MaxOf(area.y, o.y) /\ s.h = MinOf(area.y + area.h, o.y + o.h) - s.y
      /\ s.x \in Int /\ s.y \in Int /\ s.w \in Int /\ s.h \in Int
  BY <1>1, <1>2, <1>4
<1>6. Overlap(area.x, area.w, o.x, o.w, s.x, s.w)
  BY <1>3, <1>5, Zenon DEF Overlap
<1>7. Overlap(area.y, area.h, o.y, o.h, s.y, s.h)
  BY <1>3, <1>5, Zenon DEF Overlap
<1> QED BY <1>1, <1>6, <1>7, Zenon

\* The buffer's frame of reference: what is read at the crop's corner and j
\* pixels further shows the output's pixel there.
LEMMA SegmentFrame ==
    ASSUME NEW area \in Areas, NEW o \in Outputs, NEW s, SegmentFor(s, o, area),
           NEW cx, cx = Crop(s.x - o.x, s.w, o.w, o.pw),
           NEW cy, cy = Crop(s.y - o.y, s.h, o.h, o.ph),
           cx.first \in Nat, cx.count \in Nat, cx.first + cx.count <= o.pw,
           cy.first \in Nat, cy.count \in Nat, cy.first + cy.count <= o.ph,
           NEW i \in Nat, NEW j \in Nat, i < cx.count, j < cy.count
    PROVE  /\ s.sourceX \in Nat /\ s.sourceY \in Nat
           /\ s.bufferW \in Nat /\ s.bufferH \in Nat /\ s.transform \in 0 .. 7
           /\ s.inverted \in BOOLEAN /\ s.sent = s.transform
           /\ s.sourceX + i < (IF Turned(s.transform) THEN s.bufferH ELSE s.bufferW)
           /\ s.sourceY + j < (IF Turned(s.transform) THEN s.bufferW ELSE s.bufferH)
           /\ s.sourceX + i + s.shown[1] = cx.first + i
           /\ s.sourceY + j + s.shown[2] = cy.first + j
<1>1. /\ o.pw \in Nat /\ o.ph \in Nat /\ o.transform \in 0 .. 7
  BY DEF Outputs, Lengths
<1>2. /\ s.x = Intersection(o, area).x /\ s.w = Intersection(o, area).w
      /\ s.y = Intersection(o, area).y /\ s.h = Intersection(o, area).h
  BY SegmentSides
<1>3. CASE \E frame \in Frames : /\ UprightCrop(o, Intersection(o, area), frame)
                                 /\ s = ScreencopySegment(o, Intersection(o, area), frame)
  <2>1. PICK f \in Frames : /\ UprightCrop(o, Intersection(o, area), f)
                            /\ s = ScreencopySegment(o, Intersection(o, area), f)
    BY <1>3
  <2>2. /\ s.bufferW = cx.count /\ s.bufferH = cy.count /\ s.sourceX = 0 /\ s.sourceY = 0
        /\ s.transform = 0 /\ s.inverted = f.inverted /\ f.inverted \in BOOLEAN
        /\ s.sent = s.transform /\ s.shown = <<cx.first, cy.first>>
    BY <1>2, <2>1 DEF ScreencopySegment, UprightCrop, Frames
  <2>3. ~Turned(s.transform)
    BY <2>2 DEF Turned
  <2> QED BY <2>2, <2>3
<1>4. CASE s = ImageCopySegment(o, Intersection(o, area))
  <2>1. /\ s.bufferW = (IF Turned(o.transform) THEN o.ph ELSE o.pw)
        /\ s.bufferH = (IF Turned(o.transform) THEN o.pw ELSE o.ph)
        /\ s.sourceX = cx.first /\ s.sourceY = cy.first
        /\ s.transform = o.transform /\ s.inverted = FALSE /\ s.shown = <<0, 0>>
        /\ s.sent = s.transform
    BY <1>2, <1>4 DEF ImageCopySegment
  <2>2. PICK x \in Nat, y \in Nat : x = cx.first /\ y = cy.first
    OBVIOUS
  <2>3. x + i < o.pw /\ y + j < o.ph
    BY <1>1, <2>2
  <2>4. s.sourceX = x /\ s.sourceY = y /\ s.shown[1] = 0 /\ s.shown[2] = 0
    BY <2>1, <2>2
  <2>5. x + i + 0 = x + i /\ y + j + 0 = y + j
    OBVIOUS
  <2>6. /\ s.sourceX + i + s.shown[1] = cx.first + i
        /\ s.sourceY + j + s.shown[2] = cy.first + j
    BY <2>2, <2>4, <2>5, Zenon
  <2>7. /\ s.sourceX + i < (IF Turned(s.transform) THEN s.bufferH ELSE s.bufferW)
        /\ s.sourceY + j < (IF Turned(s.transform) THEN s.bufferW ELSE s.bufferH)
        /\ s.bufferW \in Nat /\ s.bufferH \in Nat
    BY <1>1, <2>1, <2>3, <2>4, Zenon
  <2> QED BY <1>1, <2>1, <2>4, <2>6, <2>7
<1> QED BY <1>3, <1>4 DEF SegmentFor

\* What compose_segment copies to a pixel that it fills: the output's pixel at
\* the centre of that pixel, or one next to it.
Filling(area, o, s, width, height, c, r) ==
    /\ area \in Areas /\ o \in Outputs /\ SegmentFor(s, o, area) /\ Intersects(o, area)
    /\ s.pixelW > 0 /\ s.pixelH > 0 /\ width \in Nat /\ height \in Nat
    /\ Fits(area.w, s.pixelW, s.w, width) /\ Fits(area.h, s.pixelH, s.h, height)
    /\ c \in Nat /\ c < width /\ r \in Nat /\ r < height
    /\ Fills(area, s, width, height, c, r)

LEMMA CopiedShows ==
    ASSUME NEW area, NEW o, NEW s, NEW width, NEW height, NEW c, NEW r, NEW k,
           NEW v, v = Copied(area, s, k, width, height, c, r),
           Filling(area, o, s, width, height, c, r)
    PROVE  \E x, y \in Int :
             /\ v = <<k, x, y>>
             /\ CentreOn(c, area.x, area.w, width, o.x, o.w)
             /\ CentreOn(r, area.y, area.h, height, o.y, o.h)
             /\ CentreNear(c, area.x, area.w, width, o.x, o.w, o.pw, x)
             /\ CentreNear(r, area.y, area.h, height, o.y, o.h, o.ph, y)
<1>1. PICK fx, fy : fx = Across(area, s, width) /\ fy = Down(area, s, height)
  OBVIOUS
<1>2. PICK cx, cy : cx = Crop(s.x - o.x, s.w, o.w, o.pw) /\ cy = Crop(s.y - o.y, s.h, o.h, o.ph)
  OBVIOUS
<1>3. area \in Areas /\ o \in Outputs /\ SegmentFor(s, o, area)
  BY DEF Filling
<1>4. /\ Overlap(area.x, area.w, o.x, o.w, s.x, s.w)
      /\ Overlap(area.y, area.h, o.y, o.h, s.y, s.h)
      /\ s.w > 0 /\ s.h > 0 /\ s.pixelW = cx.count /\ s.pixelH = cy.count
  BY <1>2, <1>3, SegmentSides DEF Filling, Intersects
<1>5. o.pw \in Nat /\ o.pw > 0 /\ o.ph \in Nat /\ o.ph > 0
  BY <1>3 DEF Outputs, Lengths
<1>6. /\ fx = Filled(s.x - area.x, s.w, area.w, width) /\ fy = Filled(s.y - area.y, s.h, area.h, height)
      /\ fx.first <= c /\ c < fx.end /\ fy.first <= r /\ r < fy.end
  BY <1>1 DEF Filling, Fills, Across, Down
<1>7. Column(area.x, area.w, o.x, o.w, o.pw, width, s.x, s.w, cx, fx, c)
  BY <1>2, <1>4, <1>5, <1>6, Zenon DEF Column, Filling
<1>8. Column(area.y, area.h, o.y, o.h, o.ph, height, s.y, s.h, cy, fy, r)
  BY <1>2, <1>4, <1>5, <1>6, Zenon DEF Column, Filling
<1>9. /\ cx.first \in Nat /\ cx.count \in Nat /\ cx.first + cx.count <= o.pw
      /\ CentreOn(c, area.x, area.w, width, o.x, o.w)
  BY <1>7, SideCopied
<1>10. /\ cy.first \in Nat /\ cy.count \in Nat /\ cy.first + cy.count <= o.ph
       /\ CentreOn(r, area.y, area.h, height, o.y, o.h)
  BY <1>8, SideCopied
<1>11. PICK i \in Nat :
         /\ i < cx.count /\ CentreNear(c, area.x, area.w, width, o.x, o.w, o.pw, cx.first + i)
         /\ \A source \in Int :
              Sample(source, c - fx.first, cx.count, fx.end - fx.first) = source + i
  BY <1>7, SideCopied
<1>12. PICK j \in Nat :
         /\ j < cy.count /\ CentreNear(r, area.y, area.h, height, o.y, o.h, o.ph, cy.first + j)
         /\ \A source \in Int :
              Sample(source, r - fy.first, cy.count, fy.end - fy.first) = source + j
  BY <1>8, SideCopied
<1>13. /\ s.sourceX \in Nat /\ s.sourceY \in Nat
       /\ s.bufferW \in Nat /\ s.bufferH \in Nat /\ s.transform \in 0 .. 7
       /\ s.inverted \in BOOLEAN /\ s.sent = s.transform
       /\ s.sourceX + i < (IF Turned(s.transform) THEN s.bufferH ELSE s.bufferW)
       /\ s.sourceY + j < (IF Turned(s.transform) THEN s.bufferW ELSE s.bufferH)
       /\ s.sourceX + i + s.shown[1] = cx.first + i
       /\ s.sourceY + j + s.shown[2] = cy.first + j
  BY <1>2, <1>3, <1>9, <1>10, <1>11, <1>12, SegmentFrame
<1>14. PICK x \in Int, y \in Int : x = s.sourceX + i /\ y = s.sourceY + j /\ 0 <= x /\ 0 <= y
  BY <1>13
<1>15. PICK at : at = ReadFrom(s, c, r, fx, fy)
  OBVIOUS
<1>16. PICK z : z = InverseTransform(x, y, s.bufferW, s.bufferH, s.transform)
  OBVIOUS
<1>17. at = IF s.inverted THEN <<z[1], s.bufferH - 1 - z[2]>> ELSE z
  <2>1. Sample(s.sourceX, c - fx.first, s.pixelW, fx.end - fx.first) = x
    <3>1. s.sourceX \in Int
      BY <1>13
    <3> QED BY <1>4, <1>11, <1>14, <3>1, Zenon
  <2>2. Sample(s.sourceY, r - fy.first, s.pixelH, fy.end - fy.first) = y
    <3>1. s.sourceY \in Int
      BY <1>13
    <3> QED BY <1>4, <1>12, <1>14, <3>1, Zenon
  <2> QED BY <1>15, <1>16, <2>1, <2>2, Zenon DEF ReadFrom
<1>18. InBuffer(s, at) /\ Contents(s, at) = <<x + s.shown[1], y + s.shown[2]>>
  <2>1. /\ x < (IF Turned(s.transform) THEN s.bufferH ELSE s.bufferW)
        /\ y < (IF Turned(s.transform) THEN s.bufferW ELSE s.bufferH)
    BY <1>13, <1>14, Zenon
  <2> QED BY <1>13, <1>14, <1>16, <1>17, <2>1, ReadBack
<1>19. Contents(s, at)[1] = cx.first + i /\ Contents(s, at)[2] = cy.first + j
  BY <1>13, <1>14, <1>18
<1>20. v = <<k, cx.first + i, cy.first + j>>
  BY <1>1, <1>15, <1>18, <1>19, Zenon DEF Copied
<1>21. cx.first + i \in Int /\ cy.first + j \in Int
  BY <1>9, <1>10
<1> QED BY <1>9, <1>10, <1>11, <1>12, <1>20, <1>21, Zenon

\* The last of some segments.
LEMMA LastExists ==
    ASSUME NEW N \in Nat, NEW I, I \subseteq 1 .. N, I # {}
    PROVE  \E i \in I : \A j \in I : j <= i
<1> DEFINE p == [i \in 1 .. N |-> i]
           u == [i \in 1 .. N |-> 1]
<1>1. p \in [1 .. N -> Nat] /\ u \in [1 .. N -> Nat] /\ \A i \in 1 .. N : u[i] > 0
  OBVIOUS
<1>2. \A i, j \in 1 .. N : Sharper(p, u, i, j) => j <= i
  BY DEF Sharper
<1>3. PICK i \in I : \A j \in I : Sharper(p, u, i, j)
  <2> HIDE DEF p, u
  <2> QED BY <1>1, SharpestExists
<1> HIDE DEF p, u
<1> QED BY <1>2, <1>3

\* The segments of an area: one of every output that it touches, in any order.
Pieced(area, outputs, segments, which) ==
    /\ area \in Areas /\ outputs \in Seq(Outputs)
    /\ Len(segments) \in Nat /\ DOMAIN segments = 1 .. Len(segments)
    /\ \A i \in DOMAIN segments :
         /\ which[i] \in DOMAIN outputs
         /\ SegmentFor(segments[i], outputs[which[i]], area)
         /\ Intersects(outputs[which[i]], area)
         /\ segments[i].pixelW > 0 /\ segments[i].pixelH > 0
    /\ \A k \in DOMAIN outputs : Intersects(outputs[k], area) =>
         \E i \in DOMAIN segments : which[i] = k

LEMMA CropCount ==
    ASSUME NEW area0, NEW L, NEW start, NEW w, NEW left, NEW n, NEW p \in Nat,
           Overlap(area0, L, start, w, left, n), n > 0
    PROVE  Crop(left - start, n, w, p).count \in Int
<1>1. /\ left - start \in Nat /\ left - start + n \in Nat /\ w \in Nat /\ w > 0
  BY DEF Overlap, MaxOf
<1>2. PICK d \in Nat, dn \in Nat : d = left - start /\ dn = left - start + n
  BY <1>1
<1>3. MappedEdge(d, w, p) \in Nat /\ MappedEdge(dn, w, p) \in Nat
  BY <1>1, EdgeIs
<1>4. Crop(left - start, n, w, p).count = MappedEdge(dn, w, p) - MappedEdge(d, w, p)
  BY <1>2 DEF Crop
<1> QED BY <1>3, <1>4

\* What the segments of an area have.
LEMMA PieceSides ==
    ASSUME NEW area, NEW outputs, NEW segments, NEW which,
           Pieced(area, outputs, segments, which), NEW i \in DOMAIN segments
    PROVE  /\ outputs[which[i]] \in Outputs
           /\ segments[i].pixelW \in Nat /\ segments[i].pixelH \in Nat
           /\ segments[i].w \in Lengths /\ segments[i].h \in Lengths
<1>1. PICK s, o : s = segments[i] /\ o = outputs[which[i]]
  OBVIOUS
<1>2. area \in Areas /\ o \in Outputs /\ SegmentFor(s, o, area) /\ Intersects(o, area)
      /\ s.pixelW > 0 /\ s.pixelH > 0
  BY <1>1 DEF Pieced
<1>3. /\ Overlap(area.x, area.w, o.x, o.w, s.x, s.w)
      /\ Overlap(area.y, area.h, o.y, o.h, s.y, s.h)
      /\ s.w > 0 /\ s.h > 0
      /\ s.pixelW = Crop(s.x - o.x, s.w, o.w, o.pw).count
      /\ s.pixelH = Crop(s.y - o.y, s.h, o.h, o.ph).count
  BY <1>2, SegmentSides DEF Intersects
<1>4. o.pw \in Nat /\ o.ph \in Nat
  BY <1>2 DEF Outputs, Lengths
<1>5. s.pixelW \in Int /\ s.pixelH \in Int
  BY <1>3, <1>4, CropCount
<1>6. s.w \in Int /\ s.h \in Int
  BY <1>3 DEF Overlap
<1> QED BY <1>1, <1>2, <1>3, <1>5, <1>6 DEF Lengths

\* The size of the picture fits every segment.
LEMMA PictureFits ==
    ASSUME NEW area, NEW outputs, NEW segments, NEW which,
           Pieced(area, outputs, segments, which),
           NEW width, width = PictureWidth(area, segments),
           NEW height, height = PictureHeight(area, segments)
    PROVE  /\ width \in Nat /\ height \in Nat
           /\ \A i \in DOMAIN segments :
                /\ Fits(area.w, segments[i].pixelW, segments[i].w, width)
                /\ Fits(area.h, segments[i].pixelH, segments[i].h, height)
<1> DEFINE wide == [i \in DOMAIN segments |->
                      [pixels |-> segments[i].pixelW, units |-> segments[i].w]]
           high == [i \in DOMAIN segments |->
                      [pixels |-> segments[i].pixelH, units |-> segments[i].h]]
<1>1. PICK N \in Nat : N = Len(segments) /\ DOMAIN segments = 1 .. N
  BY DEF Pieced
<1>2. /\ area.w \in Nat /\ area.w > 0 /\ area.h \in Nat /\ area.h > 0
  BY DEF Pieced, Areas, Lengths
<1>3. \A i \in DOMAIN segments :
        /\ segments[i].pixelW \in Nat /\ segments[i].pixelH \in Nat
        /\ segments[i].w \in Lengths /\ segments[i].h \in Lengths
  BY PieceSides
<1>4. /\ wide \in [1 .. N -> [pixels: Nat, units: Lengths]]
      /\ high \in [1 .. N -> [pixels: Nat, units: Lengths]]
  BY <1>1, <1>3
<1>5. width = Scaled(area.w, wide) /\ height = Scaled(area.h, high)
  BY DEF PictureWidth, PictureHeight
<1>6. \A i \in 1 .. N :
        /\ wide[i].pixels = segments[i].pixelW /\ wide[i].units = segments[i].w
        /\ high[i].pixels = segments[i].pixelH /\ high[i].units = segments[i].h
  BY <1>1
<1> HIDE DEF wide, high
<1>7. PICK lw \in Nat, lh \in Nat : lw = area.w /\ lh = area.h
  BY <1>2
<1>8. /\ width \in Nat
      /\ \A i \in 1 .. N : 2 * lw * wide[i].pixels - wide[i].units <= 2 * wide[i].units * width
  BY <1>2, <1>4, <1>5, <1>7, ScaledIs
<1>9. /\ height \in Nat
      /\ \A i \in 1 .. N : 2 * lh * high[i].pixels - high[i].units <= 2 * high[i].units * height
  BY <1>2, <1>4, <1>5, <1>7, ScaledIs
<1>10. ASSUME NEW i \in DOMAIN segments
       PROVE  /\ Fits(area.w, segments[i].pixelW, segments[i].w, width)
              /\ Fits(area.h, segments[i].pixelH, segments[i].h, height)
  <2>1. i \in 1 .. N
    BY <1>1
  <2>2. Fits(lw, wide[i].pixels, wide[i].units, width)
    BY <1>8, <2>1, Zenon DEF Fits
  <2>3. Fits(lh, high[i].pixels, high[i].units, height)
    BY <1>9, <2>1, Zenon DEF Fits
  <2> QED BY <1>6, <1>7, <2>1, <2>2, <2>3, Zenon
<1> QED BY <1>8, <1>9, <1>10

\* An output at the centre of a pixel fills it.
LEMMA CentreFilled ==
    ASSUME NEW area \in Areas, NEW o \in Outputs, NEW width \in Nat, NEW height \in Nat,
           NEW c \in Nat, c < width, NEW r \in Nat, r < height,
           CentreOn(c, area.x, area.w, width, o.x, o.w),
           CentreOn(r, area.y, area.h, height, o.y, o.h),
           NEW s, SegmentFor(s, o, area)
    PROVE  Intersects(o, area) /\ Fills(area, s, width, height, c, r)
<1>1. /\ Overlap(area.x, area.w, o.x, o.w, s.x, s.w)
      /\ Overlap(area.y, area.h, o.y, o.h, s.y, s.h)
      /\ s.w = Intersection(o, area).w /\ s.h = Intersection(o, area).h
  BY SegmentSides
<1>2. /\ s.w > 0
      /\ Filled(s.x - area.x, s.w, area.w, width).first <= c
      /\ c < Filled(s.x - area.x, s.w, area.w, width).end
  BY <1>1, SideFilled
<1>3. /\ s.h > 0
      /\ Filled(s.y - area.y, s.h, area.h, height).first <= r
      /\ r < Filled(s.y - area.y, s.h, area.h, height).end
  BY <1>1, SideFilled
<1> QED BY <1>1, <1>2, <1>3 DEF Intersects, Fills, Across, Down

\* A picture put together from the segments of an area shows the area.
LEMMA ComposeShows ==
    ASSUME NEW area, NEW outputs, NEW segments, NEW which,
           Pieced(area, outputs, segments, which)
    PROVE  Shows(Compose(area, segments, which), area, outputs)
<1>1. PICK width, height :
        width = PictureWidth(area, segments) /\ height = PictureHeight(area, segments)
  OBVIOUS
<1>2. /\ width \in Nat /\ height \in Nat
      /\ \A i \in DOMAIN segments :
           /\ Fits(area.w, segments[i].pixelW, segments[i].w, width)
           /\ Fits(area.h, segments[i].pixelH, segments[i].h, height)
  BY <1>1, PictureFits
<1>3. PICK image : image = Compose(area, segments, which)
  OBVIOUS
<1>4. /\ image.w = width /\ image.h = height
      /\ image.pixel = [p \in (0 .. width - 1) \X (0 .. height - 1) |->
                          PixelAt(area, segments, which, width, height, p[1], p[2])]
  BY <1>1, <1>3 DEF Compose
<1>5. area \in Areas /\ outputs \in Seq(Outputs)
  BY DEF Pieced
<1>6. SUFFICES ASSUME NEW p \in (0 .. width - 1) \X (0 .. height - 1), NEW v,
                      v = PixelAt(area, segments, which, width, height, p[1], p[2])
               PROVE  IF v = Blank
                      THEN \A i \in DOMAIN outputs : ~OnOutput(outputs[i], area, image, p)
                      ELSE LET o == outputs[v[1]] IN
                           /\ OnOutput(o, area, image, p)
                           /\ CentreNear(p[1], area.x, area.w, image.w, o.x, o.w, o.pw, v[2])
                           /\ CentreNear(p[2], area.y, area.h, image.h, o.y, o.h, o.ph, v[3])
  <2>1. DOMAIN image.pixel = (0 .. width - 1) \X (0 .. height - 1)
    BY <1>4
  <2>2. \A p \in (0 .. width - 1) \X (0 .. height - 1) :
          image.pixel[p] = PixelAt(area, segments, which, width, height, p[1], p[2])
    BY <1>4
  <2> QED BY <1>3, <2>1, <2>2, Zenon DEF Shows
<1>7. PICK c \in Nat, r \in Nat : c = p[1] /\ r = p[2] /\ c < width /\ r < height
  BY <1>2, <1>6
<1>8. PICK on : on = {i \in DOMAIN segments : Fills(area, segments[i], width, height, c, r)}
  OBVIOUS
<1>9. CASE on = {}
  <2>1. v = Blank
    BY <1>6, <1>7, <1>8, <1>9, Zenon DEF PixelAt
  <2>2. ASSUME NEW k \in DOMAIN outputs, OnOutput(outputs[k], area, image, p)
        PROVE  FALSE
    <3>1. outputs[k] \in Outputs
      BY <1>5
    <3>2. /\ CentreOn(c, area.x, area.w, width, outputs[k].x, outputs[k].w)
          /\ CentreOn(r, area.y, area.h, height, outputs[k].y, outputs[k].h)
      BY <1>4, <1>7, <2>2, Zenon DEF OnOutput
    <3>3. PICK s : s = ImageCopySegment(outputs[k], Intersection(outputs[k], area))
      OBVIOUS
    <3>4. SegmentFor(s, outputs[k], area)
      BY <3>3, Zenon DEF SegmentFor
    <3>5. Intersects(outputs[k], area)
      BY <1>2, <1>5, <1>7, <3>1, <3>2, <3>4, CentreFilled
    <3>6. PICK i \in DOMAIN segments : which[i] = k
      BY <3>5, Zenon DEF Pieced
    <3>7. SegmentFor(segments[i], outputs[k], area)
      BY <3>6, Zenon DEF Pieced
    <3>8. Fills(area, segments[i], width, height, c, r)
      BY <1>2, <1>5, <1>7, <3>1, <3>2, <3>7, CentreFilled
    <3> QED BY <1>8, <1>9, <3>8
  <2> QED BY <2>1, <2>2
<1>10. CASE on # {}
  <2> DEFINE top == CHOOSE i \in on : \A j \in on : j <= i
  <2>1. top \in on
    <3>1. PICK N \in Nat : on \subseteq 1 .. N
      BY <1>8 DEF Pieced
    <3>2. \E i \in on : \A j \in on : j <= i
      BY <1>10, <3>1, LastExists
    <3> QED BY <3>2, Zenon
  <2> HIDE DEF top
  <2>2. PICK s, o, k : s = segments[top] /\ k = which[top] /\ o = outputs[k]
    OBVIOUS
  <2>3. v = Copied(area, s, k, width, height, c, r)
    BY <1>6, <1>7, <1>8, <1>10, <2>2, Zenon DEF PixelAt, top
  <2>4. top \in DOMAIN segments /\ Fills(area, s, width, height, c, r)
    BY <1>8, <2>1, <2>2
  <2>5. Filling(area, o, s, width, height, c, r)
    <3>1. /\ SegmentFor(s, o, area) /\ Intersects(o, area) /\ s.pixelW > 0 /\ s.pixelH > 0
      BY <2>2, <2>4, Zenon DEF Pieced
    <3>2. o \in Outputs
      BY <2>2, <2>4, PieceSides
    <3>3. Fits(area.w, s.pixelW, s.w, width) /\ Fits(area.h, s.pixelH, s.h, height)
      BY <1>2, <2>2, <2>4, Zenon
    <3> QED BY <1>2, <1>5, <1>7, <2>4, <3>1, <3>2, <3>3, Zenon DEF Filling
  <2>6. PICK x \in Int, y \in Int :
          /\ v = <<k, x, y>>
          /\ CentreOn(c, area.x, area.w, width, o.x, o.w)
          /\ CentreOn(r, area.y, area.h, height, o.y, o.h)
          /\ CentreNear(c, area.x, area.w, width, o.x, o.w, o.pw, x)
          /\ CentreNear(r, area.y, area.h, height, o.y, o.h, o.ph, y)
    BY <2>3, <2>5, CopiedShows
  <2>7. v # Blank /\ v[1] = k /\ v[2] = x /\ v[3] = y
    BY <2>3, <2>6 DEF Blank
  <2>8. OnOutput(o, area, image, p)
    BY <1>4, <1>7, <2>6, Zenon DEF OnOutput
  <2> QED BY <1>4, <1>7, <2>2, <2>6, <2>7, <2>8, Zenon
<1> QED BY <1>9, <1>10

-----------------------------------------------------------------------------
(* The picture: the worker's way to it. *)

\* Which requests come to which stages.
Followed ==
    /\ serve.pc = "query" => serve.op = "query"
    /\ serve.pc \in {"attach", "sync", "core", "seal"} => serve.backend = "X11"
    /\ serve.pc \in {"portal", "call", "reply", "wait", "file"} => serve.op = "desktop"

\* A request begins without segments, and has one of every output that it has
\* passed and that its area touches.
Gathered ==
    /\ serve.pc \in {"read", "open", "execute"} =>
         serve.segments = <<>> /\ serve.which = <<>>
    /\ serve.pc = "outputs" =>
         /\ Len(serve.which) = Len(serve.segments)
         /\ \A i \in DOMAIN serve.segments :
              /\ serve.which[i] \in DOMAIN serve.scene.outputs
              /\ serve.segments[i] = SegmentOf(serve.which[i], serve.scene)
              /\ Intersects(serve.scene.outputs[serve.which[i]], serve.scene.area)
              /\ HasPixels(serve.segments[i])
         /\ \A k \in DOMAIN serve.scene.outputs :
              k < serve.next /\ Intersects(serve.scene.outputs[k], serve.scene.area)
                => \E i \in DOMAIN serve.segments : serve.which[i] = k

\* What is answered has a segment of every output that its area touches.
Composed ==
    serve.pc = "answer" /\ serve.op = "area" /\ serve.backend = "GENERIC"
      /\ serve.status = "OK" /\ CompositorCrops(serve.scene) =>
        /\ serve.scene \in Scenes
        /\ Pieced(serve.scene.area, serve.scene.outputs, serve.segments, serve.which)

PictureInv == Followed /\ Gathered /\ Composed

\* The stages that have nothing to do with the picture of a Wayland area.
LEMMA Elsewhere ==
    ASSUME \/ serve'.pc \in {"ended", "watch"}
           \/ serve'.pc = "query" /\ serve'.op = "query"
           \/ /\ serve'.pc \in {"attach", "sync", "core", "seal"}
              /\ serve'.backend = "X11"
           \/ /\ serve'.pc \in {"portal", "call", "reply", "wait", "file"}
              /\ serve'.op = "desktop"
           \/ /\ serve'.pc = "answer"
              /\ serve'.status # "OK" \/ serve'.op # "area" \/ serve'.backend # "GENERIC"
    PROVE  PictureInv'
BY DEF PictureInv, Followed, Gathered, Composed

\* Steps that leave the capture alone.
LEMMA Untouched ==
    ASSUME PictureInv, serve'.pc = serve.pc, serve'.op = serve.op,
           serve'.backend = serve.backend, serve'.status = serve.status,
           serve'.scene = serve.scene, serve'.next = serve.next,
           serve'.segments = serve.segments, serve'.which = serve.which
    PROVE  PictureInv'
<1>1. Followed' /\ Composed'
  BY DEF PictureInv, Followed, Composed
<1>2. Gathered'
  BY DEF PictureInv, Gathered
<1> QED BY <1>1, <1>2 DEF PictureInv

LEMMA ResultKeeps ==
    ASSUME DisplayInv, NEW s \in ServeStatuses
    PROVE  /\ Result(s).op = serve.op /\ Result(s).backend = serve.backend
           /\ \A c \in BOOLEAN :
                /\ [Result(s) EXCEPT !.clean = c].op = serve.op
                /\ [Result(s) EXCEPT !.clean = c].status = s
<1>1. serve \in ServeRecord
  BY DEF DisplayInv, DisplayTyped
<1>2. PICK b \in BOOLEAN : b = (serve.broken \/ serve.conn = "dead")
  OBVIOUS
<1>3. Result(s) = [serve EXCEPT !.pc = "answer", !.status = s, !.broken = b]
  BY <1>1, <1>2 DEF Result, ServeRecord
<1>4. /\ Result(s).op = serve.op /\ Result(s).backend = serve.backend
      /\ Result(s).status = s /\ Result(s) \in ServeRecord
  BY <1>1, <1>3 DEF ServeRecord, ServeStages
<1>5. ASSUME NEW c \in BOOLEAN
      PROVE  /\ [Result(s) EXCEPT !.clean = c].op = serve.op
             /\ [Result(s) EXCEPT !.clean = c].status = s
  BY <1>4 DEF ServeRecord
<1> QED BY <1>4, <1>5

LEMMA ReadRequestPicture ==
    ASSUME DisplayInv, PictureInv, ReadRequest
    PROVE  PictureInv'
<1>1. /\ serve \in ServeRecord /\ request \in Operations /\ serve.pc = "read"
      /\ serve.segments = <<>> /\ serve.which = <<>>
  BY DEF DisplayInv, DisplayTyped, ReadRequest, PictureInv, Gathered
<1>2. CASE serve' = Gone
  BY <1>2, FinishedType, Elsewhere
<1>3. CASE serve' # Gone
  <2>1. PICK scene \in ScenesOf(request) :
          serve' = [serve EXCEPT !.pc = IF serve.conn = "none" THEN "open" ELSE "execute",
                                 !.op = request, !.status = "INTERNAL",
                                 !.scene = scene, !.clean = Promising(request, scene)]
    BY <1>3 DEF ReadRequest
  <2>2. PICK p \in {"open", "execute"} : p = IF serve.conn = "none" THEN "open" ELSE "execute"
    OBVIOUS
  <2>3. PICK c \in BOOLEAN : c = Promising(request, scene)
    BY DEF Promising
  <2>4. serve' = [serve EXCEPT !.pc = p, !.op = request, !.status = "INTERNAL",
                               !.scene = scene, !.clean = c]
    BY <2>1, <2>2, <2>3
  <2>5. /\ serve'.pc \in {"open", "execute"} /\ serve'.segments = serve.segments
        /\ serve'.which = serve.which
    BY <1>1, <2>4 DEF ServeRecord
  <2> QED BY <1>1, <2>5 DEF PictureInv, Followed, Gathered, Composed
<1> QED BY <1>2, <1>3

LEMMA OpenPicture ==
    ASSUME DisplayInv, PictureInv, Open
    PROVE  PictureInv'
<1>1. /\ serve \in ServeRecord /\ serve.pc = "open"
      /\ serve.segments = <<>> /\ serve.which = <<>>
  BY DEF DisplayInv, DisplayTyped, Open, PictureInv, Gathered
<1>2. CASE display.up
  <2>1. serve' = [serve EXCEPT !.conn = "live", !.pc = "execute"]
    BY <1>2 DEF Open
  <2>2. serve'.pc = "execute" /\ serve'.segments = <<>> /\ serve'.which = <<>>
    BY <1>1, <2>1 DEF ServeRecord
  <2> QED BY <2>2 DEF PictureInv, Followed, Gathered, Composed
<1>3. CASE ~display.up
  <2>1. serve' = [serve EXCEPT !.status = "UNAVAILABLE", !.pc = "answer"]
    BY <1>3 DEF Open
  <2>2. serve'.pc = "answer" /\ serve'.status # "OK"
    BY <1>1, <2>1 DEF ServeRecord
  <2> QED BY <2>2, Elsewhere
<1> QED BY <1>2, <1>3

LEMMA ExecutePicture ==
    ASSUME DisplayInv, PictureInv, Execute
    PROVE  PictureInv'
<1>1. /\ serve \in ServeRecord /\ serve.pc = "execute" /\ serve.op \in Operations
      /\ serve.segments = <<>> /\ serve.which = <<>> /\ serve.next = 1
  BY DEF DisplayInv, DisplayTyped, Connected, AreaTaken, Execute, PictureInv, Gathered
<1>2. CASE ~Valid(serve.op)
  <2>1. serve' = [serve EXCEPT !.pc = "answer", !.status = "INVALID_REQUEST"]
    BY <1>2 DEF Execute, Valid
  <2>2. serve'.pc = "answer" /\ serve'.status # "OK"
    BY <1>1, <2>1 DEF ServeRecord
  <2> QED BY <2>2, Elsewhere
<1>3. CASE Valid(serve.op)
  <2>1. serve.op \in {"watch", "query", "desktop", "area"}
    BY <1>1, DisplayConstants
  <2>2. PICK p \in {"watch", "query", "portal", "attach", "outputs"} :
           /\ serve' = [serve EXCEPT !.pc = p]
           /\ p = "query" => serve.op = "query"
           /\ p = "portal" => serve.op = "desktop"
           /\ p = "attach" => serve.backend = "X11"
           /\ p = "outputs" => serve.op = "area" /\ serve.backend # "X11"
    BY <1>3, <2>1 DEF Execute
  <2>3. /\ serve'.pc = p /\ serve'.op = serve.op /\ serve'.backend = serve.backend
        /\ serve'.scene = serve.scene /\ serve'.next = serve.next
        /\ serve'.segments = serve.segments /\ serve'.which = serve.which
    BY <1>1, <2>2 DEF ServeRecord
  <2>4. CASE p # "outputs"
    BY <2>2, <2>3, <2>4, Elsewhere
  <2>5. CASE p = "outputs"
    <3>1. serve.scene \in Scenes
      BY <1>1, <2>2, <2>5 DEF DisplayInv, AreaTaken, ServeRecord
    <3>2. ASSUME NEW k \in DOMAIN serve.scene.outputs
          PROVE  ~(k < 1)
      BY <3>1, SceneTyped
    <3>3. DOMAIN serve'.segments = {} /\ Len(serve'.which) = Len(serve'.segments)
      BY <1>1, <2>3
    <3>4. Gathered'
      BY <1>1, <2>3, <2>5, <3>2, <3>3 DEF Gathered
    <3> QED BY <2>3, <2>5, <3>4 DEF PictureInv, Followed, Composed
  <2> QED BY <2>4, <2>5
<1> QED BY <1>2, <1>3

LEMMA QueryPicture ==
    ASSUME DisplayInv, PictureInv, Query
    PROVE  PictureInv'
<1>1. serve.op = "query"
  BY DEF PictureInv, Followed, Query
<1>2. CASE serve' = Result("OK")
  <2>1. "OK" \in ServeStatuses
    BY DEF ServeStatuses, Statuses
  <2> QED BY <1>1, <1>2, <2>1, ResultType, ResultKeeps, Elsewhere
<1>3. ASSUME NEW s \in {"UNAVAILABLE", "TIMEOUT"},
             serve' = [Result(s) EXCEPT !.clean = @ /\ serve.conn = "dead"]
      PROVE  PictureInv'
  <2>1. s \in ServeStatuses
    BY <1>3 DEF ServeStatuses, Statuses
  <2>2. PICK c \in BOOLEAN : c = (serve.clean /\ serve.conn = "dead")
    OBVIOUS
  <2>3. serve' = [Result(s) EXCEPT !.clean = c]
    BY <1>3, <2>1, <2>2, ResultType
  <2> QED BY <1>1, <2>1, <2>3, ResultType, ResultKeeps, Elsewhere
<1> QED BY <1>2, <1>3 DEF Query

LEMMA AnswerPicture ==
    ASSUME DisplayInv, PictureInv, Answer
    PROVE  PictureInv'
<1>1. serve \in ServeRecord
  BY DEF DisplayInv, DisplayTyped
<1>2. PICK k \in {"none", "live", "dead"} : k = IF serve.broken THEN "none" ELSE serve.conn
  BY <1>1 DEF ServeRecord
<1>3. serve' = [Finished EXCEPT !.conn = k, !.broken = FALSE]
  BY <1>2, FinishedType DEF Answer
<1>4. /\ serve'.pc \in {"read", "ended"} /\ serve'.segments = Finished.segments
      /\ serve'.which = Finished.which
  BY <1>3, FinishedType DEF ServeRecord
<1>5. Finished.segments = <<>> /\ Finished.which = <<>>
  BY <1>1 DEF Finished, ServeRecord
<1> QED BY <1>4, <1>5 DEF PictureInv, Followed, Gathered, Composed

LEMMA SkipOutputPicture ==
    ASSUME DisplayInv, PictureInv, SkipOutput
    PROVE  PictureInv'
<1>1. /\ OutputLeft
      /\ ~Intersects(serve.scene.outputs[serve.next], serve.scene.area)
  BY DEF SkipOutput, Current, Scene
<1>2. /\ serve \in ServeRecord /\ serve.pc = "outputs" /\ serve.next \in Nat
      /\ serve.scene \in Scenes /\ Gathered
  BY <1>1, OutputFacts DEF OutputLeft, PictureInv
<1>3. PICK n \in Nat : n = serve.next + 1
  BY <1>2
<1>4. serve' = [serve EXCEPT !.next = n]
  BY <1>3 DEF SkipOutput
<1>5. /\ serve'.pc = "outputs" /\ serve'.next = serve.next + 1
      /\ serve'.scene = serve.scene /\ serve'.segments = serve.segments
      /\ serve'.which = serve.which
  BY <1>2, <1>3, <1>4 DEF ServeRecord
<1>6. ASSUME NEW k \in DOMAIN serve.scene.outputs, k < serve'.next,
             Intersects(serve.scene.outputs[k], serve.scene.area)
      PROVE  \E i \in DOMAIN serve.segments : serve.which[i] = k
  <2>1. k \in Int
    BY <1>2, SceneTyped
  <2>2. k < serve.next
    BY <1>1, <1>2, <1>5, <1>6, <2>1
  <2> QED BY <1>2, <1>6, <2>2 DEF Gathered
<1>7. Gathered'
  BY <1>2, <1>5, <1>6 DEF Gathered
<1> QED BY <1>5, <1>7 DEF PictureInv, Followed, Composed

\* An output taken leaves its segment behind the others.
LEMMA TakenPicture ==
    ASSUME DisplayInv, PictureInv, OutputLeft, Intersects(Current, Scene.area),
           HasPixels(Segment), serve'.pc = "outputs", serve'.next = serve.next + 1,
           serve'.scene = serve.scene, serve'.segments = Append(serve.segments, Segment),
           serve'.which = Append(serve.which, serve.next)
    PROVE  PictureInv'
<1> DEFINE n == Len(serve.segments)
<1>1. /\ serve \in ServeRecord /\ serve.pc = "outputs" /\ serve.next \in Nat
      /\ serve.scene \in Scenes /\ Gathered
      /\ serve.next \in DOMAIN serve.scene.outputs
      /\ serve.segments \in Seq(Pieces) /\ serve.which \in Seq(Nat) /\ Segment \in Pieces
  BY OutputFacts DEF OutputLeft, PictureInv, ServeRecord
<1>2. /\ Len(serve.which) = n /\ n \in Nat /\ DOMAIN serve.segments = 1 .. n
      /\ \A i \in DOMAIN serve.segments :
           /\ serve.which[i] \in DOMAIN serve.scene.outputs
           /\ serve.segments[i] = SegmentOf(serve.which[i], serve.scene)
           /\ Intersects(serve.scene.outputs[serve.which[i]], serve.scene.area)
           /\ HasPixels(serve.segments[i])
  BY <1>1 DEF Gathered
<1>3. /\ Len(serve'.segments) = n + 1 /\ DOMAIN serve'.segments = 1 .. n + 1
      /\ serve'.segments[n + 1] = Segment
      /\ \A i \in 1 .. n : serve'.segments[i] = serve.segments[i]
  BY <1>1
<1>4. /\ Len(serve'.which) = n + 1 /\ serve'.which[n + 1] = serve.next
      /\ \A i \in 1 .. n : serve'.which[i] = serve.which[i]
  BY <1>1, <1>2
<1>5. /\ Segment = SegmentOf(serve.next, serve.scene)
      /\ Intersects(serve.scene.outputs[serve.next], serve.scene.area)
  BY DEF Segment, Current, Scene
<1> HIDE DEF n
<1>6. ASSUME NEW i \in DOMAIN serve'.segments
      PROVE  /\ serve'.which[i] \in DOMAIN serve.scene.outputs
             /\ serve'.segments[i] = SegmentOf(serve'.which[i], serve.scene)
             /\ Intersects(serve.scene.outputs[serve'.which[i]], serve.scene.area)
             /\ HasPixels(serve'.segments[i])
  <2>1. i \in 1 .. n \/ i = n + 1
    BY <1>2, <1>3, <1>6
  <2>2. CASE i \in 1 .. n
    BY <1>2, <1>3, <1>4, <2>2
  <2>3. CASE i = n + 1
    BY <1>1, <1>3, <1>4, <1>5, <2>3
  <2> QED BY <2>1, <2>2, <2>3
<1>7. ASSUME NEW k \in DOMAIN serve.scene.outputs, k < serve'.next,
             Intersects(serve.scene.outputs[k], serve.scene.area)
      PROVE  \E i \in DOMAIN serve'.segments : serve'.which[i] = k
  <2>1. k \in Int
    BY <1>1, SceneTyped
  <2>2. CASE k < serve.next
    <3>1. PICK i \in DOMAIN serve.segments : serve.which[i] = k
      BY <1>1, <1>7, <2>2 DEF Gathered
    <3>2. i \in DOMAIN serve'.segments /\ serve'.which[i] = k
      BY <1>2, <1>3, <1>4, <3>1
    <3> QED BY <3>2
  <2>3. CASE k = serve.next
    <3>1. n + 1 \in DOMAIN serve'.segments /\ serve'.which[n + 1] = k
      BY <1>2, <1>3, <1>4, <2>3
    <3> QED BY <3>1
  <2>4. k < serve.next \/ k = serve.next
    BY <1>1, <1>7, <2>1
  <2> QED BY <2>2, <2>3, <2>4
<1>8. Gathered'
  BY <1>3, <1>4, <1>6, <1>7 DEF Gathered
<1> QED BY <1>8 DEF PictureInv, Followed, Composed

LEMMA TakenSegments ==
    ASSUME DisplayInv, OutputLeft
    PROVE  /\ Taken.segments = Append(serve.segments, Segment)
           /\ Taken.which = Append(serve.which, serve.next)
<1>1. serve \in ServeRecord
  BY DEF DisplayInv, DisplayTyped
<1> QED BY <1>1 DEF Taken, ServeRecord

LEMMA CaptureOutputPicture ==
    ASSUME DisplayInv, PictureInv, CaptureOutput
    PROVE  PictureInv'
<1>1. OutputLeft /\ Intersects(Current, Scene.area)
  BY DEF CaptureOutput
<1>2. CASE HasPixels(Segment) /\ serve' = Taken
  BY <1>1, <1>2, TakenFacts, TakenSegments, TakenPicture
<1>3. CASE serve' = Result("UNAVAILABLE")
  <2>1. "UNAVAILABLE" \in ServeStatuses
    BY DEF ServeStatuses, Statuses
  <2> QED BY <1>3, <2>1, ResultType, Elsewhere
<1>4. ASSUME NEW s \in {"UNAVAILABLE", "TIMEOUT", "CANCELLED", "RESOURCE_EXHAUSTED"},
             serve' = [Result(s) EXCEPT !.clean = FALSE]
      PROVE  PictureInv'
  <2>1. s \in ServeStatuses /\ s # "OK"
    BY <1>4 DEF ServeStatuses, Statuses
  <2> QED BY <1>4, <2>1, ResultType, ResultKeeps, Elsewhere
<1> QED BY <1>2, <1>3, <1>4 DEF CaptureOutput

LEMMA OutputChangesPicture ==
    ASSUME DisplayInv, PictureInv, OutputChanges
    PROVE  PictureInv'
<1>1. OutputLeft /\ Intersects(Current, Scene.area) /\ HasPixels(Segment)
  BY DEF OutputChanges
<1>2. CASE serve' = [Taken EXCEPT !.clean = FALSE]
  <2>1. Taken \in ServeRecord
    BY <1>1, TakenFacts
  <2>2. /\ serve'.pc = Taken.pc /\ serve'.next = Taken.next /\ serve'.scene = Taken.scene
        /\ serve'.segments = Taken.segments /\ serve'.which = Taken.which
    BY <1>2, <2>1 DEF ServeRecord
  <2> QED BY <1>1, <2>2, TakenFacts, TakenSegments, TakenPicture
<1>3. CASE serve' = Gone
  BY <1>3, FinishedType, Elsewhere
<1> QED BY <1>2, <1>3 DEF OutputChanges

\* When the loop is through, every output that the area touches has its segment.
LEMMA AreaPieced ==
    ASSUME DisplayInv, PictureInv, serve.pc = "outputs",
           serve.next \notin DOMAIN serve.scene.outputs, CompositorCrops(serve.scene)
    PROVE  /\ serve.scene \in Scenes
           /\ Pieced(serve.scene.area, serve.scene.outputs, serve.segments, serve.which)
<1>1. /\ serve \in ServeRecord /\ serve.scene \in Scenes /\ serve.next \in Nat
      /\ serve.next > 0 /\ Gathered /\ serve.segments \in Seq(Pieces)
  BY DEF DisplayInv, DisplayTyped, AreaTaken, PictureInv, ServeRecord
<1>2. /\ serve.scene.area \in Areas /\ serve.scene.outputs \in Seq(Outputs)
      /\ serve.scene.frames \in Seq(Frames)
      /\ Len(serve.scene.frames) = Len(serve.scene.outputs)
      /\ DOMAIN serve.scene.outputs = 1 .. Len(serve.scene.outputs)
      /\ Len(serve.scene.outputs) \in Nat
  BY <1>1, SceneTyped
<1>3. Len(serve.segments) \in Nat /\ DOMAIN serve.segments = 1 .. Len(serve.segments)
  BY <1>1
<1>4. ASSUME NEW i \in DOMAIN serve.segments
      PROVE  /\ serve.which[i] \in DOMAIN serve.scene.outputs
             /\ SegmentFor(serve.segments[i], serve.scene.outputs[serve.which[i]],
                           serve.scene.area)
             /\ Intersects(serve.scene.outputs[serve.which[i]], serve.scene.area)
             /\ serve.segments[i].pixelW > 0 /\ serve.segments[i].pixelH > 0
  <2>1. /\ serve.which[i] \in DOMAIN serve.scene.outputs
        /\ serve.segments[i] = SegmentOf(serve.which[i], serve.scene)
        /\ Intersects(serve.scene.outputs[serve.which[i]], serve.scene.area)
        /\ HasPixels(serve.segments[i])
    BY <1>1 DEF Gathered
  <2>2. SegmentFor(serve.segments[i], serve.scene.outputs[serve.which[i]],
                   serve.scene.area)
    <3>1. PICK k, o, part : /\ k = serve.which[i] /\ o = serve.scene.outputs[k]
                            /\ part = Intersection(o, serve.scene.area)
      OBVIOUS
    <3>2. serve.scene.frames[k] \in Frames
      BY <1>2, <2>1, <3>1
    <3>3. serve.scene.screencopy => UprightCrop(o, part, serve.scene.frames[k])
      BY <2>1, <3>1, Zenon DEF CompositorCrops
    <3>4. \/ /\ serve.scene.screencopy
             /\ serve.segments[i] = ScreencopySegment(o, part, serve.scene.frames[k])
          \/ serve.segments[i] = ImageCopySegment(o, part)
      BY <2>1, <3>1, Zenon DEF SegmentOf
    <3> QED BY <3>1, <3>2, <3>3, <3>4, Zenon DEF SegmentFor
  <2> QED BY <2>1, <2>2 DEF HasPixels
<1>5. ASSUME NEW k \in DOMAIN serve.scene.outputs,
             Intersects(serve.scene.outputs[k], serve.scene.area)
      PROVE  \E i \in DOMAIN serve.segments : serve.which[i] = k
  <2>1. k < serve.next
    BY <1>1, <1>2
  <2> QED BY <1>1, <1>5, <2>1 DEF Gathered
<1> QED BY <1>1, <1>2, <1>3, <1>4, <1>5 DEF Pieced

LEMMA ComposeCapturePicture ==
    ASSUME DisplayInv, PictureInv, ComposeCapture
    PROVE  PictureInv'
<1>1. /\ serve \in ServeRecord /\ serve.pc = "outputs"
      /\ serve.next \notin DOMAIN serve.scene.outputs
  BY DEF ComposeCapture, Scene, DisplayInv, DisplayTyped
<1>2. CASE serve' = Result("UNAVAILABLE")
  <2>1. "UNAVAILABLE" \in ServeStatuses
    BY DEF ServeStatuses, Statuses
  <2> QED BY <1>2, <2>1, ResultType, Elsewhere
<1>3. CASE serve' = [serve EXCEPT !.pc = "answer", !.status = "OK", !.image = TRUE]
  <2>1. /\ serve'.pc = "answer" /\ serve'.scene = serve.scene
        /\ serve'.segments = serve.segments /\ serve'.which = serve.which
    BY <1>1, <1>3 DEF ServeRecord
  <2>2. CompositorCrops(serve.scene) =>
          /\ serve.scene \in Scenes
          /\ Pieced(serve.scene.area, serve.scene.outputs, serve.segments, serve.which)
    BY <1>1, AreaPieced
  <2>3. Composed'
    BY <2>1, <2>2 DEF Composed
  <2> QED BY <2>1, <2>3 DEF PictureInv, Followed, Gathered
<1>4. ASSUME NEW s \in {"RESOURCE_EXHAUSTED", "INTERNAL"},
             serve' = [Result(s) EXCEPT !.clean = FALSE]
      PROVE  PictureInv'
  <2>1. s \in ServeStatuses /\ s # "OK"
    BY <1>4 DEF ServeStatuses
  <2> QED BY <1>4, <2>1, ResultType, ResultKeeps, Elsewhere
<1> QED BY <1>2, <1>3, <1>4 DEF ComposeCapture

\* An X11 session's capture never becomes a Wayland one.
LEMMA X11Picture ==
    ASSUME DisplayInv, PictureInv, Attach \/ Sync \/ Core \/ Seal
    PROVE  PictureInv'
<1>1. serve \in ServeRecord /\ serve.backend = "X11"
  BY DEF DisplayInv, DisplayTyped, PictureInv, Followed, Attach, Sync, Core, Seal
<1> SUFFICES serve'.backend = "X11" /\ serve'.pc \in {"sync", "core", "seal", "answer"}
  BY Elsewhere
<1>2. CASE Attach
  <2>1. CASE \E image \in BOOLEAN : serve' = [serve EXCEPT !.pc = "sync", !.image = image]
    BY <1>1, <2>1 DEF ServeRecord
  <2>2. CASE serve' = [serve EXCEPT !.pc = "sync"]
    BY <1>1, <2>2 DEF ServeRecord
  <2>3. CASE \E s \in {"UNSUPPORTED", "INVALID_REQUEST", "INTERNAL"} :
               serve' = [serve EXCEPT !.pc = "answer", !.status = s, !.clean = FALSE]
    BY <1>1, <2>3 DEF ServeRecord
  <2> QED BY <1>2, <2>1, <2>2, <2>3 DEF Attach
<1>3. CASE Sync
  <2>1. PICK b \in BOOLEAN : b = (serve.broken \/ serve.conn = "dead")
    OBVIOUS
  <2>2. PICK p \in {"seal", "core"} : serve' = [serve EXCEPT !.pc = p, !.broken = b]
    BY <1>1, <1>3, <2>1 DEF Sync, ServeRecord
  <2> QED BY <1>1, <2>2 DEF ServeRecord
<1>4. CASE Core
  <2>1. CASE serve' = [serve EXCEPT !.pc = "seal", !.image = TRUE]
    BY <1>1, <2>1 DEF ServeRecord
  <2>2. CASE serve' = [Result("UNAVAILABLE") EXCEPT !.clean = @ /\ serve.conn = "dead"]
    <3>1. "UNAVAILABLE" \in ServeStatuses
      BY DEF ServeStatuses, Statuses
    <3>2. PICK c \in BOOLEAN : c = (Result("UNAVAILABLE").clean /\ serve.conn = "dead")
      OBVIOUS
    <3>3. /\ serve' = [Result("UNAVAILABLE") EXCEPT !.clean = c]
          /\ Result("UNAVAILABLE") \in ServeRecord
      BY <2>2, <3>1, <3>2, ResultType
    <3>4. serve'.backend = Result("UNAVAILABLE").backend /\ serve'.pc = "answer"
      BY <3>1, <3>3, ResultType DEF ServeRecord
    <3> QED BY <1>1, <3>1, <3>4, ResultKeeps
  <2> QED BY <1>4, <2>1, <2>2 DEF Core
<1>5. CASE Seal
  <2>1. \/ serve' = [serve EXCEPT !.pc = "answer", !.status = "INTERNAL", !.image = FALSE]
        \/ serve' = [serve EXCEPT !.pc = "answer", !.status = "OK"]
    BY <1>5 DEF Seal
  <2> QED BY <1>1, <2>1 DEF ServeRecord
<1> QED BY <1>2, <1>3, <1>4, <1>5

\* Nor does a capture of the desktop.
LEMMA PortalPicture ==
    ASSUME DisplayInv, PictureInv,
           Subscribe \/ Screenshot \/ Reply \/ AwaitResponse \/ TakeFile
    PROVE  PictureInv'
<1>1. serve \in ServeRecord /\ serve.op = "desktop"
  BY DEF DisplayInv, DisplayTyped, PictureInv, Followed, Subscribe, Screenshot, Reply,
     AwaitResponse, TakeFile
<1> SUFFICES serve'.op = "desktop" /\ serve'.pc \in {"call", "reply", "wait", "file", "answer"}
  BY Elsewhere
<1>2. CASE Subscribe
  <2>1. \/ serve' = [serve EXCEPT !.pc = "call"]
        \/ serve' = [serve EXCEPT !.pc = "answer", !.clean = FALSE, !.status = "UNAVAILABLE"]
    BY <1>2 DEF Subscribe
  <2> QED BY <1>1, <2>1 DEF ServeRecord
<1>3. CASE Screenshot
  <2>1. serve' = [serve EXCEPT !.pc = "reply"]
    BY <1>3 DEF Screenshot
  <2> QED BY <1>1, <2>1 DEF ServeRecord
<1>4. CASE Reply
  <2>1. \/ serve' = [serve EXCEPT !.pc = "wait"]
        \/ serve' = [serve EXCEPT !.pc = "answer", !.clean = FALSE, !.status = "UNAVAILABLE"]
    BY <1>4 DEF Reply
  <2> QED BY <1>1, <2>1 DEF ServeRecord
<1>5. CASE AwaitResponse
  <2>1. \/ serve' = [serve EXCEPT !.pc = "file"]
        \/ \E s \in {"CANCELLED", "UNAVAILABLE", "TIMEOUT"} :
             serve' = [serve EXCEPT !.pc = "answer", !.status = s]
    BY <1>5 DEF AwaitResponse
  <2> QED BY <1>1, <2>1 DEF ServeRecord
<1>6. CASE TakeFile
  BY <1>1, <1>6 DEF TakeFile, ServeRecord
<1> QED BY <1>2, <1>3, <1>4, <1>5, <1>6

LEMMA EndPicture ==
    ASSUME DisplayInv, WatchEnds \/ MonitorExit \/ Alarm
    PROVE  PictureInv'
<1>1. serve' = Gone
  BY DEF WatchEnds, MonitorExit, Alarm
<1> QED BY <1>1, FinishedType, Elsewhere

LEMMA OutsidePicture ==
    ASSUME DisplayInv, PictureInv,
           \/ Request \/ Hangup \/ Detach \/ DisplayReturns
           \/ DisplayDies \/ Respond \/ ResponseTimeout
    PROVE  PictureInv'
<1>1. serve \in ServeRecord
  BY DEF DisplayInv, DisplayTyped
<1>2. CASE Request \/ Hangup \/ Detach \/ DisplayReturns
  <2>1. serve' = serve
    BY <1>2 DEF Request, Hangup, Detach, DisplayReturns
  <2> QED BY <2>1, Untouched
<1>3. CASE DisplayDies
  <2>1. PICK k \in {"none", "live", "dead"} : serve' = [serve EXCEPT !.conn = k, !.clean = FALSE]
    BY <1>1, <1>3 DEF DisplayDies, ServeRecord
  <2>2. /\ serve'.pc = serve.pc /\ serve'.op = serve.op /\ serve'.backend = serve.backend
        /\ serve'.status = serve.status /\ serve'.scene = serve.scene
        /\ serve'.next = serve.next /\ serve'.segments = serve.segments
        /\ serve'.which = serve.which
    BY <1>1, <2>1 DEF ServeRecord
  <2> QED BY <2>2, Untouched
<1>4. CASE Respond \/ ResponseTimeout
  <2>1. PICK c \in BOOLEAN : serve' = [serve EXCEPT !.clean = c]
    <3>1. CASE Respond
      <4>1. PICK code \in 0 .. 2 :
              serve' = [serve EXCEPT !.clean =
                           @ /\ (serve.pc \in {"reply", "wait"} => code = 0)]
        BY <3>1 DEF Respond
      <4>2. PICK c \in BOOLEAN :
              c = (serve.clean /\ (serve.pc \in {"reply", "wait"} => code = 0))
        OBVIOUS
      <4> QED BY <4>1, <4>2
    <3>2. CASE ResponseTimeout
      <4>1. serve' = [serve EXCEPT !.clean = @ /\ portal.response # None]
        BY <3>2 DEF ResponseTimeout
      <4>2. PICK c \in BOOLEAN : c = (serve.clean /\ portal.response # None)
        OBVIOUS
      <4> QED BY <4>1, <4>2
    <3> QED BY <1>4, <3>1, <3>2
  <2>2. /\ serve'.pc = serve.pc /\ serve'.op = serve.op /\ serve'.backend = serve.backend
        /\ serve'.status = serve.status /\ serve'.scene = serve.scene
        /\ serve'.next = serve.next /\ serve'.segments = serve.segments
        /\ serve'.which = serve.which
    BY <1>1, <2>1 DEF ServeRecord
  <2> QED BY <2>2, Untouched
<1> QED BY <1>2, <1>3, <1>4

LEMMA PictureStep == DisplayInv /\ PictureInv /\ [Next]_vars => PictureInv'
<1> SUFFICES ASSUME DisplayInv, PictureInv, [Next]_vars
             PROVE  PictureInv'
  OBVIOUS
<1>1. CASE UNCHANGED displayVars
  <2>1. serve' = serve
    BY <1>1 DEF displayVars
  <2> QED BY <2>1, Untouched
<1>2. CASE ServeStep
  BY <1>2, ReadRequestPicture, OpenPicture, ExecutePicture, QueryPicture, AnswerPicture,
     SkipOutputPicture, CaptureOutputPicture, OutputChangesPicture,
     ComposeCapturePicture, X11Picture, PortalPicture
     DEF ServeStep
<1>3. CASE WatchEnds \/ MonitorExit \/ Alarm \/ Request \/ Hangup \/ Detach \/ DisplayDies
           \/ DisplayReturns \/ Respond \/ ResponseTimeout
  BY <1>3, EndPicture, OutsidePicture
<1>4. UNCHANGED vars => UNCHANGED displayVars
  BY DEF vars
<1>5. Next => DisplayNext \/ UNCHANGED displayVars
  BY DEF Next, OneShot, Persistent
<1> QED BY <1>1, <1>2, <1>3, <1>4, <1>5 DEF DisplayNext

\* Whatever outputs an area is put together from, at whatever position, scale
\* and transform: what ksd_wayland_capture_area (src/src/wayland/wl_capture.c)
\* answers shows at every pixel, to within one pixel of the output, what the
\* user sees there, and nothing where no output is.  Where the compositor
\* copies whole outputs this rests on nothing else; where it copies parts, on
\* the hypothesis CompositorCrops: capture_output takes a frame at any size
\* and for upright, and a frame that is not is composed wrongly.
THEOREM PictureCorrect == FairSpec => []PictureIsFaithful
<1>1. Init => PictureInv
  <2> SUFFICES ASSUME Init
               PROVE  PictureInv
    OBVIOUS
  <2>1. serve.pc = "read" /\ serve.segments = <<>> /\ serve.which = <<>>
    BY DEF Init, DisplayInit
  <2> QED BY <2>1 DEF PictureInv, Followed, Gathered, Composed
<1>2. PictureInv => PictureIsFaithful
  <2> SUFFICES ASSUME PictureInv, serve.pc = "answer", serve.op = "area",
                      serve.backend = "GENERIC", serve.status = "OK",
                      CompositorCrops(serve.scene)
               PROVE  Shows(Compose(serve.scene.area, serve.segments, serve.which),
                            serve.scene.area, serve.scene.outputs)
    BY DEF PictureIsFaithful, Scene
  <2>1. Pieced(serve.scene.area, serve.scene.outputs, serve.segments, serve.which)
    BY DEF PictureInv, Composed
  <2> QED BY <2>1, ComposeShows
<1> QED BY <1>1, <1>2, PictureStep, DisplayInductiveCorrect, PTL DEF FairSpec
=============================================================================
