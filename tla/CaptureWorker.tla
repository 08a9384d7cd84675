---------------------------- MODULE CaptureWorker ----------------------------
(***************************************************************************)
(* ksd_capture_worker_main (src/src/capture_worker.c).  The bootstrap that *)
(* the authority sends says which of two workers a process becomes: one    *)
(* for a single capture through KWin, or one that serves a display until   *)
(* the authority hangs up.                                                 *)
(***************************************************************************)
EXTENDS KwinCapture, DisplayWorker

VARIABLE persistent     \* parse_bootstrap_header

vars == <<persistent, oneShotVars, displayVars>>

\* The half that a process does not become stays in one initial state.
Init ==
    /\ persistent \in BOOLEAN
    /\ OneShotInit
    /\ DisplayInit
    /\ ~persistent => serve.backend = CHOOSE b \in Backends : TRUE

OneShot(A) == ~persistent /\ A /\ UNCHANGED <<persistent, displayVars>>
Persistent(A) == persistent /\ A /\ UNCHANGED <<persistent, oneShotVars>>

Next == OneShot(OneShotNext) \/ Persistent(DisplayNext)

\* The processes of a single capture run: each waits with a deadline, but for
\* the helper, whose connection to the bus has none.  A display library may block for good, so of the worker that stays only the
\* write of an answer, the alarm and the thread that watches the socket can
\* be relied on.  Nobody else has to do anything: not KWin, the compositor,
\* the X server, the user or the authority.
Fairness ==
    /\ WF_vars(OneShot(AuthorityStep))
    /\ WF_vars(OneShot(WorkerStep))
    /\ WF_vars(OneShot(ChildStep))
    /\ WF_vars(Persistent(Answer))
    /\ WF_vars(Persistent(Alarm))
    /\ WF_vars(Persistent(MonitorExit))

FairSpec == Init /\ [][Next]_vars /\ Fairness

\* Both workers end what they began: see OneShotReturns and ServeReturns.
CapturesReturn == OneShotReturns /\ ServeReturns
=============================================================================
