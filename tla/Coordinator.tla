----------------------------- MODULE Coordinator ------------------------------
(***************************************************************************)
(* One query: its Coordinator (be/src/runtime/coordinator.cc), the remote    *)
(* fragments it starts (PlanFragmentExecutor, plan-fragment-executor.cc, and *)
(* FragmentExecState, service/fragment-exec-state.cc), the reports they send *)
(* back, and cancellation by an error, by the client or at a limit.          *)
(*                                                                           *)
(* The client's own thread runs Exec, Wait and GetNext.  A fragment has an   *)
(* execution thread and a thread that reports now and then; a report is      *)
(* served by a handler, a thread of the coordinator's server.  Coordinator's *)
(* lock_ is a variable because CancelInternal holds it across several steps. *)
(***************************************************************************)
EXTENDS Integers, Sequences, FiniteSets, FiniteSetsExt

CONSTANTS
    Stages,         \* the backend numbers of each fragment, in starting order
    CoordFragment,  \* executor_: the coordinator runs the root fragment
    Inserts,        \* the values of needs_finalization_: may the query be an insert?
    MaxReports,     \* bound on the periodic reports of all fragments
    MaxFaults,      \* bound on failing connections and calls
    LateFaults      \* a call may fail although its request has arrived

NumBackends == Cardinality(UNION {Stages[i] : i \in 1 .. Len(Stages)})
Backends == 1 .. NumBackends
Status == {"OK", "ERROR", "CANCELLED"}

\* Every backend number belongs to one stage.
ASSUME PlanAssumption ==
    /\ NumBackends \in Nat
    /\ Stages \in Seq(SUBSET Backends) /\ Len(Stages) > 0
    /\ UNION {Stages[i] : i \in 1 .. Len(Stages)} = Backends
    /\ \A i, j \in 1 .. Len(Stages) : i # j => Stages[i] \cap Stages[j] = {}
    /\ CoordFragment \in BOOLEAN /\ Inserts \subseteq BOOLEAN /\ LateFaults \in BOOLEAN
    /\ MaxReports \in Nat /\ MaxFaults \in Nat

VARIABLES
    coord,      \* lock_, and the fields it protects
    backend,    \* backend_exec_states_
    main,       \* the client's thread
    local,      \* the coordinator fragment was cancelled
    frag,       \* per backend, the fragment's executor and its threads
    call,       \* per backend, the report its fragment is sending
    handlers,   \* the reports being served
    faults      \* the failures so far, and whether one was of a call that had arrived

vars == <<coord, backend, main, local, frag, call, handlers, faults>>

-------------------------------------------------------------------------------
(* State *)

NewBackend == [pc |-> "none", status |-> "OK", initiated |-> FALSE, done |-> FALSE]

NewFrag == [pc |-> "none", status |-> "OK", exec_status |-> "OK", cancelled |-> FALSE,
            reporter |-> "off", ticks |-> 0]

NoCall == [pc |-> "none", status |-> "OK", done |-> FALSE]

\* coord.walk is the next backend of the CancelRemoteFragments that runs under
\* lock_, main.walk of the one GetNext runs without it; merged counts the insert
\* results taken from each backend; main.then is where UpdateStatus returns to.
Init ==
    /\ \E insert \in Inserts :
       coord = [lock |-> "exec", query_status |-> "OK", returned_all |-> FALSE,
                remaining |-> NumBackends, walk |-> 0, registered |-> TRUE,
                merged |-> [b \in Backends |-> 0], needs_finalization |-> insert]
    /\ backend = [b \in Backends |-> NewBackend]
    /\ main = [pc |-> "exec", stage |-> 1, status |-> "OK", then |-> "ended", walk |-> 0,
               outcome |-> "none"]
    /\ local = FALSE
    /\ frag = [b \in Backends |-> NewFrag]
    /\ call = [b \in Backends |-> NoCall]
    /\ handlers = {}
    /\ faults = [n |-> 0, late |-> FALSE]

\* A connection or a call fails; late, if the call's request had arrived.
Fault(late) ==
    /\ faults.n < MaxFaults
    /\ late => LateFaults
    /\ faults' = [n |-> faults.n + 1, late |-> faults.late \/ late]

LockFree == coord.lock = "free"

Ended == main.pc \in {"ended", "finalized"}

\* A variant of Notified: the notify_all is missing.
NotifiedNobody(m) == m

\* The thread that waits on backend_completion_cv_, if it does, after a notify_all.
Notified(m) == [m EXCEPT !.pc = IF @ = "blocked" THEN "all" ELSE @]

\* The client's thread is back from UpdateStatus with the query's status.
UpdateReturns(status) ==
    [main EXCEPT !.pc = main.then,
                 !.outcome = IF main.then = "ended" THEN status ELSE @]

-------------------------------------------------------------------------------
(* Exec: start the remote fragments, stage by stage, with lock_ held *)

StartedFrag == [NewFrag EXCEPT !.pc = "run", !.reporter = "sleep"]

\* The rpc of one backend, with the backend's own lock held until it returns.
\* Without a connection the backend's status stays OK.
ExecRemoteFragment(b) ==
    /\ main.pc = "exec"
    /\ b \in Stages[main.stage]
    /\ backend[b].pc = "none"
    /\ \/ /\ frag' = [frag EXCEPT ![b] = StartedFrag]
          /\ backend' = [backend EXCEPT ![b].pc = "rpc"]
          /\ UNCHANGED faults
       \/ /\ backend' = [backend EXCEPT ![b].pc = "failed", ![b].status = "ERROR"]
          /\ UNCHANGED <<frag, faults>>
       \/ /\ Fault(FALSE)
          /\ backend' = [backend EXCEPT ![b].pc = "failed"]
          /\ UNCHANGED frag
    /\ UNCHANGED <<coord, main, local, call, handlers>>

ExecReturns(b) ==
    /\ backend[b].pc = "rpc"
    /\ \/ /\ backend' = [backend EXCEPT ![b].pc = "started", ![b].initiated = TRUE]
          /\ UNCHANGED faults
       \/ /\ Fault(TRUE)
          /\ backend' = [backend EXCEPT ![b].pc = "failed", ![b].status = "ERROR"]
    /\ UNCHANGED <<coord, main, local, frag, call, handlers>>

\* A variant of CancelInternal: lock_ is released before the backends are told.
CancelInternalUnlocked(who, status) ==
    /\ coord' = [coord EXCEPT !.lock = "free", !.query_status = status, !.walk = 1]
    /\ local' = TRUE

\* CancelInternal begins: the local fragment is told, then the walk starts.
CancelInternal(who, status) ==
    /\ coord' = [coord EXCEPT !.lock = who, !.query_status = status, !.walk = 1]
    /\ local' = TRUE

\* All rpcs of the stage are over: go on, or tear down and return the error.
StageDone ==
    LET stage == Stages[main.stage]
    IN  /\ main.pc = "exec"
        /\ \A b \in stage : backend[b].pc \in {"started", "failed"}
        /\ \/ /\ \E b \in stage : backend[b].pc = "failed"
              /\ CancelInternal("main", "ERROR")
              /\ main' = [main EXCEPT !.pc = "cancelling", !.then = "ended"]
           \/ /\ \A b \in stage : backend[b].pc = "started"
              /\ main.stage < Len(Stages)
              /\ main' = [main EXCEPT !.stage = @ + 1]
              /\ UNCHANGED <<coord, local>>
           \/ /\ \A b \in stage : backend[b].pc = "started"
              /\ main.stage = Len(Stages)
              /\ main' = [main EXCEPT !.pc = "wait"]
              /\ coord' = [coord EXCEPT !.lock = "free"]
              /\ UNCHANGED local
    /\ UNCHANGED <<backend, frag, call, handlers, faults>>

-------------------------------------------------------------------------------
(* CancelRemoteFragments *)

\* Only a backend that runs, as far as the coordinator knows, is sent the rpc,
\* and only once.
ToCancel(b) == backend[b].status = "OK" /\ backend[b].initiated /\ ~ backend[b].done

\* A variant of Cancelled: one whose reporting thread runs is left alone.
CancelledIfSilent(f) ==
    IF f.pc \notin {"none", "ended"} /\ f.exec_status = "OK" /\ f.reporter = "off"
    THEN [f EXCEPT !.cancelled = TRUE] ELSE f

\* CancelPlanFragment at the backend: FragmentExecState::Cancel, if there is one.
Cancelled(f) ==
    IF f.pc \notin {"none", "ended"} /\ f.exec_status = "OK"
    THEN [f EXCEPT !.cancelled = TRUE] ELSE f

CancelBackend(b) ==
    /\ backend[b].pc # "rpc"
    /\ \/ /\ ~ ToCancel(b)
          /\ UNCHANGED <<backend, frag, faults>>
       \/ /\ ToCancel(b)
          /\ backend' = [backend EXCEPT ![b].status = "CANCELLED"]
          /\ \/ frag' = [frag EXCEPT ![b] = Cancelled(@)] /\ UNCHANGED faults
             \/ Fault(FALSE) /\ UNCHANGED frag

\* One backend of the walk that CancelInternal does with lock_ held.
CancelWalk ==
    /\ coord.walk \in Backends
    /\ CancelBackend(coord.walk)
    /\ coord' = [coord EXCEPT !.walk = @ + 1]
    /\ UNCHANGED <<main, local, call, handlers>>

\* The end of the walk: notify_all, and whoever called CancelInternal returns.
CancelDone ==
    /\ coord.walk = NumBackends + 1
    /\ coord' = [coord EXCEPT !.walk = 0, !.lock = "free"]
    /\ main' = IF main.pc = "cancelling"
               THEN UpdateReturns(coord.query_status) ELSE Notified(main)
    /\ handlers' = {IF h.pc = "cancelling" THEN [h EXCEPT !.pc = "done"] ELSE h : h \in handlers}
    /\ UNCHANGED <<backend, local, frag, call, faults>>

\* Coordinator::Cancel, called by the client or the server until the query ends.
Cancel ==
    /\ LockFree
    /\ ~ Ended
    /\ coord.query_status = "OK"
    /\ CancelInternal("client", "CANCELLED")
    /\ UNCHANGED <<backend, main, frag, call, handlers, faults>>

-------------------------------------------------------------------------------
(* Wait and GetNext, in the client's thread *)

\* What a call of the local executor returns; it ends by itself once the remote
\* fragments that feed it have, and a cancelled one says so.
LocalFails == {"ERROR"} \cup (IF local THEN {"CANCELLED"} ELSE {})

AfterOpen == IF coord.needs_finalization THEN "finalize" ELSE "fetch"

\* Wait, up to executor_->Open() or to WaitForAllBackends.  An error of Open goes
\* through UpdateStatus, but Wait itself does not return it.
Wait ==
    /\ main.pc = "wait"
    /\ \/ /\ ~ CoordFragment
          /\ main' = [main EXCEPT !.pc = "all"]
       \/ /\ CoordFragment
          /\ main' = [main EXCEPT !.pc = AfterOpen]
       \/ /\ CoordFragment
          /\ \E status \in LocalFails :
                main' = [main EXCEPT !.pc = "update", !.status = status, !.then = AfterOpen]
    /\ UNCHANGED <<coord, backend, local, frag, call, handlers, faults>>

\* UpdateStatus with an error of the local fragment.
MainUpdate ==
    /\ main.pc = "update"
    /\ LockFree
    /\ \/ /\ coord.query_status = "OK"
          /\ CancelInternal("main", main.status)
          /\ main' = [main EXCEPT !.pc = "cancelling"]
       \/ /\ coord.query_status # "OK"
          /\ main' = UpdateReturns(coord.query_status)
          /\ UNCHANGED <<coord, local>>
    /\ UNCHANGED <<backend, frag, call, handlers, faults>>

FragEnded(b) == frag[b].pc \notin {"none", "run"}

\* GetNext when it returns the last batch, or an error; without an executor it
\* returns the query's status.  Rows stop at the end of the remote fragments'
\* streams or at the limit.
GetNext ==
    /\ main.pc = "fetch"
    /\ \/ /\ ~ CoordFragment /\ LockFree
          /\ main' = [main EXCEPT !.pc = "ended", !.outcome = coord.query_status]
          /\ UNCHANGED coord
       \/ /\ CoordFragment
          /\ \E status \in LocalFails :
                main' = [main EXCEPT !.pc = "update", !.status = status, !.then = "ended"]
          /\ UNCHANGED coord
       \/ /\ CoordFragment
          /\ coord' = [coord EXCEPT !.returned_all = TRUE]
          /\ \/ main' = [main EXCEPT !.pc = "limit", !.walk = 1]
             \/ (\A b \in Backends : FragEnded(b)) /\ main' = [main EXCEPT !.pc = "all"]
    /\ UNCHANGED <<backend, local, frag, call, handlers, faults>>

\* CancelRemoteFragments at the limit: lock_ is not held.
LimitWalk ==
    /\ main.pc = "limit"
    /\ \/ /\ main.walk \in Backends
          /\ CancelBackend(main.walk)
          /\ main' = [main EXCEPT !.walk = @ + 1]
       \/ /\ main.walk = NumBackends + 1
          /\ main' = [main EXCEPT !.pc = "all"]
          /\ UNCHANGED <<backend, frag, faults>>
    /\ UNCHANGED <<coord, local, call, handlers>>

\* Where the client's thread goes with the status WaitForAllBackends returns.
AllReturns(status) ==
    IF ~ CoordFragment /\ coord.needs_finalization
    THEN [main EXCEPT !.pc = "finalize"]
    ELSE [main EXCEPT !.pc = IF ~ CoordFragment /\ status = "OK" THEN "fetch" ELSE "ended",
                      !.outcome = status]

WaitForAllBackends ==
    /\ main.pc = "all"
    /\ LockFree
    /\ main' = IF coord.remaining > 0 /\ coord.query_status = "OK"
               THEN [main EXCEPT !.pc = "blocked"] ELSE AllReturns(coord.query_status)
    /\ UNCHANGED <<coord, backend, local, frag, call, handlers, faults>>

\* FinalizeQuery: move the files of a successful insert, and in any case remove
\* the staging directory.
FinalizeQuery ==
    /\ main.pc = "finalize"
    /\ LockFree
    /\ main' = [main EXCEPT !.pc = "finalized", !.outcome = coord.query_status]
    /\ UNCHANGED <<coord, backend, local, frag, call, handlers, faults>>

\* The server forgets the query, once it has ended or has been cancelled.
UnregisterQuery ==
    /\ LockFree
    /\ coord.registered
    /\ Ended \/ coord.query_status # "OK"
    /\ coord' = [coord EXCEPT !.registered = FALSE]
    /\ UNCHANGED <<backend, main, local, frag, call, handlers, faults>>

-------------------------------------------------------------------------------
(* The fragment's execution thread: Open, and UpdateStatus or FragmentComplete *)

\* The fragment's work is over, well, with an error, or because it noticed that
\* it was cancelled; status_ is set before the reporting thread is stopped.
RunEnds(b, status) ==
    /\ frag[b].pc = "run"
    /\ status = "CANCELLED" => frag[b].cancelled
    /\ frag' = [frag EXCEPT ![b].pc = "stop", ![b].status = status]
    /\ UNCHANGED <<coord, backend, main, local, call, handlers, faults>>

\* StopReportThread: the reporting thread holds report_thread_lock_ while it
\* reports, and it is joined.
StopReportThread(b) ==
    /\ frag[b].pc = "stop"
    /\ frag[b].reporter # "busy"
    /\ frag' = [frag EXCEPT ![b].pc = "final", ![b].reporter = "off"]
    /\ UNCHANGED <<coord, backend, main, local, call, handlers, faults>>

-------------------------------------------------------------------------------
(* SendReport and ReportStatusCb *)

\* FragmentExecState::UpdateStatus: the first error is kept.
FirstError(old, new) == IF old = "OK" THEN new ELSE old

Noted(f, status) == [f EXCEPT !.exec_status = FirstError(f.exec_status, status)]

NewHandler(b, status, done) ==
    [b |-> b, status |-> status, done |-> done, orphan |-> FALSE, pc |-> "find"]

\* The thread that reported goes on: the reporting thread sleeps again, the
\* execution thread closes the fragment and leaves the map.
Reported(f) ==
    IF f.reporter = "busy" THEN [f EXCEPT !.reporter = "sleep"] ELSE [f EXCEPT !.pc = "ended"]

\* A report is begun by the thread that turns f into its busy form: it carries
\* the first error seen, and is final if asked so or if there is an error.  When
\* no connection can be had the error is noted, and nothing else happens.
SendReport(b, busy, done) ==
    LET noted  == Noted(busy, busy.status)
        status == noted.exec_status
        final  == done \/ busy.status # "OK"
    IN  \/ /\ frag' = [frag EXCEPT ![b] = noted]
           /\ call' = [call EXCEPT ![b] = [pc |-> "call", status |-> status, done |-> final]]
           /\ handlers' = handlers \cup {NewHandler(b, status, final)}
           /\ UNCHANGED faults
        \/ /\ Fault(FALSE)
           /\ frag' = [frag EXCEPT ![b] = Reported(Noted(noted, "ERROR"))]
           /\ UNCHANGED <<call, handlers>>

\* One round of ReportProfile.
ReportProfile(b) ==
    /\ frag[b].reporter = "sleep"
    /\ MapThenSumSet(LAMBDA c : frag[c].ticks, Backends) < MaxReports
    /\ SendReport(b, [frag[b] EXCEPT !.reporter = "busy", !.ticks = @ + 1], FALSE)
    /\ UNCHANGED <<coord, backend, main, local>>

FinalReport(b) ==
    /\ frag[b].pc = "final"
    /\ SendReport(b, [frag[b] EXCEPT !.pc = "reporting"], TRUE)
    /\ UNCHANGED <<coord, backend, main, local>>

HandlersOf(b) == {h \in handlers : h.b = b /\ ~ h.orphan}

\* The rpc failed for good, or the coordinator answered with an error: the
\* fragment is cancelled.
ReportRefused(b) ==
    frag' = [frag EXCEPT ![b] =
                Reported([Noted(frag[b], "ERROR") EXCEPT !.cancelled = TRUE])]

ReportReturns(b) ==
    \E h \in HandlersOf(b) :
        /\ h.pc \in {"done", "unknown"}
        /\ \/ h.pc = "done" /\ frag' = [frag EXCEPT ![b] = Reported(@)]
           \/ h.pc = "unknown" /\ ReportRefused(b)
        /\ handlers' = handlers \ {h}
        /\ call' = [call EXCEPT ![b] = NoCall]
        /\ UNCHANGED <<coord, backend, main, local, faults>>

\* The call throws: the request did not arrive, or it did and its handler goes on
\* without a caller.  The first time the client is reopened, and the same report
\* is sent again.
ReportThrows(b) ==
    \E h \in HandlersOf(b) :
        /\ call[b].pc \in {"call", "retry"}
        /\ \/ h.pc = "find" /\ Fault(FALSE) /\ handlers' = handlers \ {h}
           \/ Fault(TRUE) /\ handlers' = (handlers \ {h}) \cup {[h EXCEPT !.orphan = TRUE]}
        /\ IF call[b].pc = "call"
           THEN call' = [call EXCEPT ![b].pc = "reopen"] /\ UNCHANGED frag
           ELSE call' = [call EXCEPT ![b] = NoCall] /\ ReportRefused(b)
        /\ UNCHANGED <<coord, backend, main, local>>

\* The host that failed may stay away: that is the same fault.
ReportReopen(b) ==
    /\ call[b].pc = "reopen"
    /\ \/ /\ call' = [call EXCEPT ![b].pc = "retry"]
          /\ handlers' = handlers \cup {NewHandler(b, call[b].status, call[b].done)}
          /\ UNCHANGED frag
       \/ /\ call' = [call EXCEPT ![b] = NoCall]
          /\ ReportRefused(b)
          /\ UNCHANGED handlers
    /\ UNCHANGED <<coord, backend, main, local, faults>>

-------------------------------------------------------------------------------
(* ReportExecStatus and UpdateFragmentExecStatus, in a thread of the server *)

Moved(h, pc) == (handlers \ {h}) \cup {[h EXCEPT !.pc = pc]}

FindQuery(h) ==
    /\ h.pc = "find"
    /\ handlers' = Moved(h, IF coord.registered THEN "record" ELSE "unknown")
    /\ UNCHANGED <<coord, backend, main, local, frag, call, faults>>

\* The backend's own record, under its own lock; an error is never taken back.
RecordReport(h) ==
    /\ h.pc = "record"
    /\ backend[h.b].pc # "rpc"
    /\ backend' = [backend EXCEPT ![h.b].done = h.done,
                                  ![h.b].status = IF h.status = "OK" THEN @ ELSE h.status]
    /\ handlers' = Moved(h, IF h.done THEN "merge" ELSE "check")
    /\ UNCHANGED <<coord, main, local, frag, call, faults>>

\* A final report brings the insert's results, added to those of the query.
MergeInsert(h) ==
    /\ h.pc = "merge"
    /\ LockFree
    /\ coord' = [coord EXCEPT !.merged[h.b] = @ + 1]
    /\ handlers' = Moved(h, "check")
    /\ UNCHANGED <<backend, main, local, frag, call, faults>>

Ignored(h) == coord.returned_all /\ h.status = "CANCELLED"

\* A variant of CheckReport: a final report is counted whatever its status.
CheckReportCounts(h) ==
    /\ h.pc = "check"
    /\ handlers' = Moved(h, IF h.done THEN "count"
                            ELSE IF h.status # "OK" /\ ~ Ignored(h) THEN "update" ELSE "done")
    /\ UNCHANGED <<coord, backend, main, local, frag, call, faults>>

\* A variant of CheckReport: cancelled fragments are never counted.
CheckReportStrict(h) ==
    /\ h.pc = "check"
    /\ handlers' = Moved(h, IF h.status # "OK" THEN "update"
                            ELSE IF h.done THEN "count" ELSE "done")
    /\ UNCHANGED <<coord, backend, main, local, frag, call, faults>>

CheckReport(h) ==
    /\ h.pc = "check"
    /\ handlers' = Moved(h, IF h.status # "OK" /\ ~ Ignored(h) THEN "update"
                            ELSE IF h.done THEN "count" ELSE "done")
    /\ UNCHANGED <<coord, backend, main, local, frag, call, faults>>

\* UpdateStatus with the error of a remote fragment.
UpdateStatus(h) ==
    /\ h.pc = "update"
    /\ LockFree
    /\ \/ /\ coord.query_status = "OK" /\ ~ Ignored(h)
          /\ CancelInternal("report", h.status)
          /\ handlers' = Moved(h, "cancelling")
       \/ /\ coord.query_status # "OK" \/ Ignored(h)
          /\ handlers' = Moved(h, "done")
          /\ UNCHANGED <<coord, local>>
    /\ UNCHANGED <<backend, main, frag, call, faults>>

\* The fourth critical section: the last fragment to be done wakes WaitForAllBackends.
CountDone(h) ==
    /\ h.pc = "count"
    /\ LockFree
    /\ coord' = [coord EXCEPT !.remaining = @ - 1]
    /\ main' = IF coord.remaining = 1 THEN Notified(main) ELSE main
    /\ handlers' = Moved(h, "done")
    /\ UNCHANGED <<backend, local, frag, call, faults>>

\* The end of a handler whose caller has given up.
OrphanEnds(h) ==
    /\ h.orphan
    /\ h.pc \in {"done", "unknown"}
    /\ handlers' = handlers \ {h}
    /\ UNCHANGED <<coord, backend, main, local, frag, call, faults>>

-------------------------------------------------------------------------------
(* The specification *)

MainStep == StageDone \/ Wait \/ MainUpdate \/ GetNext \/ LimitWalk
            \/ WaitForAllBackends \/ FinalizeQuery

CancelStep == CancelWalk \/ CancelDone

BackendStep(b) ==
    \/ ExecRemoteFragment(b) \/ ExecReturns(b)
    \/ StopReportThread(b) \/ FinalReport(b)
    \/ ReportReturns(b) \/ ReportThrows(b) \/ ReportReopen(b)

HandlerStep(h) ==
    \/ FindQuery(h) \/ RecordReport(h) \/ MergeInsert(h) \/ CheckReport(h)
    \/ UpdateStatus(h) \/ CountDone(h) \/ OrphanEnds(h)

Next ==
    \/ MainStep \/ CancelStep \/ Cancel \/ UnregisterQuery
    \/ \E b \in Backends :
          BackendStep(b) \/ ReportProfile(b) \/ \E status \in Status : RunEnds(b, status)
    \/ \E h \in handlers : HandlerStep(h)

Spec == Init /\ [][Next]_vars

\* A cancelled fragment notices it; another one can be counted on to end only as
\* long as the query goes on and somebody reads its rows.
RunMayEnd(b) ==
    /\ frag[b].cancelled \/ (coord.query_status = "OK" /\ ~ coord.returned_all)
    /\ \E status \in Status : RunEnds(b, status)

\* A thread that can run does.  Mutexes are handed out fairly.  Nobody has to
\* cancel the query or close it, a reporting thread may sleep for long, and no
\* fault has to happen.
Fairness ==
    /\ SF_vars(MainStep)
    /\ WF_vars(CancelStep)
    /\ \A b \in Backends : WF_vars(BackendStep(b)) /\ WF_vars(RunMayEnd(b))
    /\ \A b \in Backends : SF_vars(\E h \in handlers : h.b = b /\ HandlerStep(h))

FairSpec == Spec /\ Fairness

-------------------------------------------------------------------------------
(* Properties *)

\* Setting the error status and cancelling are one step for whoever takes lock_
\* (Cancel, UpdateStatus and Exec call CancelInternal without releasing it): once
\* the lock is free, no running fragment is left that the coordinator knows of and
\* has not told.
CancelsAll ==
    LockFree /\ coord.query_status # "OK" => \A b \in Backends : ToCancel(b) => FragEnded(b)

\* A waiter on backend_completion_cv_ is never forgotten: as long as it sleeps
\* there is a backend left to wait for and no error, or the one who set the error
\* holds lock_ and has yet to notify (WaitForAllBackends, CancelRemoteFragments).
WaiterWoken ==
    main.pc = "blocked" /\ LockFree => coord.remaining > 0 /\ coord.query_status = "OK"

\* A parallel insert is finalized as a success only after each backend's results
\* have been merged, exactly once, and every fragment has ended without an error
\* (UpdateFragmentExecStatus merges before it counts; Wait, FinalizeQuery) -- unless
\* a report arrived whose answer was lost, which is then sent and counted again.
FinalizedComplete ==
    main.pc = "finalized" /\ main.outcome = "OK" /\ ~ CoordFragment /\ ~ faults.late =>
        \A b \in Backends : /\ coord.merged[b] = 1
                            /\ frag[b].pc \in {"reporting", "ended"}
                            /\ frag[b].status = "OK"

\* The query comes to an end.
QueryEnds == <>Ended

\* When the query has an error, every fragment that was started ends, even one
\* whose rows nobody reads any more.
AbortReaches ==
    coord.query_status # "OK" ~> \A b \in Backends : frag[b].pc \in {"none", "ended"}

\* The last NULL batch is returned only when every fragment has come to its end.
AllDone ==
    main.pc = "ended" /\ main.outcome = "OK" => \A b \in Backends : FragEnded(b)

===============================================================================
