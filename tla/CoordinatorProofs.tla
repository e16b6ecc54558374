--------------------------- MODULE CoordinatorProofs ---------------------------
(***************************************************************************)
(* Proofs about Coordinator, for every plan, every number of backends and    *)
(* every number of reports and failures: an error is told to every fragment, *)
(* no wakeup is lost, and a finalized insert is complete.                    *)
(***************************************************************************)
EXTENDS Coordinator, TLAPS

CoordRec == [lock : {"exec", "free", "main", "client", "report"}, query_status : Status,
             returned_all : BOOLEAN, remaining : Int, walk : 0 .. NumBackends + 1,
             registered : BOOLEAN, merged : [Backends -> Nat], needs_finalization : BOOLEAN]

BackendRec == [pc : {"none", "rpc", "started", "failed"}, status : Status,
               initiated : BOOLEAN, done : BOOLEAN]

MainRec == [pc : {"exec", "wait", "update", "cancelling", "fetch", "limit", "all", "blocked",
                  "finalize", "finalized", "ended"},
            stage : 1 .. Len(Stages), status : Status, then : {"fetch", "finalize", "ended"},
            walk : 0 .. NumBackends + 1, outcome : Status \cup {"none"}]

FragRec == [pc : {"none", "run", "stop", "final", "reporting", "ended"}, status : Status,
            exec_status : Status, cancelled : BOOLEAN, reporter : {"off", "sleep", "busy"},
            ticks : Nat]

CallRec == [pc : {"none", "call", "reopen", "retry"}, status : Status, done : BOOLEAN]

HandlerRec == [b : Backends, status : Status, done : BOOLEAN, orphan : BOOLEAN,
               pc : {"find", "record", "merge", "check", "update", "cancelling", "count",
                     "done", "unknown"}]

TypeInv ==
    /\ coord \in CoordRec
    /\ backend \in [Backends -> BackendRec]
    /\ main \in MainRec
    /\ local \in BOOLEAN
    /\ frag \in [Backends -> FragRec]
    /\ call \in [Backends -> CallRec]
    /\ handlers \subseteq HandlerRec
    /\ faults \in [n : Nat, late : BOOLEAN]

\* Exec holds lock_ until the last stage has been started, CancelInternal while it walks
LockInv ==
    /\ main.pc = "exec" <=> coord.lock = "exec"
    /\ coord.walk = 0 <=> coord.lock \in {"exec", "free"}
    /\ main.pc = "exec" => coord.query_status = "OK"

\* The rpcs of Exec are those of the current stage, and only they start a fragment
StartInv ==
    \A b \in Backends :
        /\ backend[b].pc = "rpc" => main.pc = "exec" /\ b \in Stages[main.stage]
        /\ backend[b].pc = "none" => frag[b].pc = "none"
        /\ frag[b].pc = "none" => frag[b].reporter = "off"
        /\ frag[b].pc \in {"none", "run"} => frag[b].status = "OK"

\* Only a fragment that was started reports, and only one that has come to its end
\* sends a final report
CallOK(b) == (call[b].pc # "none" => frag[b].pc # "none") /\ (call[b].done => FragEnded(b))

HandlerOK(h) == frag[h.b].pc # "none" /\ (h.done => FragEnded(h.b))

DoneInv ==
    /\ \A b \in Backends : CallOK(b) /\ (backend[b].done => FragEnded(b))
    /\ \A h \in handlers : HandlerOK(h)

\* What the walk has passed has been told
WalkInv ==
    \A b \in Backends :
        /\ coord.query_status # "OK" /\ (coord.walk = 0 \/ b < coord.walk)
        /\ ToCancel(b)
        => FragEnded(b)

\* Who sleeps has something to wait for
WaitInv ==
    main.pc = "blocked" =>
        coord.remaining > 0 /\ (coord.query_status = "OK" \/ coord.walk # 0)

Inv == TypeInv /\ LockInv /\ StartInv /\ DoneInv /\ WalkInv /\ WaitInv

-------------------------------------------------------------------------------
(* Records *)

\* The first error is kept.
LEMMA FirstErrorIs ==
    ASSUME NEW old \in Status, NEW new \in Status
    PROVE  /\ FirstError(old, new) \in Status
           /\ FirstError(old, new) = "OK" <=> old = "OK" /\ new = "OK"
BY Zenon DEF FirstError, Status

\* A thread that waits is woken, and nothing else happens.
LEMMA NotifiedIs ==
    ASSUME NEW m \in MainRec
    PROVE  /\ Notified(m) \in MainRec
           /\ Notified(m).pc = IF m.pc = "blocked" THEN "all" ELSE m.pc
           /\ Notified(m).stage = m.stage /\ Notified(m).status = m.status
           /\ Notified(m).then = m.then /\ Notified(m).outcome = m.outcome
<1> DEFINE p == IF m.pc = "blocked" THEN "all" ELSE m.pc
<1>1. Notified(m) = [m EXCEPT !.pc = p]
  BY Zenon DEF Notified, MainRec
<1>2. p \in {"exec", "wait", "update", "cancelling", "fetch", "limit", "all", "blocked",
             "finalize", "finalized", "ended"}
  BY Zenon DEF MainRec
<1> HIDE DEF p
<1>3. [m EXCEPT !.pc = p] \in MainRec
  BY <1>2, Zenon DEF MainRec
<1>4. /\ [m EXCEPT !.pc = p].pc = p
      /\ [m EXCEPT !.pc = p].stage = m.stage /\ [m EXCEPT !.pc = p].status = m.status
      /\ [m EXCEPT !.pc = p].then = m.then /\ [m EXCEPT !.pc = p].outcome = m.outcome
  BY Zenon DEF MainRec
<1> QED BY <1>1, <1>3, <1>4, Zenon DEF p

\* The client's thread goes on after UpdateStatus.
LEMMA UpdateReturnsIs ==
    ASSUME main \in MainRec, NEW status \in Status
    PROVE  /\ UpdateReturns(status) \in MainRec
           /\ UpdateReturns(status).pc = main.then
           /\ UpdateReturns(status).stage = main.stage
<1> DEFINE o == IF main.then = "ended" THEN status ELSE main.outcome
           r == [main EXCEPT !.pc = main.then, !.outcome = o]
<1>1. UpdateReturns(status) = r
  BY Zenon DEF UpdateReturns, MainRec
<1>2. o \in Status \cup {"none"}
  BY Zenon DEF MainRec
<1> HIDE DEF o
<1>3. r \in MainRec
  BY <1>2, Zenon DEF MainRec
<1>4. r.pc = main.then /\ r.stage = main.stage
  BY Zenon DEF MainRec
<1> QED BY <1>1, <1>3, <1>4, Zenon

\* A report has been sent, or not.
LEMMA ReportedIs ==
    ASSUME NEW f \in FragRec
    PROVE  /\ Reported(f) \in FragRec
           /\ Reported(f).pc = IF f.reporter = "busy" THEN f.pc ELSE "ended"
           /\ Reported(f).reporter = IF f.reporter = "busy" THEN "sleep" ELSE f.reporter
           /\ Reported(f).status = f.status /\ Reported(f).exec_status = f.exec_status
<1>1. CASE f.reporter = "busy"
  <2> DEFINE g == [f EXCEPT !.reporter = "sleep"]
  <2>1. Reported(f) = g
    BY <1>1, Zenon DEF Reported
  <2>2. g \in FragRec
    BY Zenon DEF FragRec
  <2>3. g.pc = f.pc /\ g.reporter = "sleep" /\ g.status = f.status /\ g.exec_status = f.exec_status
    BY Zenon DEF FragRec
  <2> QED BY <1>1, <2>1, <2>2, <2>3, Zenon
<1>2. CASE f.reporter # "busy"
  <2> DEFINE g == [f EXCEPT !.pc = "ended"]
  <2>1. Reported(f) = g
    BY <1>2, Zenon DEF Reported
  <2>2. g \in FragRec
    BY Zenon DEF FragRec
  <2>3. g.pc = "ended" /\ g.reporter = f.reporter /\ g.status = f.status
        /\ g.exec_status = f.exec_status
    BY Zenon DEF FragRec
  <2> QED BY <1>2, <2>1, <2>2, <2>3, Zenon
<1> QED BY <1>1, <1>2, Zenon

\* A fragment is cancelled.
LEMMA CancelledIs ==
    ASSUME NEW f \in FragRec
    PROVE  /\ Cancelled(f) \in FragRec
           /\ Cancelled(f).pc = f.pc /\ Cancelled(f).reporter = f.reporter
           /\ Cancelled(f).status = f.status /\ Cancelled(f).exec_status = f.exec_status
<1> DEFINE g == [f EXCEPT !.cancelled = TRUE]
<1>1. Cancelled(f) = f \/ Cancelled(f) = g
  BY Zenon DEF Cancelled
<1>2. g \in FragRec
  BY Zenon DEF FragRec
<1>3. g.pc = f.pc /\ g.reporter = f.reporter /\ g.status = f.status /\ g.exec_status = f.exec_status
  BY Zenon DEF FragRec
<1> QED BY <1>1, <1>2, <1>3, Zenon

\* A fault is counted, and its lateness remembered.
LEMMA FaultIs ==
    ASSUME faults \in [n : Nat, late : BOOLEAN], NEW late \in BOOLEAN, Fault(late)
    PROVE  faults' \in [n : Nat, late : BOOLEAN] /\ (faults'.late <=> faults.late \/ late)
<1>1. faults' = [n |-> faults.n + 1, late |-> faults.late \/ late]
  BY Zenon DEF Fault
<1>2. faults.n + 1 \in Nat /\ (faults.late \/ late) \in BOOLEAN
  OBVIOUS
<1>3. faults' \in [n : Nat, late : BOOLEAN]
  BY <1>1, <1>2, Zenon
<1>4. faults'.late = (faults.late \/ late)
  BY <1>1, Zenon
<1> QED BY <1>3, <1>4, Zenon

\* The handlers there may be after a step, as far as their reports are concerned.
SameReports(hs) ==
    /\ hs \subseteq HandlerRec
    /\ \A g \in hs : \E h \in handlers : g.b = h.b /\ g.done = h.done

\* A handler moves on with its report.
LEMMA MovedIs ==
    ASSUME handlers \subseteq HandlerRec, NEW h \in handlers,
           NEW pc \in {"find", "record", "merge", "check", "update", "cancelling", "count",
                       "done", "unknown"}
    PROVE  /\ [h EXCEPT !.pc = pc] \in HandlerRec
           /\ [h EXCEPT !.pc = pc].b = h.b /\ [h EXCEPT !.pc = pc].done = h.done
           /\ [h EXCEPT !.pc = pc].status = h.status /\ [h EXCEPT !.pc = pc].pc = pc
           /\ [h EXCEPT !.pc = pc].orphan = h.orphan
           /\ SameReports(Moved(h, pc))
<1> DEFINE g == [h EXCEPT !.pc = pc]
<1>1. h \in HandlerRec
  BY Zenon
<1>2. g \in HandlerRec
  BY <1>1, Zenon DEF HandlerRec
<1>3. g.b = h.b /\ g.done = h.done /\ g.status = h.status /\ g.pc = pc /\ g.orphan = h.orphan
  BY <1>1, Zenon DEF HandlerRec
<1> HIDE DEF g
<1>4. SameReports((handlers \ {h}) \cup {g})
  BY <1>2, <1>3, Zenon DEF SameReports
<1> QED BY <1>2, <1>3, <1>4, Zenon DEF g, Moved

-------------------------------------------------------------------------------
(* The error is told, and the waiter is woken *)

\* Nothing but the client's thread moves, after Exec.
LEMMA MainMoves ==
    ASSUME Inv, UNCHANGED <<coord, backend, local, frag, call, handlers, faults>>,
           main' \in MainRec, main.pc # "exec", main'.pc # "exec",
           main'.pc = "blocked" => coord.remaining > 0 /\ coord.query_status = "OK"
    PROVE  Inv'
<1>1. TypeInv'
  BY Zenon DEF Inv, TypeInv
<1>2. LockInv'
  BY Zenon DEF Inv, LockInv
<1>3. StartInv'
  BY Zenon DEF Inv, StartInv
<1>4. DoneInv' /\ WalkInv'
  BY Zenon DEF Inv, DoneInv, CallOK, HandlerOK, WalkInv, FragEnded, ToCancel
<1>5. WaitInv'
  BY Zenon DEF WaitInv
<1> QED BY <1>1, <1>2, <1>3, <1>4, <1>5, Zenon DEF Inv

\* CancelInternal begins.
LEMMA CancelBegins ==
    ASSUME Inv, NEW who \in {"main", "client", "report"}, NEW status \in Status,
           CancelInternal(who, status), UNCHANGED <<backend, frag, call, faults>>,
           \A b \in Backends : backend[b].pc # "rpc",
           SameReports(handlers'), main' \in MainRec, main'.pc # "exec",
           main'.pc = "blocked" => main.pc = "blocked"
    PROVE  Inv'
<1> DEFINE c == [coord EXCEPT !.lock = who, !.query_status = status, !.walk = 1]
<1>1. coord \in CoordRec /\ 1 \in 0 .. NumBackends + 1
  BY PlanAssumption DEF Inv, TypeInv
<1>2. c \in CoordRec
  BY <1>1, Zenon DEF CoordRec
<1>3. c.lock = who /\ c.walk = 1 /\ c.remaining = coord.remaining
  BY <1>1, Zenon DEF CoordRec
<1>4. coord' = c /\ local' = TRUE
  BY Zenon DEF CancelInternal
<1> HIDE DEF c
<1>5. TypeInv'
  BY <1>2, <1>4, Zenon DEF Inv, TypeInv, SameReports
<1>6. LockInv'
  BY <1>3, <1>4 DEF LockInv
<1>7. StartInv'
  BY Zenon DEF Inv, StartInv
<1>8. DoneInv'
  <2>1. \A b \in Backends : CallOK(b)' /\ (backend'[b].done => FragEnded(b)')
    BY Zenon DEF Inv, DoneInv, FragEnded, CallOK
  <2>2. \A h \in handlers' : HandlerOK(h)'
    BY Zenon DEF Inv, DoneInv, FragEnded, HandlerOK, SameReports
  <2> QED BY <2>1, <2>2, Zenon DEF DoneInv
<1>9. WalkInv'
  BY <1>3, <1>4 DEF WalkInv, Backends
<1>10. WaitInv'
  BY <1>3, <1>4 DEF Inv, WaitInv
<1> QED BY <1>5, <1>6, <1>7, <1>8, <1>9, <1>10, Zenon DEF Inv

\* A fragment that was started moves, its report and the handlers with it.
LEMMA FragMoves ==
    ASSUME Inv, UNCHANGED <<coord, backend, main, local>>, NEW b \in Backends,
           frag[b].pc # "none", NEW g \in FragRec, frag' = [frag EXCEPT ![b] = g], g.pc # "none",
           FragEnded(b) => g.pc \notin {"none", "run"},
           g.pc \in {"none", "run"} => g.status = "OK",
           call' \in [Backends -> CallRec], handlers' \subseteq HandlerRec,
           faults' \in [n : Nat, late : BOOLEAN],
           \A c \in Backends : c # b => call'[c] = call[c],
           call'[b].done => call[b].done \/ g.pc # "run",
           \A x \in handlers' : \/ \E h \in handlers : x.b = h.b /\ x.done = h.done
                                \/ x.b = b /\ (x.done => g.pc # "run")
    PROVE  Inv'
<1>1. frag \in [Backends -> FragRec] /\ backend \in [Backends -> BackendRec]
  BY Zenon DEF Inv, TypeInv
<1>2. \A c \in Backends : frag'[c] = IF c = b THEN g ELSE frag[c]
  BY <1>1, Zenon
<1>3. \A c \in Backends : FragEnded(c) => FragEnded(c)'
  BY <1>2 DEF FragEnded
<1>4. TypeInv'
  BY <1>1, Zenon DEF Inv, TypeInv
<1>5. LockInv' /\ WaitInv'
  BY Zenon DEF Inv, LockInv, WaitInv
<1>6. StartInv'
  BY <1>2 DEF Inv, StartInv
<1>7. DoneInv'
  <2>1. \A c \in Backends : frag[c].pc # "none" => frag'[c].pc # "none"
    BY <1>2, Zenon
  <2>2. g.pc # "run" => FragEnded(b)'
    BY <1>2, Zenon DEF FragEnded
  <2>3. \A c \in Backends : CallOK(c)' /\ (backend'[c].done => FragEnded(c)')
    BY <1>3, <2>1, <2>2, Zenon DEF Inv, DoneInv, CallOK
  <2>4. \A h \in handlers : h.b \in Backends /\ HandlerOK(h)
    BY Zenon DEF Inv, TypeInv, HandlerRec, DoneInv
  <2>5. \A x \in handlers' : HandlerOK(x)'
    BY <1>3, <2>1, <2>2, <2>4, ZenonT(60) DEF HandlerOK
  <2> QED BY <2>3, <2>5, Zenon DEF DoneInv
<1>8. WalkInv'
  <2>1. \A c \in Backends : ToCancel(c)' <=> ToCancel(c)
    BY Zenon DEF ToCancel
  <2> QED BY <1>3, <2>1, Zenon DEF Inv, WalkInv
<1> QED BY <1>4, <1>5, <1>6, <1>7, <1>8, Zenon DEF Inv

\* Cancelling one backend changes no fragment's state, and leaves nothing to cancel.
LEMMA CancelBackendIs ==
    ASSUME Inv, NEW b \in Backends, CancelBackend(b)
    PROVE  /\ backend' \in [Backends -> BackendRec] /\ frag' \in [Backends -> FragRec]
           /\ faults' \in [n : Nat, late : BOOLEAN] /\ (faults'.late <=> faults.late)
           /\ ~ ToCancel(b)'
           /\ \A c \in Backends :
                 /\ backend'[c].pc = backend[c].pc /\ backend'[c].done = backend[c].done
                 /\ ToCancel(c)' => ToCancel(c)
                 /\ frag'[c].pc = frag[c].pc /\ frag'[c].status = frag[c].status
                 /\ frag'[c].exec_status = frag[c].exec_status
                 /\ frag'[c].reporter = frag[c].reporter
<1>1. /\ frag \in [Backends -> FragRec] /\ backend \in [Backends -> BackendRec]
      /\ faults \in [n : Nat, late : BOOLEAN]
  BY Zenon DEF Inv, TypeInv
<1>2. CASE ~ ToCancel(b) /\ UNCHANGED <<backend, frag, faults>>
  BY <1>1, <1>2, Zenon DEF ToCancel
<1>3. CASE /\ ToCancel(b) /\ backend' = [backend EXCEPT ![b].status = "CANCELLED"]
           /\ \/ frag' = [frag EXCEPT ![b] = Cancelled(frag[b])] /\ UNCHANGED faults
              \/ Fault(FALSE) /\ UNCHANGED frag
  <2> DEFINE r == [backend[b] EXCEPT !.status = "CANCELLED"]
  <2>1. backend' = [backend EXCEPT ![b] = r]
    BY <1>1, <1>3, Zenon
  <2>2. r \in BackendRec
    BY <1>1 DEF BackendRec, Status
  <2>3. r.status = "CANCELLED" /\ r.pc = backend[b].pc /\ r.done = backend[b].done
    BY <1>1, Zenon DEF BackendRec
  <2> HIDE DEF r
  <2>4. backend' \in [Backends -> BackendRec]
    BY <1>1, <2>1, <2>2, Zenon
  <2>5. \A c \in Backends : backend'[c] = IF c = b THEN r ELSE backend[c]
    BY <1>1, <2>1, Zenon
  <2>6. ~ ToCancel(b)'
    BY <2>3, <2>5, Zenon DEF ToCancel
  <2>7. \A c \in Backends : /\ backend'[c].pc = backend[c].pc /\ backend'[c].done = backend[c].done
                            /\ ToCancel(c)' => ToCancel(c)
    BY <2>3, <2>5, Zenon DEF ToCancel
  <2>8. faults' \in [n : Nat, late : BOOLEAN] /\ (faults'.late <=> faults.late)
    BY <1>1, <1>3 DEF Fault
  <2>9. /\ frag' \in [Backends -> FragRec]
        /\ \A c \in Backends : /\ frag'[c].pc = frag[c].pc /\ frag'[c].status = frag[c].status
                               /\ frag'[c].exec_status = frag[c].exec_status
                               /\ frag'[c].reporter = frag[c].reporter
    <3>1. CASE frag' = [frag EXCEPT ![b] = Cancelled(frag[b])]
      <4>1. /\ Cancelled(frag[b]) \in FragRec
            /\ Cancelled(frag[b]).pc = frag[b].pc /\ Cancelled(frag[b]).reporter = frag[b].reporter
            /\ Cancelled(frag[b]).status = frag[b].status
            /\ Cancelled(frag[b]).exec_status = frag[b].exec_status
        BY <1>1, CancelledIs, Zenon
      <4> QED BY <1>1, <3>1, <4>1, Zenon
    <3>2. CASE frag' = frag
      BY <1>1, <3>2, Zenon
    <3> QED BY <1>3, <3>1, <3>2, Zenon
  <2> QED BY <2>4, <2>6, <2>7, <2>8, <2>9, Zenon
<1> QED BY <1>2, <1>3, Zenon DEF CancelBackend
\* The query begins well.
LEMMA InitInv ==
    ASSUME Init
    PROVE  Inv
<1>1. NumBackends \in Nat /\ 1 \in 1 .. Len(Stages) /\ 0 \in 0 .. NumBackends + 1
  BY PlanAssumption
<1>2. PICK insert \in BOOLEAN :
         coord = [lock |-> "exec", query_status |-> "OK", returned_all |-> FALSE,
                  remaining |-> NumBackends, walk |-> 0, registered |-> TRUE,
                  merged |-> [b \in Backends |-> 0], needs_finalization |-> insert]
  BY PlanAssumption, Zenon DEF Init
<1>3. coord \in CoordRec
  <2>1. [b \in Backends |-> 0] \in [Backends -> Nat] /\ NumBackends \in Int
    BY <1>1
  <2> QED BY <1>1, <1>2, <2>1, Zenon DEF CoordRec, Status
<1>4. backend \in [Backends -> BackendRec]
  BY Zenon DEF Init, NewBackend, BackendRec, Status
<1>5. main \in MainRec
  BY <1>1, Zenon DEF Init, MainRec, Status
<1>6. frag \in [Backends -> FragRec]
  BY Zenon DEF Init, NewFrag, FragRec, Status
<1>7. call \in [Backends -> CallRec]
  BY Zenon DEF Init, NoCall, CallRec, Status
<1>8. local \in BOOLEAN /\ handlers \subseteq HandlerRec /\ faults \in [n : Nat, late : BOOLEAN]
  BY Zenon DEF Init
<1>9. TypeInv
  BY <1>3, <1>4, <1>5, <1>6, <1>7, <1>8, Zenon DEF TypeInv
<1>10. LockInv /\ WaitInv
  BY <1>2, Zenon DEF Init, LockInv, WaitInv
<1>11. \A b \in Backends : backend[b] = NewBackend /\ frag[b] = NewFrag /\ call[b] = NoCall
  BY Zenon DEF Init
<1>12. StartInv
  BY <1>11 DEF StartInv, NewBackend, NewFrag
<1>13. DoneInv
  BY <1>11, Zenon DEF Init, DoneInv, CallOK, NewBackend, NoCall
<1>14. WalkInv
  BY <1>2, Zenon DEF WalkInv
<1> QED BY <1>9, <1>10, <1>12, <1>13, <1>14, Zenon DEF Inv

\* A stage of Exec is over.
LEMMA StageDoneKept ==
    ASSUME Inv, StageDone
    PROVE  Inv'
<1>1. main \in MainRec /\ coord \in CoordRec /\ main.stage \in 1 .. Len(Stages)
  BY Zenon DEF Inv, TypeInv, MainRec
<1>2. \A b \in Backends : backend[b].pc # "rpc"
  BY Zenon DEF StageDone, Inv, StartInv
<1>3. UNCHANGED <<backend, frag, call, handlers, faults>> /\ main.pc = "exec"
  BY Zenon DEF StageDone
<1>4. SameReports(handlers') /\ TypeInv /\ coord.query_status = "OK"
  BY <1>3, Zenon DEF Inv, TypeInv, SameReports, LockInv
<1>5. CASE /\ CancelInternal("main", "ERROR")
           /\ main' = [main EXCEPT !.pc = "cancelling", !.then = "ended"]
  <2>1. main' \in MainRec /\ main'.pc = "cancelling"
    BY <1>1, <1>5, Zenon DEF MainRec
  <2> QED BY <1>2, <1>3, <1>4, <1>5, <2>1, CancelBegins, Zenon DEF Status
<1>6. ASSUME main' \in MainRec, coord' \in CoordRec, local' = local, LockInv',
             coord'.query_status = "OK", main'.pc # "blocked"
      PROVE  Inv'
  <2>1. TypeInv'
    BY <1>3, <1>4, <1>6, Zenon DEF TypeInv
  <2>2. StartInv'
    BY <1>2, <1>3, Zenon DEF Inv, StartInv
  <2>3. DoneInv'
    BY <1>3, Zenon DEF Inv, DoneInv, CallOK, HandlerOK, FragEnded
  <2>4. WalkInv' /\ WaitInv'
    BY <1>6, Zenon DEF WalkInv, WaitInv
  <2> QED BY <1>6, <2>1, <2>2, <2>3, <2>4, Zenon DEF Inv
<1>7. CASE /\ main.stage < Len(Stages) /\ main' = [main EXCEPT !.stage = @ + 1]
           /\ UNCHANGED <<coord, local>>
  <2>1. main.stage + 1 \in 1 .. Len(Stages)
    BY <1>1, <1>7, PlanAssumption
  <2>2. main' \in MainRec /\ main'.pc = "exec"
    BY <1>1, <1>3, <1>7, <2>1, Zenon DEF MainRec
  <2>3. LockInv'
    BY <1>3, <1>7, <2>2, Zenon DEF Inv, LockInv
  <2> QED BY <1>1, <1>4, <1>6, <1>7, <2>2, <2>3, Zenon
<1>8. CASE /\ main' = [main EXCEPT !.pc = "wait"] /\ coord' = [coord EXCEPT !.lock = "free"]
           /\ UNCHANGED local
  <2>1. main' \in MainRec /\ main'.pc = "wait"
    BY <1>1, <1>8, Zenon DEF MainRec
  <2>2. coord' \in CoordRec
    BY <1>1, <1>8, Zenon DEF CoordRec
  <2>3. coord'.lock = "free" /\ coord'.walk = coord.walk /\ coord'.query_status = "OK"
    BY <1>1, <1>4, <1>8, Zenon DEF CoordRec
  <2>4. LockInv'
    BY <1>3, <2>1, <2>3, Zenon DEF Inv, LockInv
  <2> QED BY <1>6, <1>8, <2>1, <2>2, <2>3, <2>4, Zenon
<1> QED BY <1>5, <1>7, <1>8, Zenon DEF StageDone

\* The steps of the client's thread that change nothing else.
LEMMA MainKept ==
    ASSUME Inv, Wait \/ WaitForAllBackends \/ FinalizeQuery
    PROVE  Inv'
<1>1. /\ main \in MainRec /\ coord \in CoordRec /\ local \in BOOLEAN
      /\ UNCHANGED <<coord, backend, local, frag, call, handlers, faults>>
  BY Zenon DEF Inv, TypeInv, Wait, WaitForAllBackends, FinalizeQuery
<1>2. LocalFails \subseteq Status /\ AfterOpen \in {"finalize", "fetch"}
      /\ coord.query_status \in Status
  BY <1>1, Zenon DEF LocalFails, AfterOpen, Status, CoordRec
<1>3. CASE Wait
  <2>1. main.pc = "wait"
    BY <1>3, Zenon DEF Wait
  <2>2. CASE main' = [main EXCEPT !.pc = "all"]
    <3>1. main' \in MainRec /\ main'.pc = "all"
      BY <1>1, <2>2, Zenon DEF MainRec
    <3> QED BY <1>1, <2>1, <3>1, MainMoves, Zenon
  <2>3. CASE main' = [main EXCEPT !.pc = AfterOpen]
    <3>1. main' \in MainRec /\ main'.pc = AfterOpen
      BY <1>1, <1>2, <2>3, Zenon DEF MainRec
    <3> QED BY <1>1, <1>2, <2>1, <3>1, MainMoves, Zenon
  <2>4. ASSUME NEW status \in LocalFails,
               main' = [main EXCEPT !.pc = "update", !.status = status, !.then = AfterOpen]
        PROVE  Inv'
    <3>1. main' \in MainRec /\ main'.pc = "update"
      BY <1>1, <1>2, <2>4, Zenon DEF MainRec
    <3> QED BY <1>1, <2>1, <3>1, MainMoves, Zenon
  <2> QED BY <1>3, <2>2, <2>3, <2>4, Zenon DEF Wait
<1>4. CASE WaitForAllBackends
  <2>1. main.pc = "all"
    BY <1>4, Zenon DEF WaitForAllBackends
  <2>2. CASE /\ coord.remaining > 0 /\ coord.query_status = "OK"
             /\ main' = [main EXCEPT !.pc = "blocked"]
    <3>1. main' \in MainRec
      BY <1>1, <2>2, Zenon DEF MainRec
    <3> QED BY <1>1, <2>1, <2>2, <3>1, MainMoves, Zenon DEF MainRec
  <2>3. CASE main' = AllReturns(coord.query_status)
    <3> DEFINE st == coord.query_status
    <3>1. main' \in MainRec /\ main'.pc \notin {"exec", "blocked"}
      <4> HIDE DEF st
      <4>0. st \in Status /\ st \in Status \cup {"none"}
        BY <1>2, Zenon DEF st
      <4>1. CASE main' = [main EXCEPT !.pc = "ended", !.outcome = st]
        BY <1>1, <4>0, <4>1, Zenon DEF MainRec
      <4>2. CASE main' = [main EXCEPT !.pc = "finalize"]
        BY <1>1, <4>2, Zenon DEF MainRec
      <4>3. CASE main' = [main EXCEPT !.pc = "fetch", !.outcome = st]
        BY <1>1, <4>0, <4>3, Zenon DEF MainRec
      <4> QED BY <2>3, <4>1, <4>2, <4>3, Zenon DEF AllReturns, st
    <3> QED BY <1>1, <2>1, <3>1, MainMoves, Zenon
  <2> QED BY <1>4, <2>2, <2>3, Zenon DEF WaitForAllBackends
<1>5. CASE FinalizeQuery
  <2>1. /\ main.pc = "finalize"
        /\ main' = [main EXCEPT !.pc = "finalized", !.outcome = coord.query_status]
    BY <1>5, Zenon DEF FinalizeQuery
  <2>2. main' \in MainRec /\ main'.pc = "finalized"
    BY <1>1, <1>2, <2>1, Zenon DEF MainRec
  <2> QED BY <1>1, <2>1, <2>2, MainMoves, Zenon
<1> QED BY <1>3, <1>4, <1>5, Zenon
\* Outside Exec no rpc of it runs.
LEMMA NoRpc ==
    ASSUME Inv, main.pc # "exec"
    PROVE  \A b \in Backends : backend[b].pc # "rpc"
BY Zenon DEF Inv, StartInv

\* Outside Exec, a step that changes of the coordinator's fields none that the
\* cancellation reads.
LEMMA CoordMoves ==
    ASSUME Inv, UNCHANGED <<backend, local, frag, call, faults>>, main.pc # "exec",
           SameReports(handlers'), coord' \in CoordRec,
           coord'.lock = coord.lock, coord'.walk = coord.walk,
           coord'.query_status = coord.query_status,
           main' \in MainRec, main'.pc # "exec",
           main'.pc = "blocked" => main.pc = "blocked" /\ coord'.remaining > 0
    PROVE  Inv'
<1>1. TypeInv'
  BY Zenon DEF Inv, TypeInv, SameReports
<1>2. LockInv' /\ WaitInv'
  BY Zenon DEF Inv, LockInv, WaitInv
<1>3. StartInv'
  BY NoRpc, Zenon DEF Inv, StartInv
<1>4. DoneInv'
  <2>1. \A b \in Backends : CallOK(b)' /\ (backend'[b].done => FragEnded(b)')
    BY Zenon DEF Inv, DoneInv, FragEnded, CallOK
  <2>2. \A h \in handlers' : HandlerOK(h)'
    BY Zenon DEF Inv, DoneInv, FragEnded, HandlerOK, SameReports
  <2> QED BY <2>1, <2>2, Zenon DEF DoneInv
<1>5. WalkInv'
  <2>1. \A b \in Backends : (ToCancel(b)' <=> ToCancel(b)) /\ (FragEnded(b)' <=> FragEnded(b))
    BY Zenon DEF ToCancel, FragEnded
  <2> QED BY <2>1, Zenon DEF Inv, WalkInv
<1> QED BY <1>1, <1>2, <1>3, <1>4, <1>5, Zenon DEF Inv

\* UpdateStatus in the client's thread.
LEMMA MainUpdateKept ==
    ASSUME Inv, MainUpdate
    PROVE  Inv'
<1>1. main \in MainRec /\ coord \in CoordRec /\ main.pc = "update"
      /\ UNCHANGED <<backend, frag, call, handlers, faults>>
  BY Zenon DEF Inv, TypeInv, MainUpdate
<1>2. main.status \in Status /\ coord.query_status \in Status
      /\ main.then \in {"fetch", "finalize", "ended"}
  BY <1>1, Zenon DEF MainRec, CoordRec
<1>3. SameReports(handlers')
  BY <1>1, Zenon DEF Inv, TypeInv, SameReports
<1>4. CASE CancelInternal("main", main.status) /\ main' = [main EXCEPT !.pc = "cancelling"]
  <2>1. main' \in MainRec /\ main'.pc = "cancelling"
    BY <1>1, <1>4, Zenon DEF MainRec
  <2> QED BY <1>1, <1>2, <1>3, <1>4, <2>1, NoRpc, CancelBegins, Zenon
<1>5. CASE main' = UpdateReturns(coord.query_status) /\ UNCHANGED <<coord, local>>
  <2>1. main' \in MainRec /\ main'.pc = main.then
    BY <1>1, <1>2, <1>5, UpdateReturnsIs, Zenon
  <2> QED BY <1>1, <1>2, <1>5, <2>1, MainMoves, Zenon
<1> QED BY <1>4, <1>5, Zenon DEF MainUpdate

\* GetNext.
LEMMA GetNextKept ==
    ASSUME Inv, GetNext
    PROVE  Inv'
<1>1. /\ main \in MainRec /\ coord \in CoordRec /\ local \in BOOLEAN /\ main.pc = "fetch"
      /\ UNCHANGED <<backend, local, frag, call, handlers, faults>>
  BY Zenon DEF Inv, TypeInv, GetNext
<1>0. 1 \in 0 .. NumBackends + 1
  BY PlanAssumption
<1>2. LocalFails \subseteq Status /\ coord.query_status \in Status
  BY <1>1, Zenon DEF LocalFails, Status, CoordRec
<1>3. CASE main' = [main EXCEPT !.pc = "ended", !.outcome = coord.query_status] /\ coord' = coord
  <2>1. main' \in MainRec /\ main'.pc = "ended"
    BY <1>1, <1>2, <1>3, Zenon DEF MainRec
  <2> QED BY <1>1, <1>3, <2>1, MainMoves, Zenon
<1>4. ASSUME NEW status \in LocalFails, coord' = coord,
             main' = [main EXCEPT !.pc = "update", !.status = status, !.then = "ended"]
      PROVE  Inv'
  <2>1. main' \in MainRec /\ main'.pc = "update"
    BY <1>1, <1>2, <1>4, Zenon DEF MainRec
  <2> QED BY <1>1, <1>4, <2>1, MainMoves, Zenon
<1>5. CASE /\ coord' = [coord EXCEPT !.returned_all = TRUE]
           /\ \/ main' = [main EXCEPT !.pc = "limit", !.walk = 1]
              \/ main' = [main EXCEPT !.pc = "all"]
  <2>1. coord' \in CoordRec
    BY <1>1, <1>5, Zenon DEF CoordRec
  <2>2. /\ coord'.lock = coord.lock /\ coord'.walk = coord.walk
        /\ coord'.query_status = coord.query_status
    BY <1>1, <1>5, Zenon DEF CoordRec
  <2>3. main' \in MainRec /\ main'.pc \in {"limit", "all"}
    <3>1. CASE main' = [main EXCEPT !.pc = "limit", !.walk = 1]
      BY <1>0, <1>1, <3>1, Zenon DEF MainRec
    <3>2. CASE main' = [main EXCEPT !.pc = "all"]
      BY <1>1, <3>2, Zenon DEF MainRec
    <3> QED BY <1>5, <3>1, <3>2, Zenon
  <2>4. SameReports(handlers')
    BY <1>1, Zenon DEF Inv, TypeInv, SameReports
  <2> QED BY <1>1, <2>1, <2>2, <2>3, <2>4, CoordMoves, Zenon
<1> QED BY <1>3, <1>4, <1>5, Zenon DEF GetNext

\* Cancel and UnregisterQuery.
LEMMA ServerKept ==
    ASSUME Inv, Cancel \/ UnregisterQuery
    PROVE  Inv'
<1>1. main \in MainRec /\ coord \in CoordRec /\ main' = main
      /\ UNCHANGED <<backend, frag, call, handlers, faults>>
  BY Zenon DEF Inv, TypeInv, Cancel, UnregisterQuery
<1>2. SameReports(handlers') /\ main.pc # "exec"
  <2>1. SameReports(handlers')
    BY <1>1, Zenon DEF Inv, TypeInv, SameReports
  <2>2. coord.lock = "free"
    BY Zenon DEF Cancel, UnregisterQuery, LockFree
  <2> QED BY <2>1, <2>2, Zenon DEF Inv, LockInv
<1>3. CASE Cancel
  <2>1. CancelInternal("client", "CANCELLED") /\ "CANCELLED" \in Status
    BY <1>3, Zenon DEF Cancel, Status
  <2> QED BY <1>1, <1>2, <2>1, NoRpc, CancelBegins, Zenon
<1>4. CASE UnregisterQuery
  <2>1. coord' = [coord EXCEPT !.registered = FALSE] /\ local' = local
    BY <1>4, Zenon DEF UnregisterQuery
  <2>2. coord' \in CoordRec
    BY <1>1, <2>1, Zenon DEF CoordRec
  <2>3. /\ coord'.lock = coord.lock /\ coord'.walk = coord.walk
        /\ coord'.query_status = coord.query_status /\ coord'.remaining = coord.remaining
    BY <1>1, <2>1, Zenon DEF CoordRec
  <2>4. main'.pc = "blocked" => main.pc = "blocked" /\ coord'.remaining > 0
    BY <1>1, <2>3, Zenon DEF Inv, WaitInv
  <2> QED BY <1>1, <1>2, <2>1, <2>2, <2>3, <2>4, CoordMoves, Zenon
<1> QED BY <1>3, <1>4, Zenon

\* A step of a CancelRemoteFragments.
LEMMA WalkKept ==
    ASSUME Inv, CancelWalk \/ LimitWalk
    PROVE  Inv'
<1>1. main \in MainRec /\ coord \in CoordRec /\ UNCHANGED <<local, call, handlers>>
      /\ NumBackends \in Nat
  BY PlanAssumption, Zenon DEF Inv, TypeInv, CancelWalk, LimitWalk
<1>2. coord.walk \in 0 .. NumBackends + 1 /\ main.walk \in 0 .. NumBackends + 1
  BY <1>1, Zenon DEF MainRec, CoordRec
<1>3. ASSUME NEW b \in Backends, CancelBackend(b), main' \in MainRec, coord' \in CoordRec,
             coord'.lock = coord.lock, coord'.query_status = coord.query_status,
             coord'.remaining = coord.remaining,
             main'.pc = main.pc, main'.stage = main.stage,
             \/ coord'.walk = coord.walk
             \/ coord.walk = b /\ coord'.walk = b + 1
      PROVE  Inv'
  <2>1. /\ backend' \in [Backends -> BackendRec] /\ frag' \in [Backends -> FragRec]
        /\ faults' \in [n : Nat, late : BOOLEAN] /\ (faults'.late <=> faults.late)
        /\ ~ ToCancel(b)'
        /\ \A c \in Backends :
              /\ backend'[c].pc = backend[c].pc /\ backend'[c].done = backend[c].done
              /\ ToCancel(c)' => ToCancel(c)
              /\ frag'[c].pc = frag[c].pc /\ frag'[c].status = frag[c].status
              /\ frag'[c].exec_status = frag[c].exec_status
              /\ frag'[c].reporter = frag[c].reporter
    BY <1>3, CancelBackendIs, Zenon
  <2>2. \A c \in Backends : FragEnded(c)' <=> FragEnded(c)
    BY <2>1, Zenon DEF FragEnded
  <2>3. TypeInv'
    BY <1>1, <1>3, <2>1, Zenon DEF Inv, TypeInv
  <2>4. LockInv' /\ WaitInv'
    BY <1>1, <1>3 DEF Inv, LockInv, WaitInv, Backends
  <2>5. StartInv'
    BY <1>3, <2>1 DEF Inv, StartInv
  <2>6. DoneInv'
    <3>1. \A c \in Backends : CallOK(c)' /\ (backend'[c].done => FragEnded(c)')
      BY <1>1, <2>1, <2>2, Zenon DEF Inv, DoneInv, CallOK
    <3>2. \A h \in handlers' : h \in HandlerRec /\ HandlerOK(h)
      BY <1>1, Zenon DEF Inv, DoneInv, TypeInv
    <3>3. \A h \in handlers' : HandlerOK(h)'
      BY <2>1, <2>2, <3>2, Zenon DEF HandlerRec, HandlerOK
    <3> QED BY <3>1, <3>3, Zenon DEF DoneInv
  <2>7. WalkInv'
    <3> SUFFICES ASSUME NEW c \in Backends, coord'.query_status # "OK",
                        coord'.walk = 0 \/ c < coord'.walk, ToCancel(c)'
                 PROVE  FragEnded(c)'
      BY Zenon DEF WalkInv
    <3>1. c # b /\ ToCancel(c)
      BY <2>1, Zenon
    <3>2. coord.walk = 0 \/ c < coord.walk
      BY <1>2, <1>3, <3>1 DEF Backends
    <3> QED BY <1>3, <2>2, <3>1, <3>2, Zenon DEF Inv, WalkInv
  <2> QED BY <2>3, <2>4, <2>5, <2>6, <2>7, Zenon DEF Inv
<1>4. CASE CancelWalk
  <2>1. /\ coord.walk \in Backends /\ CancelBackend(coord.walk) /\ main' = main
        /\ coord' = [coord EXCEPT !.walk = coord.walk + 1]
    BY <1>4, Zenon DEF CancelWalk
  <2>2. coord.walk + 1 \in 0 .. NumBackends + 1
    BY <1>1, <2>1 DEF Backends
  <2>3. coord' \in CoordRec
    BY <1>1, <2>1, <2>2, Zenon DEF CoordRec
  <2>4. /\ coord'.lock = coord.lock /\ coord'.walk = coord.walk + 1
        /\ coord'.query_status = coord.query_status /\ coord'.remaining = coord.remaining
    BY <1>1, <2>1, Zenon DEF CoordRec
  <2> QED BY <1>1, <1>3, <2>1, <2>3, <2>4, Zenon
<1>5. CASE LimitWalk
  <2>1. main.pc = "limit" /\ coord' = coord
    BY <1>5, Zenon DEF LimitWalk
  <2>2. CASE /\ main.walk \in Backends /\ CancelBackend(main.walk)
             /\ main' = [main EXCEPT !.walk = main.walk + 1]
    <3>1. main.walk + 1 \in 0 .. NumBackends + 1
      BY <1>1, <2>2 DEF Backends
    <3>2. main' \in MainRec /\ main'.pc = main.pc /\ main'.stage = main.stage
      BY <1>1, <2>2, <3>1, Zenon DEF MainRec
    <3> QED BY <1>1, <1>3, <2>1, <2>2, <3>2, Zenon
  <2>3. CASE main' = [main EXCEPT !.pc = "all"] /\ UNCHANGED <<backend, frag, faults>>
    <3>1. main' \in MainRec /\ main'.pc = "all"
      BY <1>1, <2>3, Zenon DEF MainRec
    <3> QED BY <1>1, <2>1, <2>3, <3>1, MainMoves, Zenon
  <2> QED BY <1>5, <2>2, <2>3, Zenon DEF LimitWalk
<1> QED BY <1>4, <1>5, Zenon
\* The walk ends, and whoever began it goes on.
LEMMA CancelDoneKept ==
    ASSUME Inv, CancelDone
    PROVE  Inv'
<1>1. /\ main \in MainRec /\ coord \in CoordRec /\ handlers \subseteq HandlerRec
      /\ UNCHANGED <<backend, local, frag, call, faults>>
  BY Zenon DEF Inv, TypeInv, CancelDone
<1>2. NumBackends \in Nat /\ 0 \in 0 .. NumBackends + 1 /\ coord.query_status \in Status
  BY <1>1, PlanAssumption DEF CoordRec
<1>3. coord.walk = NumBackends + 1 /\ coord' = [coord EXCEPT !.walk = 0, !.lock = "free"]
  BY Zenon DEF CancelDone
<1>4. coord' \in CoordRec
  BY <1>1, <1>2, <1>3, Zenon DEF CoordRec
<1>5. coord'.walk = 0 /\ coord'.lock = "free" /\ coord'.query_status = coord.query_status
  BY <1>1, <1>3, Zenon DEF CoordRec
<1>6. main.pc # "exec"
  BY <1>2, <1>3 DEF Inv, LockInv
<1>7. main' \in MainRec /\ main'.pc \notin {"exec", "blocked"}
  <2>1. CASE main.pc = "cancelling"
    <3>1. main' = UpdateReturns(coord.query_status)
      BY <2>1, Zenon DEF CancelDone
    <3>2. main' \in MainRec /\ main'.pc = main.then
      BY <1>1, <1>2, <3>1, UpdateReturnsIs, Zenon
    <3> QED BY <1>1, <3>2, Zenon DEF MainRec
  <2>2. CASE main.pc # "cancelling"
    <3>1. main' = Notified(main)
      BY <2>2, Zenon DEF CancelDone
    <3>2. main' \in MainRec /\ main'.pc = IF main.pc = "blocked" THEN "all" ELSE main.pc
      BY <1>1, <3>1, NotifiedIs, Zenon
    <3> QED BY <1>6, <3>2, Zenon
  <2> QED BY <2>1, <2>2, Zenon
<1>8. SameReports(handlers')
  <2>1. \A h \in handlers : /\ [h EXCEPT !.pc = "done"] \in HandlerRec
                            /\ [h EXCEPT !.pc = "done"].b = h.b
                            /\ [h EXCEPT !.pc = "done"].done = h.done
    BY <1>1, MovedIs, Zenon
  <2>2. \A g \in handlers' : \E h \in handlers : g = h \/ g = [h EXCEPT !.pc = "done"]
    BY Zenon DEF CancelDone
  <2> QED BY <1>1, <2>1, <2>2, Zenon DEF SameReports
<1>9. TypeInv'
  BY <1>1, <1>4, <1>7, <1>8, Zenon DEF Inv, TypeInv, SameReports
<1>10. LockInv' /\ WaitInv'
  BY <1>5, <1>7, Zenon DEF LockInv, WaitInv
<1>11. StartInv'
  BY <1>1, <1>6, NoRpc, Zenon DEF Inv, StartInv
<1>12. DoneInv'
  <2>1. \A b \in Backends : CallOK(b)' /\ (backend'[b].done => FragEnded(b)')
    BY <1>1, Zenon DEF Inv, DoneInv, FragEnded, CallOK
  <2>2. \A h \in handlers' : HandlerOK(h)'
    BY <1>1, <1>8, Zenon DEF Inv, DoneInv, FragEnded, HandlerOK, SameReports
  <2> QED BY <2>1, <2>2, Zenon DEF DoneInv
<1>13. WalkInv'
  <2>1. \A b \in Backends : (ToCancel(b)' <=> ToCancel(b)) /\ (FragEnded(b)' <=> FragEnded(b))
    BY <1>1, Zenon DEF ToCancel, FragEnded
  <2>2. \A b \in Backends : b < coord.walk
    BY <1>2, <1>3 DEF Backends
  <2> QED BY <1>5, <2>1, <2>2, Zenon DEF Inv, WalkInv
<1> QED BY <1>9, <1>10, <1>11, <1>12, <1>13, Zenon DEF Inv

\* The steps of Exec's rpcs.
LEMMA ExecKept ==
    ASSUME Inv, NEW b \in Backends, ExecRemoteFragment(b) \/ ExecReturns(b)
    PROVE  Inv'
<1>1. /\ frag \in [Backends -> FragRec] /\ backend \in [Backends -> BackendRec]
      /\ faults \in [n : Nat, late : BOOLEAN]
  BY Zenon DEF Inv, TypeInv
<1>2. UNCHANGED <<coord, main, local, call, handlers>> /\ main.pc = "exec"
  BY Zenon DEF ExecRemoteFragment, ExecReturns, Inv, StartInv
<1>3. ASSUME NEW r \in BackendRec, NEW f \in FragRec, r.done = backend[b].done,
             r.pc = "rpc" => b \in Stages[main.stage], r.pc # "none",
             f = frag[b] \/ (frag[b].pc = "none" /\ f.status = "OK" /\ f.pc = "run"),
             backend' = [backend EXCEPT ![b] = r], frag' = [frag EXCEPT ![b] = f],
             faults' \in [n : Nat, late : BOOLEAN]
      PROVE  Inv'
  <2>1. backend' \in [Backends -> BackendRec] /\ frag' \in [Backends -> FragRec]
    BY <1>1, <1>3, Zenon
  <2>2. \A c \in Backends : /\ frag'[c] = IF c = b THEN f ELSE frag[c]
                            /\ backend'[c] = IF c = b THEN r ELSE backend[c]
    BY <1>1, <1>3, Zenon
  <2>3. \A c \in Backends : FragEnded(c) => FragEnded(c)'
    BY <1>3, <2>2 DEF FragEnded
  <2>4. TypeInv'
    BY <1>2, <1>3, <2>1, Zenon DEF Inv, TypeInv
  <2>5. LockInv' /\ WaitInv'
    BY <1>2, Zenon DEF Inv, LockInv, WaitInv
  <2>6. StartInv'
    BY <1>2, <1>3, <2>2 DEF Inv, StartInv
  <2>7. DoneInv'
    <3>0. \A c \in Backends : frag[c].pc # "none" => frag'[c].pc # "none"
      BY <1>3, <2>2
    <3>1. \A c \in Backends : CallOK(c)' /\ (backend'[c].done => FragEnded(c)')
      BY <1>2, <1>3, <2>2, <2>3, <3>0 DEF Inv, DoneInv, CallOK
    <3>2. \A h \in handlers' : h \in HandlerRec /\ HandlerOK(h)
      BY <1>2, Zenon DEF Inv, DoneInv, TypeInv
    <3>3. \A h \in handlers' : HandlerOK(h)'
      BY <2>3, <3>0, <3>2, Zenon DEF HandlerRec, HandlerOK
    <3> QED BY <3>1, <3>3, Zenon DEF DoneInv
  <2>8. WalkInv'
    BY <1>2, Zenon DEF Inv, LockInv, WalkInv
  <2> QED BY <2>4, <2>5, <2>6, <2>7, <2>8, Zenon DEF Inv
<1>4. [frag EXCEPT ![b] = frag[b]] = frag
  BY <1>1, Zenon
<1>5. CASE ExecRemoteFragment(b)
  <2>1. b \in Stages[main.stage] /\ backend[b].pc = "none" /\ frag[b].pc = "none"
    BY <1>5, Zenon DEF ExecRemoteFragment, Inv, StartInv
  <2>2. CASE /\ frag' = [frag EXCEPT ![b] = StartedFrag]
             /\ backend' = [backend EXCEPT ![b].pc = "rpc"] /\ faults' = faults
    <3>1. StartedFrag \in FragRec /\ StartedFrag.status = "OK" /\ StartedFrag.pc = "run"
      BY Zenon DEF StartedFrag, NewFrag, FragRec, Status
    <3> DEFINE r == [backend[b] EXCEPT !.pc = "rpc"]
    <3>2. r \in BackendRec /\ r.done = backend[b].done /\ r.pc = "rpc"
      BY <1>1, Zenon DEF BackendRec
    <3>3. backend' = [backend EXCEPT ![b] = r]
      BY <1>1, <2>2, Zenon
    <3> HIDE DEF r
    <3> QED BY <1>1, <1>3, <2>1, <2>2, <3>1, <3>2, <3>3, Zenon
  <2>3. CASE /\ backend' = [backend EXCEPT ![b].pc = "failed", ![b].status = "ERROR"]
             /\ frag' = frag /\ faults' = faults
    <3> DEFINE r == [backend[b] EXCEPT !.pc = "failed", !.status = "ERROR"]
    <3>2. r \in BackendRec /\ r.done = backend[b].done /\ r.pc = "failed"
      BY <1>1, Zenon DEF BackendRec, Status
    <3>3. backend' = [backend EXCEPT ![b] = r]
      BY <1>1, <2>3, Zenon
    <3> HIDE DEF r
    <3> QED BY <1>1, <1>3, <1>4, <2>3, <3>2, <3>3, Zenon
  <2>4. CASE /\ backend' = [backend EXCEPT ![b].pc = "failed"]
             /\ frag' = frag /\ Fault(FALSE)
    <3> DEFINE r == [backend[b] EXCEPT !.pc = "failed"]
    <3>2. r \in BackendRec /\ r.done = backend[b].done /\ r.pc = "failed"
      BY <1>1 DEF BackendRec
    <3>3. backend' = [backend EXCEPT ![b] = r]
      BY <1>1, <2>4, Zenon
    <3>4. faults' \in [n : Nat, late : BOOLEAN]
      BY <1>1, <2>4 DEF Fault
    <3> HIDE DEF r
    <3> QED BY <1>1, <1>3, <1>4, <2>4, <3>2, <3>3, <3>4, Zenon
  <2> QED BY <1>5, <2>2, <2>3, <2>4, Zenon DEF ExecRemoteFragment
<1>6. CASE ExecReturns(b)
  <2>1. frag' = frag
    BY <1>6, Zenon DEF ExecReturns
  <2>2. CASE /\ backend' = [backend EXCEPT ![b].pc = "started", ![b].initiated = TRUE]
             /\ faults' = faults
    <3> DEFINE r == [backend[b] EXCEPT !.pc = "started", !.initiated = TRUE]
    <3>2. r \in BackendRec /\ r.done = backend[b].done /\ r.pc = "started"
      BY <1>1, Zenon DEF BackendRec
    <3>3. backend' = [backend EXCEPT ![b] = r]
      BY <1>1, <2>2, Zenon
    <3> HIDE DEF r
    <3> QED BY <1>1, <1>3, <1>4, <2>1, <2>2, <3>2, <3>3, Zenon
  <2>3. CASE /\ backend' = [backend EXCEPT ![b].pc = "failed", ![b].status = "ERROR"]
             /\ Fault(TRUE)
    <3> DEFINE r == [backend[b] EXCEPT !.pc = "failed", !.status = "ERROR"]
    <3>2. r \in BackendRec /\ r.done = backend[b].done /\ r.pc = "failed"
      BY <1>1, Zenon DEF BackendRec, Status
    <3>3. backend' = [backend EXCEPT ![b] = r]
      BY <1>1, <2>3, Zenon
    <3>4. faults' \in [n : Nat, late : BOOLEAN]
      BY <1>1, <2>3 DEF Fault
    <3> HIDE DEF r
    <3> QED BY <1>1, <1>3, <1>4, <2>1, <3>2, <3>3, <3>4, Zenon
  <2> QED BY <1>6, <2>2, <2>3, Zenon DEF ExecReturns
<1> QED BY <1>5, <1>6, Zenon
\* An error is noted.
LEMMA NotedIs ==
    ASSUME NEW f \in FragRec, NEW status \in Status
    PROVE  /\ Noted(f, status) \in FragRec
           /\ Noted(f, status).pc = f.pc /\ Noted(f, status).reporter = f.reporter
           /\ Noted(f, status).status = f.status
           /\ Noted(f, status).exec_status = FirstError(f.exec_status, status)
<1> DEFINE st == FirstError(f.exec_status, status)
<1>1. st \in Status
  BY FirstErrorIs, Zenon DEF FragRec
<1> HIDE DEF st
<1>2. [f EXCEPT !.exec_status = st] \in FragRec
  BY <1>1, Zenon DEF FragRec
<1>3. /\ [f EXCEPT !.exec_status = st].pc = f.pc
      /\ [f EXCEPT !.exec_status = st].reporter = f.reporter
      /\ [f EXCEPT !.exec_status = st].status = f.status
      /\ [f EXCEPT !.exec_status = st].exec_status = st
  BY Zenon DEF FragRec
<1> QED BY <1>2, <1>3, Zenon DEF Noted, st

\* A report is refused.
LEMMA RefusedIs ==
    ASSUME NEW f \in FragRec, NEW g, g = Reported([Noted(f, "ERROR") EXCEPT !.cancelled = TRUE])
    PROVE  /\ g \in FragRec
           /\ g.pc = IF f.reporter = "busy" THEN f.pc ELSE "ended"
           /\ g.reporter = IF f.reporter = "busy" THEN "sleep" ELSE f.reporter
           /\ g.status = f.status /\ g.exec_status # "OK"
<1> DEFINE n == Noted(f, "ERROR")
           c == [n EXCEPT !.cancelled = TRUE]
<1>1. "ERROR" \in Status /\ f.exec_status \in Status
  BY Zenon DEF Status, FragRec
<1>2. /\ n \in FragRec /\ n.pc = f.pc /\ n.reporter = f.reporter /\ n.status = f.status
      /\ n.exec_status = FirstError(f.exec_status, "ERROR")
  BY <1>1, NotedIs, Zenon
<1>3. n.exec_status # "OK"
  BY <1>1, <1>2, FirstErrorIs, Zenon
<1> HIDE DEF n
<1>4. /\ c \in FragRec /\ c.pc = n.pc /\ c.reporter = n.reporter /\ c.status = n.status
      /\ c.exec_status = n.exec_status
  BY <1>2, Zenon DEF FragRec
<1> HIDE DEF c
<1>5. g = Reported(c)
  BY Zenon DEF c, n
<1>6. /\ g \in FragRec
      /\ g.pc = IF c.reporter = "busy" THEN c.pc ELSE "ended"
      /\ g.reporter = IF c.reporter = "busy" THEN "sleep" ELSE c.reporter
      /\ g.status = c.status /\ g.exec_status = c.exec_status
  BY <1>4, <1>5, ReportedIs
<1> QED BY <1>2, <1>3, <1>4, <1>6, Zenon

\* What SendReport does: a call begins, or there is no connection.
LEMMA SendReportIs ==
    ASSUME NEW b, NEW busy \in FragRec, NEW done \in BOOLEAN, SendReport(b, busy, done)
    PROVE  \E g \in FragRec, status \in Status, final \in BOOLEAN :
              /\ frag' = [frag EXCEPT ![b] = g] /\ g.status = busy.status
              /\ final = (done \/ busy.status # "OK")
              /\ status = FirstError(busy.exec_status, busy.status)
              /\ \/ /\ g.pc = busy.pc /\ g.reporter = busy.reporter /\ g.exec_status = status
                    /\ call' = [call EXCEPT ![b] = [pc |-> "call", status |-> status, done |-> final]]
                    /\ handlers' = handlers \cup {NewHandler(b, status, final)}
                    /\ UNCHANGED faults
                 \/ /\ Fault(FALSE) /\ g.exec_status # "OK"
                    /\ g.pc = IF busy.reporter = "busy" THEN busy.pc ELSE "ended"
                    /\ g.reporter = IF busy.reporter = "busy" THEN "sleep" ELSE busy.reporter
                    /\ UNCHANGED <<call, handlers>>
<1> DEFINE noted == Noted(busy, busy.status)
           refused == Noted(noted, "ERROR")
           status == noted.exec_status
           final == done \/ busy.status # "OK"
<1>1. busy.status \in Status /\ busy.exec_status \in Status /\ "ERROR" \in Status
  BY Zenon DEF FragRec, Status
<1>2. /\ noted \in FragRec /\ noted.pc = busy.pc /\ noted.reporter = busy.reporter
      /\ noted.status = busy.status
      /\ noted.exec_status = FirstError(busy.exec_status, busy.status)
  BY <1>1, NotedIs, Zenon
<1>3. status \in Status /\ final \in BOOLEAN
  BY <1>1, <1>2, FirstErrorIs
<1>4. \/ /\ frag' = [frag EXCEPT ![b] = noted]
         /\ call' = [call EXCEPT ![b] = [pc |-> "call", status |-> status, done |-> final]]
         /\ handlers' = handlers \cup {NewHandler(b, status, final)}
         /\ UNCHANGED faults
      \/ /\ Fault(FALSE)
         /\ frag' = [frag EXCEPT ![b] = Reported(refused)]
         /\ UNCHANGED <<call, handlers>>
  BY Zenon DEF SendReport
<1> HIDE DEF noted
<1>5. /\ refused \in FragRec /\ refused.pc = noted.pc /\ refused.reporter = noted.reporter
      /\ refused.status = noted.status
      /\ refused.exec_status = FirstError(status, "ERROR")
  BY <1>1, <1>2, NotedIs, Zenon
<1>6. refused.exec_status # "OK"
  BY <1>1, <1>3, <1>5, FirstErrorIs
<1> HIDE DEF refused
<1>7. /\ Reported(refused) \in FragRec
      /\ Reported(refused).pc = IF refused.reporter = "busy" THEN refused.pc ELSE "ended"
      /\ Reported(refused).reporter = IF refused.reporter = "busy" THEN "sleep" ELSE refused.reporter
      /\ Reported(refused).status = refused.status
      /\ Reported(refused).exec_status = refused.exec_status
  BY <1>5, ReportedIs, Zenon
<1> HIDE DEF status, final
<1>8. status = FirstError(busy.exec_status, busy.status)
  BY <1>2, Zenon DEF status
<1>9. final = (done \/ busy.status # "OK")
  BY Zenon DEF final
<1>10. CASE /\ frag' = [frag EXCEPT ![b] = noted]
            /\ call' = [call EXCEPT ![b] = [pc |-> "call", status |-> status, done |-> final]]
            /\ handlers' = handlers \cup {NewHandler(b, status, final)}
            /\ UNCHANGED faults
  <2>1. noted.exec_status = status
    BY Zenon DEF status
  <2> QED BY <1>2, <1>3, <1>8, <1>9, <1>10, <2>1, Zenon
<1>11. CASE /\ Fault(FALSE)
            /\ frag' = [frag EXCEPT ![b] = Reported(refused)]
            /\ UNCHANGED <<call, handlers>>
  <2> DEFINE g == Reported(refused)
  <2>1. /\ g \in FragRec /\ g.status = busy.status /\ g.exec_status # "OK"
        /\ g.pc = IF busy.reporter = "busy" THEN busy.pc ELSE "ended"
        /\ g.reporter = IF busy.reporter = "busy" THEN "sleep" ELSE busy.reporter
    BY <1>2, <1>5, <1>6, <1>7, Zenon
  <2>2. frag' = [frag EXCEPT ![b] = g]
    BY <1>11, Zenon
  <2> HIDE DEF g
  <2> QED BY <1>3, <1>8, <1>9, <1>11, <2>1, <2>2, Zenon
<1> QED BY <1>4, <1>10, <1>11, Zenon
\* A fragment's execution thread comes to the end.
LEMMA RunKept ==
    ASSUME Inv, NEW b \in Backends,
           StopReportThread(b) \/ \E status \in Status : RunEnds(b, status)
    PROVE  Inv'
<1>1. /\ frag \in [Backends -> FragRec] /\ frag[b] \in FragRec /\ call \in [Backends -> CallRec]
      /\ handlers \subseteq HandlerRec /\ faults \in [n : Nat, late : BOOLEAN]
  BY Zenon DEF Inv, TypeInv
<1>2. UNCHANGED <<coord, backend, main, local, call, handlers, faults>>
      /\ frag[b].pc \in {"run", "stop"}
  BY Zenon DEF StopReportThread, RunEnds
<1>3. \E g \in FragRec : g.pc \in {"stop", "final"} /\ frag' = [frag EXCEPT ![b] = g]
  <2>1. CASE StopReportThread(b)
    <3> DEFINE g == [frag[b] EXCEPT !.pc = "final", !.reporter = "off"]
    <3>1. g \in FragRec /\ g.pc = "final"
      BY <1>1, Zenon DEF FragRec
    <3>2. frag' = [frag EXCEPT ![b] = g]
      BY <1>1, <2>1, Zenon DEF StopReportThread
    <3> HIDE DEF g
    <3> QED BY <3>1, <3>2, Zenon
  <2>2. ASSUME NEW status \in Status, RunEnds(b, status)
        PROVE  \E g \in FragRec : g.pc \in {"stop", "final"} /\ frag' = [frag EXCEPT ![b] = g]
    <3> DEFINE g == [frag[b] EXCEPT !.pc = "stop", !.status = status]
    <3>1. g \in FragRec /\ g.pc = "stop"
      BY <1>1, Zenon DEF FragRec
    <3>2. frag' = [frag EXCEPT ![b] = g]
      BY <1>1, <2>2, Zenon DEF RunEnds
    <3> HIDE DEF g
    <3> QED BY <3>1, <3>2, Zenon
  <2> QED BY <2>1, <2>2, Zenon
<1>4. PICK g \in FragRec : g.pc \in {"stop", "final"} /\ frag' = [frag EXCEPT ![b] = g]
  BY <1>3, Zenon
<1>5. frag[b].pc # "none" /\ g.pc \notin {"none", "run"}
  BY <1>2, <1>4, Zenon
<1> QED BY <1>1, <1>2, <1>4, <1>5, FragMoves, Zenon

\* A report is sent.
LEMMA SendKept ==
    ASSUME Inv, NEW b \in Backends, ReportProfile(b) \/ FinalReport(b)
    PROVE  Inv'
<1>1. /\ frag \in [Backends -> FragRec] /\ frag[b] \in FragRec /\ call \in [Backends -> CallRec]
      /\ handlers \subseteq HandlerRec /\ faults \in [n : Nat, late : BOOLEAN]
  BY Zenon DEF Inv, TypeInv
<1>2. UNCHANGED <<coord, backend, main, local>>
  BY Zenon DEF ReportProfile, FinalReport
<1>3. ASSUME NEW busy \in FragRec, NEW done \in BOOLEAN, SendReport(b, busy, done),
             frag[b].pc # "none", busy.pc # "none", FragEnded(b) => busy.pc \notin {"none", "run"},
             busy.pc \in {"none", "run"} => busy.status = "OK" /\ ~ done
      PROVE  Inv'
  <2>1. PICK g \in FragRec, status \in Status, final \in BOOLEAN :
              /\ frag' = [frag EXCEPT ![b] = g] /\ g.status = busy.status
              /\ final = (done \/ busy.status # "OK")
              /\ status = FirstError(busy.exec_status, busy.status)
              /\ \/ /\ g.pc = busy.pc /\ g.reporter = busy.reporter /\ g.exec_status = status
                    /\ call' = [call EXCEPT ![b] = [pc |-> "call", status |-> status, done |-> final]]
                    /\ handlers' = handlers \cup {NewHandler(b, status, final)}
                    /\ UNCHANGED faults
                 \/ /\ Fault(FALSE) /\ g.exec_status # "OK"
                    /\ g.pc = IF busy.reporter = "busy" THEN busy.pc ELSE "ended"
                    /\ g.reporter = IF busy.reporter = "busy" THEN "sleep" ELSE busy.reporter
                    /\ UNCHANGED <<call, handlers>>
    BY <1>3, SendReportIs, Zenon
  <2> DEFINE c == [pc |-> "call", status |-> status, done |-> final]
             h == NewHandler(b, status, final)
  <2>2. c \in CallRec /\ c.done = final
    BY Zenon DEF CallRec
  <2>3. h \in HandlerRec /\ h.done = final /\ h.b = b
    BY Zenon DEF NewHandler, HandlerRec
  <2> HIDE DEF c, h
  <2>4. FragEnded(b) => g.pc \notin {"none", "run"}
    BY <1>3, <2>1, Zenon
  <2>5. g.pc \in {"none", "run"} => g.status = "OK" /\ ~ final
    BY <1>3, <2>1, Zenon
  <2>6. g.pc # "none"
    BY <1>3, <2>1, Zenon
  <2>11. CASE call' = [call EXCEPT ![b] = c] /\ handlers' = handlers \cup {h} /\ UNCHANGED faults
    <3>1. call' \in [Backends -> CallRec] /\ (\A x \in Backends : x # b => call'[x] = call[x])
          /\ (call'[b].done => g.pc # "run")
      BY <1>1, <2>2, <2>5, <2>11, Zenon
    <3>2. handlers' \subseteq HandlerRec
          /\ \A x \in handlers' : \/ \E y \in handlers : x.b = y.b /\ x.done = y.done
                                  \/ x.b = b /\ (x.done => g.pc # "run")
      BY <1>1, <2>3, <2>5, <2>11, Zenon
    <3>3. faults' \in [n : Nat, late : BOOLEAN]
      BY <1>1, <2>11, Zenon
    <3> QED BY <1>2, <1>3, <2>1, <2>4, <2>5, <2>6, <3>1, <3>2, <3>3, FragMoves, Zenon
  <2>12. CASE Fault(FALSE) /\ UNCHANGED <<call, handlers>>
    <3>1. faults' \in [n : Nat, late : BOOLEAN]
      BY <1>1, <2>12 DEF Fault
    <3> QED BY <1>1, <1>2, <1>3, <2>1, <2>4, <2>5, <2>6, <2>12, <3>1, FragMoves, Zenon
  <2> QED BY <2>1, <2>11, <2>12, Zenon DEF c, h
<1>4. CASE ReportProfile(b)
  <2> DEFINE busy == [frag[b] EXCEPT !.reporter = "busy", !.ticks = frag[b].ticks + 1]
  <2>1. SendReport(b, busy, FALSE)
    BY <1>4, Zenon DEF ReportProfile
  <2>0. frag[b].ticks + 1 \in Nat
    BY <1>1 DEF FragRec
  <2>2. busy \in FragRec
    BY <1>1, <2>0, Zenon DEF FragRec
  <2>5. busy.pc = frag[b].pc /\ busy.status = frag[b].status
    BY <1>1, Zenon DEF FragRec
  <2> HIDE DEF busy
  <2>3. frag[b].pc # "none"
    BY <1>4, Zenon DEF ReportProfile, Inv, StartInv
  <2>4. busy.pc \in {"none", "run"} => busy.status = "OK"
    BY <2>5, Zenon DEF Inv, StartInv
  <2> QED BY <1>3, <2>1, <2>2, <2>3, <2>4, <2>5, Zenon DEF FragEnded
<1>5. CASE FinalReport(b)
  <2> DEFINE busy == [frag[b] EXCEPT !.pc = "reporting"]
  <2>1. SendReport(b, busy, TRUE) /\ frag[b].pc = "final"
    BY <1>5, Zenon DEF FinalReport
  <2>2. busy \in FragRec /\ busy.pc = "reporting"
    BY <1>1, Zenon DEF FragRec
  <2> HIDE DEF busy
  <2> QED BY <1>3, <2>1, <2>2, Zenon
<1> QED BY <1>4, <1>5, Zenon
\* The rpc of a report returns, throws, or is sent again.
LEMMA ReportKept ==
    ASSUME Inv, NEW b \in Backends, ReportReturns(b) \/ ReportThrows(b) \/ ReportReopen(b)
    PROVE  Inv'
<1>1. /\ frag \in [Backends -> FragRec] /\ frag[b] \in FragRec /\ call \in [Backends -> CallRec]
      /\ call[b] \in CallRec /\ handlers \subseteq HandlerRec /\ faults \in [n : Nat, late : BOOLEAN]
  BY Zenon DEF Inv, TypeInv
<1>2. UNCHANGED <<coord, backend, main, local>>
  BY Zenon DEF ReportReturns, ReportThrows, ReportReopen
<1>3. frag[b].pc # "none"
  BY Zenon DEF ReportReturns, ReportThrows, ReportReopen, HandlersOf, Inv, DoneInv, HandlerOK, CallOK
<1>4. \E g \in FragRec : /\ frag' = [frag EXCEPT ![b] = g]
                         /\ g.pc \in {frag[b].pc, "ended"} /\ g.status = frag[b].status
  <2>1. CASE UNCHANGED frag
    BY <1>1, <2>1, Zenon
  <2>2. CASE frag' = [frag EXCEPT ![b] = Reported(frag[b])]
    BY <1>1, <2>2, ReportedIs, Zenon
  <2>3. CASE ReportRefused(b)
    <3> DEFINE g == Reported([Noted(frag[b], "ERROR") EXCEPT !.cancelled = TRUE])
    <3>1. g \in FragRec /\ g.pc \in {frag[b].pc, "ended"} /\ g.status = frag[b].status
      BY <1>1, RefusedIs, Zenon
    <3>2. frag' = [frag EXCEPT ![b] = g]
      BY <2>3, Zenon DEF ReportRefused
    <3> HIDE DEF g
    <3> QED BY <3>1, <3>2, Zenon
  <2> QED BY <2>1, <2>2, <2>3, Zenon DEF ReportReturns, ReportThrows, ReportReopen
<1>5. \E k \in CallRec : call' = [call EXCEPT ![b] = k] /\ (k.done => call[b].done)
  <2>1. NoCall \in CallRec /\ ~ NoCall.done
    BY Zenon DEF NoCall, CallRec, Status
  <2>2. CASE call' = [call EXCEPT ![b] = NoCall]
    BY <2>1, <2>2, Zenon
  <2>3. ASSUME NEW pc \in {"reopen", "retry"}, call' = [call EXCEPT ![b].pc = pc]
        PROVE  \E k \in CallRec : call' = [call EXCEPT ![b] = k] /\ (k.done => call[b].done)
    <3> DEFINE k == [call[b] EXCEPT !.pc = pc]
    <3>1. k \in CallRec /\ k.done = call[b].done
      BY <1>1, Zenon DEF CallRec
    <3>2. call' = [call EXCEPT ![b] = k]
      BY <1>1, <2>3, Zenon
    <3> HIDE DEF k
    <3> QED BY <3>1, <3>2, Zenon
  <2> QED BY <2>2, <2>3, Zenon DEF ReportReturns, ReportThrows, ReportReopen
<1>6. /\ handlers' \subseteq HandlerRec
      /\ \A x \in handlers' : \/ \E h \in handlers : x.b = h.b /\ x.done = h.done
                              \/ x.b = b /\ x.done = call[b].done
  <2>1. CASE ReportReturns(b)
    BY <1>1, <2>1, Zenon DEF ReportReturns
  <2>2. CASE ReportThrows(b)
    <3>1. PICK h \in handlers : \/ handlers' = handlers \ {h}
                                \/ handlers' = (handlers \ {h}) \cup {[h EXCEPT !.orphan = TRUE]}
      BY <2>2, Zenon DEF ReportThrows, HandlersOf
    <3> DEFINE o == [h EXCEPT !.orphan = TRUE]
    <3>2. o \in HandlerRec /\ o.b = h.b /\ o.done = h.done
      BY <1>1, Zenon DEF HandlerRec
    <3>3. handlers' = handlers \ {h} \/ handlers' = (handlers \ {h}) \cup {o}
      BY <3>1, Zenon
    <3> HIDE DEF o
    <3> QED BY <1>1, <3>2, <3>3, Zenon
  <2>3. CASE ReportReopen(b)
    <3> DEFINE h == NewHandler(b, call[b].status, call[b].done)
    <3>1. h \in HandlerRec /\ h.b = b /\ h.done = call[b].done
      BY <1>1, Zenon DEF NewHandler, HandlerRec, CallRec
    <3>2. handlers' = handlers \cup {h} \/ handlers' = handlers
      BY <2>3, Zenon DEF ReportReopen
    <3> HIDE DEF h
    <3> QED BY <1>1, <3>1, <3>2, Zenon
  <2> QED BY <2>1, <2>2, <2>3, Zenon
<1>7. faults' \in [n : Nat, late : BOOLEAN]
  <2>1. UNCHANGED faults \/ Fault(FALSE) \/ Fault(TRUE)
    BY Zenon DEF ReportReturns, ReportThrows, ReportReopen
  <2> QED BY <1>1, <2>1, FaultIs, Zenon
<1>8. PICK g \in FragRec : /\ frag' = [frag EXCEPT ![b] = g]
                           /\ g.pc \in {frag[b].pc, "ended"} /\ g.status = frag[b].status
  BY <1>4, Zenon
<1>9. PICK k \in CallRec : call' = [call EXCEPT ![b] = k] /\ (k.done => call[b].done)
  BY <1>5, Zenon
<1>10. /\ call' \in [Backends -> CallRec] /\ (\A c \in Backends : c # b => call'[c] = call[c])
       /\ (call'[b].done => call[b].done)
  BY <1>1, <1>9, Zenon
<1>11. /\ g.pc # "none" /\ (FragEnded(b) => g.pc \notin {"none", "run"})
       /\ (g.pc \in {"none", "run"} => g.status = "OK")
  BY <1>3, <1>8, Zenon DEF FragEnded, Inv, StartInv
<1>12. call[b].done => g.pc # "run"
  BY <1>8, Zenon DEF Inv, DoneInv, CallOK, FragEnded
<1>13. \A x \in handlers' : \/ \E h \in handlers : x.b = h.b /\ x.done = h.done
                            \/ x.b = b /\ (x.done => g.pc # "run")
  BY <1>6, <1>12, Zenon
<1> QED BY <1>2, <1>3, <1>6, <1>7, <1>8, <1>10, <1>11, <1>13, FragMoves, Zenon
\* A handler moves, and may change the backends' records.
LEMMA HandlerMoves ==
    ASSUME Inv, UNCHANGED <<coord, main, local, frag, call, faults>>, SameReports(handlers'),
           backend' \in [Backends -> BackendRec],
           \A c \in Backends : /\ backend'[c].pc = backend[c].pc
                               /\ backend'[c].done => FragEnded(c)
                               /\ ToCancel(c)' => ToCancel(c) \/ FragEnded(c)
    PROVE  Inv'
<1>1. TypeInv'
  BY Zenon DEF Inv, TypeInv, SameReports
<1>2. LockInv' /\ WaitInv'
  BY Zenon DEF Inv, LockInv, WaitInv
<1>3. StartInv'
  BY Zenon DEF Inv, StartInv
<1>4. DoneInv'
  <2>1. \A b \in Backends : CallOK(b)' /\ (backend'[b].done => FragEnded(b)')
    BY Zenon DEF Inv, DoneInv, FragEnded, CallOK
  <2>2. \A h \in handlers' : HandlerOK(h)'
    BY Zenon DEF Inv, DoneInv, FragEnded, HandlerOK, SameReports
  <2> QED BY <2>1, <2>2, Zenon DEF DoneInv
<1>5. WalkInv'
  <2>1. \A c \in Backends : FragEnded(c)' <=> FragEnded(c)
    BY Zenon DEF FragEnded
  <2> QED BY <2>1, Zenon DEF Inv, WalkInv
<1> QED BY <1>1, <1>2, <1>3, <1>4, <1>5, Zenon DEF Inv

\* The steps of a report's handler.
LEMMA HandlerKept ==
    ASSUME Inv, NEW h \in handlers, HandlerStep(h)
    PROVE  Inv'
<1>1. /\ coord \in CoordRec /\ main \in MainRec /\ backend \in [Backends -> BackendRec]
      /\ handlers \subseteq HandlerRec /\ h \in HandlerRec /\ h.b \in Backends
      /\ h.status \in Status /\ h.done \in BOOLEAN
  BY Zenon DEF Inv, TypeInv, HandlerRec
<1>2. SameReports(handlers)
  BY <1>1, Zenon DEF SameReports
<1>3. \A pc \in {"find", "record", "merge", "check", "update", "cancelling", "count",
                 "done", "unknown"} : SameReports(Moved(h, pc))
  BY <1>1, MovedIs, Zenon
<1>4. LockFree => main.pc # "exec"
  BY Zenon DEF LockFree, Inv, LockInv
<1>5. CASE FindQuery(h) \/ CheckReport(h) \/ OrphanEnds(h)
  <2>1. UNCHANGED <<coord, backend, main, local, frag, call, faults>>
    BY <1>5, Zenon DEF FindQuery, CheckReport, OrphanEnds
  <2>2. SameReports(handlers')
    <3>1. CASE OrphanEnds(h)
      BY <1>1, <3>1, Zenon DEF OrphanEnds, SameReports
    <3>2. CASE FindQuery(h)
      BY <1>3, <3>2, Zenon DEF FindQuery
    <3>3. CASE CheckReport(h)
      BY <1>3, <3>3, Zenon DEF CheckReport
    <3> QED BY <1>5, <3>1, <3>2, <3>3, Zenon
  <2>3. \A c \in Backends : ToCancel(c)' <=> ToCancel(c)
    BY <2>1, Zenon DEF ToCancel
  <2>4. \A c \in Backends : backend'[c].done => FragEnded(c)
    BY <2>1, Zenon DEF Inv, DoneInv
  <2> QED BY <1>1, <2>1, <2>2, <2>3, <2>4, HandlerMoves, Zenon
<1>6. CASE RecordReport(h)
  <2> DEFINE st == IF h.status = "OK" THEN backend[h.b].status ELSE h.status
             r  == [backend[h.b] EXCEPT !.done = h.done, !.status = st]
  <2>1. /\ UNCHANGED <<coord, main, local, frag, call, faults>>
        /\ backend' = [backend EXCEPT ![h.b].done = h.done, ![h.b].status = st]
        /\ handlers' = Moved(h, IF h.done THEN "merge" ELSE "check")
    BY <1>6, Zenon DEF RecordReport
  <2>2. st \in Status /\ (st = "OK" => backend[h.b].status = "OK")
    BY <1>1, Zenon DEF BackendRec
  <2> HIDE DEF st
  <2>3. backend' = [backend EXCEPT ![h.b] = r]
    BY <1>1, <2>1, Zenon
  <2>4. r \in BackendRec
    BY <1>1, <2>2, ZenonT(60) DEF BackendRec
  <2>5. r.pc = backend[h.b].pc /\ r.done = h.done /\ r.status = st
        /\ r.initiated = backend[h.b].initiated
    BY <1>1 DEF BackendRec
  <2> HIDE DEF r
  <2>6. \A c \in Backends : backend'[c] = IF c = h.b THEN r ELSE backend[c]
    BY <1>1, <2>3, Zenon
  <2>7. backend' \in [Backends -> BackendRec] /\ \A c \in Backends : backend'[c].pc = backend[c].pc
    BY <1>1, <2>3, <2>4, <2>5, <2>6, Zenon
  <2>8. \A c \in Backends : backend[c].done => FragEnded(c)
    BY Zenon DEF Inv, DoneInv
  <2>9. h.done => FragEnded(h.b)
    BY Zenon DEF Inv, DoneInv, HandlerOK
  <2>10. \A c \in Backends : backend'[c].done => FragEnded(c)
    BY <2>5, <2>6, <2>8, <2>9, Zenon
  <2>11. \A c \in Backends : ToCancel(c)' => ToCancel(c) \/ FragEnded(c)
    BY <2>2, <2>5, <2>6, <2>8, Zenon DEF ToCancel
  <2>12. SameReports(handlers')
    BY <1>3, <2>1, Zenon
  <2> QED BY <2>1, <2>7, <2>10, <2>11, <2>12, HandlerMoves, Zenon
<1>7. CASE MergeInsert(h)
  <2> DEFINE m == [coord.merged EXCEPT ![h.b] = @ + 1]
             c == [coord EXCEPT !.merged = m]
  <2>1. UNCHANGED <<backend, main, local, frag, call, faults>> /\ coord' = c
        /\ SameReports(handlers') /\ main.pc # "exec"
    BY <1>1, <1>3, <1>4, <1>7, Zenon DEF MergeInsert, CoordRec
  <2>2. m \in [Backends -> Nat]
    BY <1>1 DEF CoordRec
  <2> HIDE DEF m
  <2>3. c \in CoordRec /\ c.lock = coord.lock /\ c.walk = coord.walk
        /\ c.query_status = coord.query_status /\ c.remaining = coord.remaining
    BY <1>1, <2>2, Zenon DEF CoordRec
  <2> HIDE DEF c
  <2>4. main' \in MainRec /\ main'.pc = main.pc
    BY <1>1, <2>1, Zenon
  <2>5. main.pc = "blocked" => coord.remaining > 0
    BY Zenon DEF Inv, WaitInv
  <2> QED BY <2>1, <2>3, <2>4, <2>5, CoordMoves, Zenon
<1>8. CASE UpdateStatus(h)
  <2>1. UNCHANGED <<backend, main, frag, call, faults>> /\ main.pc # "exec"
    BY <1>4, <1>8, Zenon DEF UpdateStatus
  <2>2. CASE CancelInternal("report", h.status) /\ handlers' = Moved(h, "cancelling")
    BY <1>1, <1>3, <2>1, <2>2, NoRpc, CancelBegins, Zenon
  <2>3. CASE handlers' = Moved(h, "done") /\ UNCHANGED <<coord, local>>
    <3>1. main.pc = "blocked" => coord.remaining > 0
      BY Zenon DEF Inv, WaitInv
    <3> QED BY <1>1, <1>3, <2>1, <2>3, <3>1, CoordMoves, Zenon
  <2> QED BY <1>8, <2>2, <2>3, Zenon DEF UpdateStatus
<1>9. CASE CountDone(h)
  <2> DEFINE c == [coord EXCEPT !.remaining = coord.remaining - 1]
  <2>1. UNCHANGED <<backend, local, frag, call, faults>> /\ coord' = c
        /\ SameReports(handlers') /\ main.pc # "exec" /\ coord.remaining \in Int
        /\ main' = IF coord.remaining = 1 THEN Notified(main) ELSE main
    BY <1>1, <1>3, <1>4, <1>9, Zenon DEF CountDone, CoordRec
  <2>2. c \in CoordRec /\ c.lock = coord.lock /\ c.walk = coord.walk
        /\ c.query_status = coord.query_status /\ c.remaining = coord.remaining - 1
    BY <1>1, <2>1 DEF CoordRec
  <2> HIDE DEF c
  <2>3. main' \in MainRec /\ main'.pc # "exec"
        /\ (main'.pc = "blocked" => main.pc = "blocked" /\ coord.remaining # 1)
    BY <1>1, <2>1, NotifiedIs
  <2>4. main'.pc = "blocked" => main.pc = "blocked" /\ coord.remaining - 1 > 0
    BY <2>1, <2>3 DEF Inv, WaitInv
  <2> QED BY <2>1, <2>2, <2>3, <2>4, CoordMoves, Zenon
<1> QED BY <1>5, <1>6, <1>7, <1>8, <1>9, Zenon DEF HandlerStep
\* Every step keeps the invariant.
LEMMA NextInv ==
    ASSUME Inv, [Next]_vars
    PROVE  Inv'
<1>1. CASE UNCHANGED vars
  <2>1. UNCHANGED <<coord, backend, main, local, frag, call, handlers, faults>>
    BY <1>1, Zenon DEF vars
  <2>2. TypeInv' /\ LockInv' /\ WaitInv'
    BY <2>1, Zenon DEF Inv, TypeInv, LockInv, WaitInv
  <2>3. StartInv' /\ DoneInv'
    BY <2>1, Zenon DEF Inv, StartInv, DoneInv, CallOK, HandlerOK, FragEnded
  <2>4. WalkInv'
    BY <2>1, Zenon DEF Inv, WalkInv, ToCancel, FragEnded
  <2> QED BY <2>2, <2>3, <2>4, Zenon DEF Inv
<1>2. CASE MainStep
  BY <1>2, StageDoneKept, MainKept, MainUpdateKept, GetNextKept, WalkKept, Zenon DEF MainStep
<1>3. CASE CancelStep \/ Cancel \/ UnregisterQuery
  BY <1>3, WalkKept, CancelDoneKept, ServerKept, Zenon DEF CancelStep
<1>4. ASSUME NEW b \in Backends,
             BackendStep(b) \/ ReportProfile(b) \/ \E status \in Status : RunEnds(b, status)
      PROVE  Inv'
  BY <1>4, ExecKept, RunKept, SendKept, ReportKept, Zenon DEF BackendStep
<1>5. ASSUME NEW h \in handlers, HandlerStep(h)
      PROVE  Inv'
  BY <1>5, HandlerKept, Zenon
<1> QED BY <1>1, <1>2, <1>3, <1>4, <1>5, Zenon DEF Next

\* The invariant holds in every state of every behaviour.
LEMMA InvHolds == Spec => []Inv
BY InitInv, NextInv, PTL DEF Spec

\* For every plan, an error of the query reaches everybody: whenever lock_ is free and
\* the query's status is not OK (Cancel, UpdateStatus and Exec set it and tell the
\* backends before they release the lock), each fragment that the coordinator believes
\* to run has been told or has ended by itself.
THEOREM ErrorReachesAll == Spec => []CancelsAll
<1>1. Inv => CancelsAll
  BY Zenon DEF Inv, LockInv, WalkInv, CancelsAll, LockFree
<1> QED BY <1>1, InvHolds, PTL

\* For every plan, WaitForAllBackends never sleeps for nothing: while it waits on
\* backend_completion_cv_ and lock_ is free, a backend is left and there is no error,
\* so that CountDone or the next CancelInternal is yet to notify it.
THEOREM WaiterIsWoken == Spec => []WaiterWoken
<1>1. Inv => WaiterWoken
  BY Zenon DEF Inv, LockInv, WaitInv, WaiterWoken, LockFree
<1> QED BY <1>1, InvHolds, PTL
-------------------------------------------------------------------------------
(* A finalized insert is complete *)

\* A fragment that has sent no final report, and has no error to report
Clean(f) == f.status = "OK" /\ f.exec_status = "OK" /\ f.pc \notin {"reporting", "ended"}

\* The last report of a fragment that ended well
Success(k) == k.pc # "none" /\ k.done /\ k.status = "OK"

\* A fragment f, its report k under way and the number m of its results merged: the
\* report that ends it well is the only final one, and comes after none that was final
Fits(f, k, m) ==
    /\ f.reporter # "off" => f.pc \in {"run", "stop"}
    /\ f.pc = "none" => f.exec_status = "OK" /\ f.status = "OK"
    /\ k.pc # "none" => f.exec_status = k.status /\ (f.reporter = "busy" \/ f.pc = "reporting")
    /\ Success(k) => f.pc = "reporting" /\ f.status = "OK"
    /\ Clean(f) => m = 0
    /\ Success(k) /\ k.pc = "reopen" => m = 0

\* A handler h serves the report k under way, and merges before it counts
Serves(h, k, m) ==
    /\ ~ h.orphan
    /\ k.pc \in {"call", "retry"}
    /\ h.status = k.status /\ h.done = k.done
    /\ h.pc \in {"merge", "count"} => h.done
    /\ h.pc = "count" => h.status = "OK"
    /\ h.pc \in {"update", "cancelling"} => h.status # "OK"
    /\ h.done /\ h.status = "OK" =>
          /\ h.pc \in {"find", "record", "merge"} => m = 0
          /\ h.pc \in {"check", "count", "done"} => m = 1

\* A backend's report has at most one handler
BackendInv(b) ==
    /\ Fits(frag[b], call[b], coord.merged[b])
    /\ \A h \in handlers : h.b = b => Serves(h, call[b], coord.merged[b])
    /\ \A h, g \in handlers : h.b = b /\ g.b = b => h = g

\* As long as no answer is lost
ReportInv == ~ CoordFragment /\ ~ faults.late => \A b \in Backends : BackendInv(b)

\* The final report of b has been counted, and its fragment has ended well
Counted(b) ==
    /\ coord.merged[b] = 1
    /\ frag[b].pc \in {"reporting", "ended"} /\ frag[b].status = "OK"
    /\ call[b].pc # "reopen"
    /\ \A h \in handlers : h.b = b => h.pc = "done"

Uncounted == {b \in Backends : ~ Counted(b)}

\* What is left to wait for are at least the backends not counted
CountInv == ~ CoordFragment /\ ~ faults.late => Cardinality(Uncounted) <= coord.remaining

\* Without a local fragment an insert is finalized once all backends are counted, or
\* after an error
FinalInv ==
    ~ CoordFragment =>
        /\ ~ coord.returned_all
        /\ main.pc # "update"
        /\ main.pc = "cancelling" => main.then = "ended"
        /\ main.pc = "finalize" => coord.remaining <= 0 \/ coord.query_status # "OK"
        /\ main.pc = "finalized" /\ main.outcome = "OK" => coord.remaining <= 0

\* What is known of c is still known after the step, and what is counted stays so
Kept(c) == BackendInv(c)' /\ (Counted(c) => Counted(c)')

\* What does not concern a backend leaves it as it is.
LEMMA UntouchedKept ==
    ASSUME NEW c \in Backends, BackendInv(c),
           frag'[c].pc = frag[c].pc, frag'[c].status = frag[c].status,
           frag'[c].exec_status = frag[c].exec_status, frag'[c].reporter = frag[c].reporter,
           call'[c] = call[c], coord'.merged[c] = coord.merged[c],
           \A h \in handlers' : h.b = c => h \in handlers
    PROVE  Kept(c)
<1>1. Fits(frag'[c], call'[c], coord'.merged[c])
  BY Zenon DEF BackendInv, Fits, Clean
<1>2. \A h \in handlers' : h.b = c => Serves(h, call'[c], coord'.merged[c])
  BY Zenon DEF BackendInv
<1>3. \A h, g \in handlers' : h.b = c /\ g.b = c => h = g
  BY Zenon DEF BackendInv
<1>4. Counted(c) => Counted(c)'
  BY Zenon DEF Counted
<1> QED BY <1>1, <1>2, <1>3, <1>4, Zenon DEF Kept, BackendInv

\* A step that changes nothing about the reports.
LEMMA NothingMoves ==
    ASSUME \A c \in Backends : BackendInv(c), handlers' \subseteq handlers, call' = call,
           coord'.merged = coord.merged,
           \A c \in Backends :
              /\ frag'[c].pc = frag[c].pc /\ frag'[c].status = frag[c].status
              /\ frag'[c].exec_status = frag[c].exec_status
              /\ frag'[c].reporter = frag[c].reporter
    PROVE  \A c \in Backends : Kept(c)
BY UntouchedKept, Zenon

\* A step that concerns one backend.
LEMMA OneMoves ==
    ASSUME \A c \in Backends : BackendInv(c), NEW b \in Backends, Kept(b),
           \A c \in Backends : c # b => /\ frag'[c] = frag[c] /\ call'[c] = call[c]
                                        /\ coord'.merged[c] = coord.merged[c],
           \A h \in handlers' : h.b # b => h \in handlers
    PROVE  \A c \in Backends : Kept(c)
<1>1. ASSUME NEW c \in Backends, c # b
      PROVE  Kept(c)
  <2>1. \A h \in handlers' : h.b = c => h \in handlers
    BY <1>1, Zenon
  <2> QED BY <1>1, <2>1, UntouchedKept, Zenon
<1> QED BY <1>1, Zenon
\* The client's thread, the cancellation, and Exec's rpcs when they return.
LEMMA QuietKept ==
    ASSUME Inv, \A c \in Backends : BackendInv(c),
           \/ MainStep \/ CancelWalk \/ Cancel \/ UnregisterQuery
           \/ \E b \in Backends : ExecReturns(b)
    PROVE  \A c \in Backends : Kept(c)
<1>1. coord \in CoordRec
  BY Zenon DEF Inv, TypeInv
<1>2. handlers' = handlers /\ call' = call
  BY Zenon DEF MainStep, StageDone, Wait, MainUpdate, GetNext, LimitWalk, WaitForAllBackends,
               FinalizeQuery, CancelWalk, Cancel, UnregisterQuery, ExecReturns
<1>3. coord'.merged = coord.merged
  <2>1. ASSUME NEW who, NEW status, CancelInternal(who, status)
        PROVE  coord'.merged = coord.merged
    BY <1>1, <2>1, Zenon DEF CancelInternal, CoordRec
  <2>2. CASE StageDone
    BY <1>1, <2>1, <2>2, Zenon DEF StageDone, CoordRec
  <2>3. CASE MainUpdate
    BY <2>1, <2>3, Zenon DEF MainUpdate
  <2>4. CASE GetNext
    BY <1>1, <2>4, Zenon DEF GetNext, CoordRec
  <2>5. CASE CancelWalk \/ UnregisterQuery
    BY <1>1, <2>5, Zenon DEF CancelWalk, UnregisterQuery, CoordRec
  <2>6. CASE Cancel
    BY <2>1, <2>6, Zenon DEF Cancel
  <2>7. CASE Wait \/ LimitWalk \/ WaitForAllBackends \/ FinalizeQuery
             \/ \E b \in Backends : ExecReturns(b)
    BY <2>7, Zenon DEF Wait, LimitWalk, WaitForAllBackends, FinalizeQuery, ExecReturns
  <2> QED BY <2>2, <2>3, <2>4, <2>5, <2>6, <2>7, Zenon DEF MainStep
<1>4. \A c \in Backends :
         /\ frag'[c].pc = frag[c].pc /\ frag'[c].status = frag[c].status
         /\ frag'[c].exec_status = frag[c].exec_status
         /\ frag'[c].reporter = frag[c].reporter
  <2>1. (\E b \in Backends : CancelBackend(b)) \/ frag' = frag
    BY Zenon DEF MainStep, StageDone, Wait, MainUpdate, GetNext, LimitWalk, WaitForAllBackends,
                 FinalizeQuery, CancelWalk, Cancel, UnregisterQuery, ExecReturns
  <2> QED BY <2>1, CancelBackendIs, Zenon
<1> QED BY <1>2, <1>3, <1>4, NothingMoves, Zenon

\* The end of CancelInternal: the handler that called it is done.
LEMMA CancelDoneCounts ==
    ASSUME Inv, \A c \in Backends : BackendInv(c), CancelDone
    PROVE  \A c \in Backends : Kept(c)
<1>1. coord \in CoordRec /\ handlers \subseteq HandlerRec
  BY Zenon DEF Inv, TypeInv
<1>2. frag' = frag /\ call' = call /\ coord'.merged = coord.merged
  BY <1>1, Zenon DEF CancelDone, CoordRec
<1>3. \A g \in handlers' : \E h \in handlers :
         g = h \/ (h.pc = "cancelling" /\ g = [h EXCEPT !.pc = "done"])
  BY Zenon DEF CancelDone
<1>4. ASSUME NEW h \in handlers
      PROVE  LET g == [h EXCEPT !.pc = "done"]
             IN  g.b = h.b /\ g.status = h.status /\ g.done = h.done /\ g.orphan = h.orphan
                 /\ g.pc = "done"
  BY <1>1, Zenon DEF HandlerRec
<1>5. \A g \in handlers' : \E h \in handlers :
         /\ g.b = h.b /\ g.status = h.status /\ g.done = h.done /\ g.orphan = h.orphan
         /\ g = h \/ (h.pc = "cancelling" /\ g = [h EXCEPT !.pc = "done"])
         /\ g.pc = h.pc \/ (h.pc = "cancelling" /\ g.pc = "done")
  <2> TAKE g \in handlers'
  <2>1. PICK h \in handlers : g = h \/ (h.pc = "cancelling" /\ g = [h EXCEPT !.pc = "done"])
    BY <1>3, Zenon
  <2>2. CASE g = h
    BY <2>2, Zenon
  <2>3. CASE h.pc = "cancelling" /\ g = [h EXCEPT !.pc = "done"]
    <3>1. g.b = h.b /\ g.status = h.status /\ g.done = h.done /\ g.orphan = h.orphan
          /\ g.pc = "done"
      BY <1>4, <2>3, Zenon
    <3> QED BY <2>3, <3>1, Zenon
  <2> QED BY <2>1, <2>2, <2>3, Zenon
<1>6. ASSUME NEW c \in Backends
      PROVE  Kept(c)
  <2>1. Fits(frag'[c], call'[c], coord'.merged[c])
    BY <1>2, Zenon DEF BackendInv
  <2>2. ASSUME NEW g \in handlers', g.b = c
        PROVE  Serves(g, call'[c], coord'.merged[c])
    <3>1. PICK h \in handlers :
             /\ g.b = h.b /\ g.status = h.status /\ g.done = h.done /\ g.orphan = h.orphan
             /\ g.pc = h.pc \/ (h.pc = "cancelling" /\ g.pc = "done")
      BY <1>5
    <3>2. Serves(h, call[c], coord.merged[c])
      BY <2>2, <3>1, Zenon DEF BackendInv
    <3> QED BY <1>2, <3>1, <3>2, Zenon DEF Serves
  <2>3. ASSUME NEW g1 \in handlers', NEW g2 \in handlers', g1.b = c, g2.b = c
        PROVE  g1 = g2
    <3>1. PICK h1 \in handlers :
             g1.b = h1.b /\ (g1 = h1 \/ (h1.pc = "cancelling" /\ g1 = [h1 EXCEPT !.pc = "done"]))
      BY <1>5
    <3>2. PICK h2 \in handlers :
             g2.b = h2.b /\ (g2 = h2 \/ (h2.pc = "cancelling" /\ g2 = [h2 EXCEPT !.pc = "done"]))
      BY <1>5
    <3>3. h1 = h2
      BY <2>3, <3>1, <3>2, Zenon DEF BackendInv
    <3>4. CASE h1.pc = "cancelling"
      <4>1. h1 \notin handlers' \/ ~ (h1.pc = "cancelling")
        BY <1>1, <1>4 DEF CancelDone, HandlerRec
      <4> QED BY <3>1, <3>2, <3>3, <3>4, <4>1, Zenon
    <3>5. CASE h1.pc # "cancelling"
      BY <3>1, <3>2, <3>3, <3>5, Zenon
    <3> QED BY <3>4, <3>5, Zenon
  <2>4. Counted(c) => Counted(c)'
    <3>1. ASSUME Counted(c), NEW g \in handlers', g.b = c
          PROVE  g.pc = "done"
      BY <1>5, <3>1 DEF Counted
    <3> QED BY <1>2, <3>1, Zenon DEF Counted
  <2> QED BY <2>1, <2>2, <2>3, <2>4, Zenon DEF Kept, BackendInv
<1> QED BY <1>6, Zenon
\* A fragment is started, or its execution thread comes to the end.
LEMMA FragCounts ==
    ASSUME Inv, \A c \in Backends : BackendInv(c), NEW b \in Backends,
           \/ ExecRemoteFragment(b) \/ StopReportThread(b)
           \/ \E status \in Status : RunEnds(b, status)
    PROVE  \A c \in Backends : Kept(c)
<1>1. frag \in [Backends -> FragRec] /\ frag[b] \in FragRec
  BY Zenon DEF Inv, TypeInv
<1>2. handlers' = handlers /\ call' = call /\ coord' = coord
  BY Zenon DEF ExecRemoteFragment, StopReportThread, RunEnds
<1>3. Fits(frag[b], call[b], coord.merged[b])
  BY Zenon DEF BackendInv
<1>4. ASSUME NEW g, frag' = [frag EXCEPT ![b] = g], Fits(g, call[b], coord.merged[b]),
             frag[b].pc \in {"none", "run", "stop"}
      PROVE  \A c \in Backends : Kept(c)
  <2>1. frag'[b] = g /\ \A c \in Backends : c # b => frag'[c] = frag[c]
    BY <1>1, <1>4, Zenon
  <2>2. BackendInv(b)'
    BY <1>2, <1>4, <2>1, Zenon DEF BackendInv
  <2>3. ~ Counted(b)
    BY <1>4, Zenon DEF Counted
  <2> QED BY <1>2, <2>1, <2>2, <2>3, OneMoves, Zenon DEF Kept
<1>5. CASE ExecRemoteFragment(b)
  <2>1. CASE UNCHANGED frag
    BY <1>2, <2>1, NothingMoves, Zenon
  <2>2. CASE frag' = [frag EXCEPT ![b] = StartedFrag]
    <3>1. frag[b].pc = "none" /\ call[b].pc = "none"
      BY <1>5, Zenon DEF ExecRemoteFragment, Inv, StartInv, DoneInv, CallOK
    <3>2. /\ StartedFrag.pc = "run" /\ StartedFrag.reporter = "sleep"
          /\ StartedFrag.status = "OK" /\ StartedFrag.exec_status = "OK"
      BY Zenon DEF StartedFrag, NewFrag
    <3>3. Fits(StartedFrag, call[b], coord.merged[b])
      BY <1>3, <3>1, <3>2, Zenon DEF Fits, Clean, Success
    <3> QED BY <1>4, <2>2, <3>1, <3>3, Zenon
  <2> QED BY <1>5, <2>1, <2>2, Zenon DEF ExecRemoteFragment
<1>6. CASE StopReportThread(b)
  <2> DEFINE g == [frag[b] EXCEPT !.pc = "final", !.reporter = "off"]
  <2>1. frag[b].pc = "stop" /\ frag[b].reporter # "busy" /\ frag' = [frag EXCEPT ![b] = g]
    BY <1>1, <1>6, Zenon DEF StopReportThread
  <2>2. g.pc = "final" /\ g.reporter = "off" /\ g.status = frag[b].status
        /\ g.exec_status = frag[b].exec_status
    BY <1>1, Zenon DEF FragRec
  <2> HIDE DEF g
  <2>3. Fits(g, call[b], coord.merged[b])
    BY <1>3, <2>1, <2>2, Zenon DEF Fits, Clean, Success
  <2> QED BY <1>4, <2>1, <2>3, Zenon
<1>7. ASSUME NEW status \in Status, RunEnds(b, status)
      PROVE  \A c \in Backends : Kept(c)
  <2> DEFINE g == [frag[b] EXCEPT !.pc = "stop", !.status = status]
  <2>1. frag[b].pc = "run" /\ frag' = [frag EXCEPT ![b] = g]
    BY <1>1, <1>7, Zenon DEF RunEnds
  <2>2. g.pc = "stop" /\ g.reporter = frag[b].reporter /\ g.exec_status = frag[b].exec_status
    BY <1>1, Zenon DEF FragRec
  <2>3. frag[b].status = "OK"
    BY <2>1, Zenon DEF Inv, StartInv
  <2> HIDE DEF g
  <2>4. Fits(g, call[b], coord.merged[b])
    BY <1>3, <2>1, <2>2, <2>3, Zenon DEF Fits, Clean, Success
  <2> QED BY <1>4, <2>1, <2>4, Zenon
<1> QED BY <1>5, <1>6, <1>7, Zenon

\* A report is sent: the fragment has no other under way.
LEMMA SendCounts ==
    ASSUME Inv, \A c \in Backends : BackendInv(c), NEW b \in Backends,
           ReportProfile(b) \/ FinalReport(b)
    PROVE  \A c \in Backends : Kept(c)
<1>1. /\ frag \in [Backends -> FragRec] /\ frag[b] \in FragRec /\ call \in [Backends -> CallRec]
      /\ frag[b].exec_status \in Status
  BY Zenon DEF Inv, TypeInv, FragRec
<1>2. coord' = coord
  BY Zenon DEF ReportProfile, FinalReport
<1>3. Fits(frag[b], call[b], coord.merged[b])
  BY Zenon DEF BackendInv
<1>4. ASSUME NEW busy \in FragRec, NEW done \in BOOLEAN, SendReport(b, busy, done),
             busy.status = frag[b].status, busy.exec_status = frag[b].exec_status,
             \/ /\ frag[b].reporter = "sleep" /\ busy.reporter = "busy" /\ ~ done
                /\ busy.pc = frag[b].pc
             \/ /\ frag[b].pc = "final" /\ busy.pc = "reporting" /\ done
                /\ busy.reporter = frag[b].reporter
      PROVE  \A c \in Backends : Kept(c)
  <2>0. call[b].pc = "none" /\ frag[b].pc \in {"run", "stop", "final"}
    BY <1>3, <1>4, Zenon DEF Fits
  <2>1. PICK g \in FragRec, status \in Status, final \in BOOLEAN :
              /\ frag' = [frag EXCEPT ![b] = g] /\ g.status = busy.status
              /\ final = (done \/ busy.status # "OK")
              /\ status = FirstError(busy.exec_status, busy.status)
              /\ \/ /\ g.pc = busy.pc /\ g.reporter = busy.reporter /\ g.exec_status = status
                    /\ call' = [call EXCEPT ![b] = [pc |-> "call", status |-> status, done |-> final]]
                    /\ handlers' = handlers \cup {NewHandler(b, status, final)}
                    /\ UNCHANGED faults
                 \/ /\ Fault(FALSE) /\ g.exec_status # "OK"
                    /\ g.pc = IF busy.reporter = "busy" THEN busy.pc ELSE "ended"
                    /\ g.reporter = IF busy.reporter = "busy" THEN "sleep" ELSE busy.reporter
                    /\ UNCHANGED <<call, handlers>>
    BY <1>4, SendReportIs, Zenon
  <2>2. frag'[b] = g /\ \A c \in Backends : c # b => frag'[c] = frag[c]
    BY <1>1, <2>1, Zenon
  <2>3. ~ Counted(b)
    BY <2>0, Zenon DEF Counted
  <2>4. \A h \in handlers : h.b # b
    BY <2>0, Zenon DEF BackendInv, Serves
  <2>5. status = "OK" <=> frag[b].exec_status = "OK" /\ frag[b].status = "OK"
    BY <1>1, <1>4, <2>1, FirstErrorIs DEF FragRec
  <2>6. CASE /\ g.pc = busy.pc /\ g.reporter = busy.reporter /\ g.exec_status = status
             /\ call' = [call EXCEPT ![b] = [pc |-> "call", status |-> status, done |-> final]]
             /\ handlers' = handlers \cup {NewHandler(b, status, final)}
    <3> DEFINE k == [pc |-> "call", status |-> status, done |-> final]
               h == NewHandler(b, status, final)
    <3>1. k.pc = "call" /\ k.status = status /\ k.done = final
      BY Zenon
    <3>2. h.b = b /\ h.status = status /\ h.done = final /\ h.orphan = FALSE /\ h.pc = "find"
      BY Zenon DEF NewHandler
    <3>3. call'[b] = k /\ (\A c \in Backends : c # b => call'[c] = call[c])
          /\ handlers' = handlers \cup {h}
      BY <1>1, <2>6, Zenon
    <3> HIDE DEF k, h
    <3>4. final /\ status = "OK" => busy.pc = "reporting" /\ frag[b].pc = "final"
      BY <1>4, <2>1, <2>5, Zenon
    <3>5. Fits(g, k, coord.merged[b])
      BY <1>3, <1>4, <2>0, <2>1, <2>5, <2>6, <3>1, <3>4, Zenon DEF Fits, Clean, Success
    <3>6. final /\ status = "OK" => coord.merged[b] = 0
      BY <1>3, <2>5, <3>4, Zenon DEF Fits, Clean
    <3>7. Serves(h, k, coord.merged[b])
      BY <3>1, <3>2, <3>6, Zenon DEF Serves
    <3>8. \A x \in handlers' : x.b = b => x = h
      BY <2>4, <3>3, Zenon
    <3>9. BackendInv(b)'
      BY <1>2, <2>2, <3>3, <3>5, <3>7, <3>8, Zenon DEF BackendInv
    <3>10. \A x \in handlers' : x.b # b => x \in handlers
      BY <3>2, <3>3, Zenon
    <3> QED BY <1>2, <2>2, <2>3, <3>3, <3>9, <3>10, OneMoves, Zenon DEF Kept
  <2>7. CASE /\ g.exec_status # "OK"
             /\ g.pc = IF busy.reporter = "busy" THEN busy.pc ELSE "ended"
             /\ g.reporter = IF busy.reporter = "busy" THEN "sleep" ELSE busy.reporter
             /\ UNCHANGED <<call, handlers>>
    <3>1. Fits(g, call[b], coord.merged[b])
      BY <1>3, <1>4, <2>0, <2>7, Zenon DEF Fits, Clean, Success
    <3>2. BackendInv(b)'
      BY <1>2, <2>2, <2>4, <2>7, <3>1, Zenon DEF BackendInv
    <3> QED BY <1>2, <2>2, <2>3, <2>7, <3>2, OneMoves, Zenon DEF Kept
  <2> QED BY <2>1, <2>6, <2>7, Zenon
<1>5. CASE ReportProfile(b)
  <2> DEFINE busy == [frag[b] EXCEPT !.reporter = "busy", !.ticks = frag[b].ticks + 1]
  <2>1. SendReport(b, busy, FALSE) /\ frag[b].reporter = "sleep"
    BY <1>5, Zenon DEF ReportProfile
  <2>2. frag[b].ticks + 1 \in Nat
    BY <1>1 DEF FragRec
  <2>3. busy \in FragRec
    BY <1>1, <2>2, Zenon DEF FragRec
  <2>4. busy.pc = frag[b].pc /\ busy.status = frag[b].status /\ busy.reporter = "busy"
        /\ busy.exec_status = frag[b].exec_status
    BY <1>1, Zenon DEF FragRec
  <2> HIDE DEF busy
  <2> QED BY <1>4, <2>1, <2>3, <2>4, Zenon
<1>6. CASE FinalReport(b)
  <2> DEFINE busy == [frag[b] EXCEPT !.pc = "reporting"]
  <2>1. SendReport(b, busy, TRUE) /\ frag[b].pc = "final"
    BY <1>6, Zenon DEF FinalReport
  <2>2. busy \in FragRec
    BY <1>1, Zenon DEF FragRec
  <2>3. busy.pc = "reporting" /\ busy.status = frag[b].status
        /\ busy.reporter = frag[b].reporter /\ busy.exec_status = frag[b].exec_status
    BY <1>1, Zenon DEF FragRec
  <2> HIDE DEF busy
  <2> QED BY <1>4, <2>1, <2>2, <2>3, Zenon
<1> QED BY <1>5, <1>6, Zenon
\* The rpc of a report returns, throws with the request lost, or is sent again.
LEMMA ReportCounts ==
    ASSUME Inv, \A c \in Backends : BackendInv(c), ~ faults'.late, NEW b \in Backends,
           ReportReturns(b) \/ ReportThrows(b) \/ ReportReopen(b)
    PROVE  \A c \in Backends : Kept(c)
<1> DEFINE m == coord.merged[b]
           refused == Reported([Noted(frag[b], "ERROR") EXCEPT !.cancelled = TRUE])
<1>1. /\ frag \in [Backends -> FragRec] /\ frag[b] \in FragRec /\ call \in [Backends -> CallRec]
      /\ call[b] \in CallRec
  BY Zenon DEF Inv, TypeInv
<1>2. coord' = coord
  BY Zenon DEF ReportReturns, ReportThrows, ReportReopen
<1>3. Fits(frag[b], call[b], m)
  BY Zenon DEF BackendInv
<1>4. NoCall.pc = "none" /\ NoCall.done = FALSE
  BY Zenon DEF NoCall
<1>5. ASSUME NEW g, NEW k, frag' = [frag EXCEPT ![b] = g], call' = [call EXCEPT ![b] = k],
             Fits(g, k, m), \A x \in handlers' : x.b # b => x \in handlers,
             \A x \in handlers' : x.b = b => Serves(x, k, m),
             \A x, y \in handlers' : x.b = b /\ y.b = b => x = y,
             Counted(b) => /\ g.pc \in {"reporting", "ended"} /\ g.status = "OK"
                           /\ k.pc # "reopen" /\ \A x \in handlers' : x.b # b
      PROVE  \A c \in Backends : Kept(c)
  <2>1. frag'[b] = g /\ call'[b] = k
        /\ \A c \in Backends : c # b => frag'[c] = frag[c] /\ call'[c] = call[c]
    BY <1>1, <1>5, Zenon
  <2>2. BackendInv(b)'
    BY <1>2, <1>5, <2>1, Zenon DEF BackendInv
  <2>3. Counted(b) => Counted(b)'
    BY <1>2, <1>5, <2>1, Zenon DEF Counted
  <2> QED BY <1>2, <1>5, <2>1, <2>2, <2>3, OneMoves, Zenon DEF Kept
<1>6. /\ refused.pc = IF frag[b].reporter = "busy" THEN frag[b].pc ELSE "ended"
      /\ refused.reporter = IF frag[b].reporter = "busy" THEN "sleep" ELSE frag[b].reporter
      /\ refused.status = frag[b].status /\ refused.exec_status # "OK"
  BY <1>1, RefusedIs, Zenon
<1>7. ReportRefused(b) => frag' = [frag EXCEPT ![b] = refused]
  BY Zenon DEF ReportRefused
<1> HIDE DEF refused
<1>8. call[b].pc # "none" => Fits(refused, NoCall, m)
  BY <1>3, <1>4, <1>6, Zenon DEF Fits, Clean, Success
<1>9. CASE ReportReturns(b)
  <2>1. PICK h \in handlers :
            /\ h.b = b
            /\ \/ h.pc = "done" /\ frag' = [frag EXCEPT ![b] = Reported(frag[b])]
               \/ h.pc = "unknown" /\ ReportRefused(b)
            /\ handlers' = handlers \ {h} /\ call' = [call EXCEPT ![b] = NoCall]
    BY <1>9, Zenon DEF ReportReturns, HandlersOf
  <2>2. Serves(h, call[b], m) /\ \A x \in handlers : x.b = b => x = h
    BY <2>1, Zenon DEF BackendInv
  <2>3. (\A x \in handlers' : x.b # b) /\ (\A x \in handlers' : x \in handlers)
    BY <2>1, <2>2, Zenon
  <2>4. call[b].pc # "none"
    BY <2>2, Zenon DEF Serves
  <2>5. CASE frag' = [frag EXCEPT ![b] = Reported(frag[b])]
    <3> DEFINE g == Reported(frag[b])
    <3>1. /\ g.pc = IF frag[b].reporter = "busy" THEN frag[b].pc ELSE "ended"
          /\ g.reporter = IF frag[b].reporter = "busy" THEN "sleep" ELSE frag[b].reporter
          /\ g.status = frag[b].status /\ g.exec_status = frag[b].exec_status
      BY <1>1, ReportedIs, Zenon
    <3> HIDE DEF g
    <3>2. Fits(g, NoCall, m)
      BY <1>3, <1>4, <2>4, <3>1, Zenon DEF Fits, Clean, Success
    <3>3. Counted(b) => g.pc \in {"reporting", "ended"} /\ g.status = "OK"
      BY <3>1, Zenon DEF Counted
    <3>4. frag' = [frag EXCEPT ![b] = g]
      BY <2>5, Zenon DEF g
    <3> QED BY <1>4, <1>5, <2>1, <2>3, <3>2, <3>3, <3>4, Zenon
  <2>6. CASE h.pc = "unknown" /\ ReportRefused(b)
    <3>1. ~ Counted(b)
      BY <2>1, <2>6, Zenon DEF Counted
    <3> QED BY <1>4, <1>5, <1>7, <1>8, <2>1, <2>3, <2>4, <2>6, <3>1, Zenon
  <2> QED BY <2>1, <2>5, <2>6, Zenon
<1>10. CASE ReportThrows(b)
  <2>1. ~ Fault(TRUE)
    BY FaultIs, Zenon DEF Inv, TypeInv
  <2>2. PICK h \in handlers :
            /\ h.b = b /\ h.pc = "find" /\ handlers' = handlers \ {h}
            /\ IF call[b].pc = "call"
               THEN call' = [call EXCEPT ![b].pc = "reopen"] /\ UNCHANGED frag
               ELSE call' = [call EXCEPT ![b] = NoCall] /\ ReportRefused(b)
    BY <1>10, <2>1, Zenon DEF ReportThrows, HandlersOf
  <2>3. Serves(h, call[b], m) /\ \A x \in handlers : x.b = b => x = h
    BY <2>2, Zenon DEF BackendInv
  <2>4. (\A x \in handlers' : x.b # b) /\ (\A x \in handlers' : x \in handlers)
    BY <2>2, <2>3, Zenon
  <2>5. call[b].pc # "none" /\ ~ Counted(b)
    BY <2>2, <2>3, Zenon DEF Serves, Counted
  <2>6. CASE call[b].pc = "call"
    <3> DEFINE k == [call[b] EXCEPT !.pc = "reopen"]
    <3>1. k.pc = "reopen" /\ k.status = call[b].status /\ k.done = call[b].done
      BY <1>1, Zenon DEF CallRec
    <3>2. call' = [call EXCEPT ![b] = k] /\ frag' = [frag EXCEPT ![b] = frag[b]]
      BY <1>1, <2>2, <2>6, Zenon
    <3> HIDE DEF k
    <3>3. Success(k) => m = 0
      BY <2>2, <2>3, <3>1, Zenon DEF Serves, Success
    <3>4. Fits(frag[b], k, m)
      BY <1>3, <2>5, <3>1, <3>3, Zenon DEF Fits, Success
    <3> HIDE DEF m
    <3>5. PICK g : g = frag[b]
      BY Zenon
    <3> QED BY <1>5, <2>4, <2>5, <3>2, <3>4, <3>5, Zenon
  <2>7. CASE call[b].pc # "call"
    BY <1>5, <1>7, <1>8, <2>2, <2>4, <2>5, <2>7
  <2> QED BY <2>6, <2>7, Zenon
<1>11. CASE ReportReopen(b)
  <2>1. call[b].pc = "reopen" /\ ~ Counted(b)
    BY <1>11, Zenon DEF ReportReopen, Counted
  <2>2. \A x \in handlers : x.b # b
    BY <2>1, Zenon DEF BackendInv, Serves
  <2>3. CASE /\ call' = [call EXCEPT ![b].pc = "retry"] /\ UNCHANGED frag
             /\ handlers' = handlers \cup {NewHandler(b, call[b].status, call[b].done)}
    <3> DEFINE k == [call[b] EXCEPT !.pc = "retry"]
               h == NewHandler(b, call[b].status, call[b].done)
    <3>1. k.pc = "retry" /\ k.status = call[b].status /\ k.done = call[b].done
      BY <1>1, Zenon DEF CallRec
    <3>2. /\ h.b = b /\ h.status = call[b].status /\ h.done = call[b].done
          /\ h.orphan = FALSE /\ h.pc = "find"
      BY Zenon DEF NewHandler
    <3>3. call' = [call EXCEPT ![b] = k] /\ frag' = [frag EXCEPT ![b] = frag[b]]
          /\ handlers' = handlers \cup {h}
      BY <1>1, <2>3, Zenon
    <3> HIDE DEF k, h
    <3>4. Fits(frag[b], k, m)
      BY <1>3, <2>1, <3>1, Zenon DEF Fits, Success
    <3>5. call[b].done /\ call[b].status = "OK" => m = 0
      BY <1>3, <2>1, Zenon DEF Fits, Success
    <3>6. Serves(h, k, m)
      BY <3>1, <3>2, <3>5, Zenon DEF Serves
    <3>7. \A x \in handlers' : x.b # b => x \in handlers
      BY <3>2, <3>3, Zenon
    <3>8. \A x \in handlers' : x.b = b => x = h
      BY <2>2, <3>3, Zenon
    <3> QED BY <1>5, <2>1, <3>3, <3>4, <3>6, <3>7, <3>8, Zenon
  <2>4. CASE /\ call' = [call EXCEPT ![b] = NoCall] /\ ReportRefused(b) /\ UNCHANGED handlers
    BY <1>5, <1>7, <1>8, <2>1, <2>2, <2>4, Zenon
  <2> QED BY <1>11, <2>3, <2>4, Zenon DEF ReportReopen
<1> QED BY <1>9, <1>10, <1>11, Zenon
\* The steps of a report's handler; the one that counts makes its backend a counted one.
LEMMA HandlerCounts ==
    ASSUME Inv, \A c \in Backends : BackendInv(c), ~ coord.returned_all,
           NEW h \in handlers, HandlerStep(h)
    PROVE  /\ \A c \in Backends : Kept(c)
           /\ CountDone(h) => ~ Counted(h.b) /\ Counted(h.b)'
<1> DEFINE b == h.b
           m == coord.merged[b]
           At(pc) == [h EXCEPT !.pc = pc]
           PCs == {"find", "record", "merge", "check", "update", "cancelling", "count", "done",
                   "unknown"}
<1>1. /\ coord \in CoordRec /\ handlers \subseteq HandlerRec /\ b \in Backends
      /\ coord.merged \in [Backends -> Nat]
  BY Zenon DEF Inv, TypeInv, HandlerRec, CoordRec
<1>2. frag' = frag /\ call' = call
  BY Zenon DEF HandlerStep, FindQuery, RecordReport, MergeInsert, CheckReport, UpdateStatus,
               CountDone, OrphanEnds
<1>3. Fits(frag[b], call[b], m) /\ Serves(h, call[b], m) /\ \A x \in handlers : x.b = b => x = h
  BY <1>1, Zenon DEF BackendInv
<1>4. \A pc \in PCs : /\ At(pc).b = b /\ At(pc).done = h.done /\ At(pc).status = h.status
                      /\ At(pc).pc = pc /\ At(pc).orphan = h.orphan
  BY <1>1, MovedIs
<1>5. ~ Counted(b)
  <2>1. h.pc # "done"
    BY <1>3, Zenon DEF Serves, HandlerStep, FindQuery, RecordReport, MergeInsert, CheckReport,
                UpdateStatus, CountDone, OrphanEnds
  <2> QED BY <2>1, Zenon DEF Counted
<1>6. ASSUME NEW pc \in PCs, handlers' = Moved(h, pc),
             \A c \in Backends : c # b => coord'.merged[c] = coord.merged[c],
             Fits(frag[b], call[b], coord'.merged[b]), Serves(At(pc), call[b], coord'.merged[b])
      PROVE  /\ \A c \in Backends : Kept(c)
             /\ \A x \in handlers' : x.b = b => x.pc = pc
  <2>1. handlers' = (handlers \ {h}) \cup {At(pc)}
    BY <1>6, Zenon DEF Moved
  <2>2. At(pc).b = b /\ At(pc).pc = pc
    BY <1>4, Zenon
  <2> HIDE DEF At
  <2>3. \A x \in handlers' : x.b = b => x = At(pc)
    BY <1>3, <2>1, Zenon
  <2>4. \A x \in handlers' : x.b # b => x \in handlers
    BY <2>1, <2>2, Zenon
  <2>5. BackendInv(b)'
    <3>1. Fits(frag'[b], call'[b], coord'.merged[b])
      BY <1>2, <1>6, Zenon
    <3>2. \A x \in handlers' : x.b = b => Serves(x, call'[b], coord'.merged[b])
      BY <1>2, <1>6, <2>3, Zenon
    <3>3. \A x, y \in handlers' : x.b = b /\ y.b = b => x = y
      BY <2>3, Zenon
    <3> QED BY <3>1, <3>2, <3>3, Zenon DEF BackendInv
  <2>6. \A c \in Backends : Kept(c)
    BY <1>1, <1>2, <1>5, <1>6, <2>4, <2>5, OneMoves, Zenon DEF Kept
  <2> QED BY <2>2, <2>3, <2>6, Zenon
<1>7. CASE FindQuery(h)
  <2>1. PICK pc \in {"record", "unknown"} : h.pc = "find" /\ coord' = coord /\ handlers' = Moved(h, pc)
    BY <1>7, Zenon DEF FindQuery
  <2>2. Serves(At(pc), call[b], m)
    BY <1>3, <1>4, <2>1 DEF Serves
  <2> QED BY <1>3, <1>6, <1>7, <2>1, <2>2 DEF FindQuery, CountDone
<1>8. CASE RecordReport(h)
  <2>1. PICK pc \in {"merge", "check"} : /\ h.pc = "record" /\ coord' = coord
                                        /\ handlers' = Moved(h, pc) /\ (h.done <=> pc = "merge")
    BY <1>3, <1>8, Zenon DEF RecordReport, Serves
  <2>2. Serves(At(pc), call[b], m)
    BY <1>3, <1>4, <2>1 DEF Serves
  <2> QED BY <1>3, <1>6, <2>1, <2>2, Zenon DEF CountDone
<1>9. CASE MergeInsert(h)
  <2> DEFINE c2 == [coord.merged EXCEPT ![b] = @ + 1]
  <2>1. h.pc = "merge" /\ coord'.merged = c2 /\ handlers' = Moved(h, "check")
    BY <1>1, <1>9, Zenon DEF MergeInsert, CoordRec
  <2>2. coord'.merged[b] = m + 1 /\ \A c \in Backends : c # b => coord'.merged[c] = coord.merged[c]
    BY <1>1, <2>1, Zenon
  <2>3. ~ Clean(frag[b]) /\ call[b].pc # "reopen"
    BY <1>3, <2>1, Zenon DEF Fits, Serves, Clean, Success
  <2>4. Fits(frag[b], call[b], coord'.merged[b])
    BY <1>3, <2>3, Zenon DEF Fits
  <2>5. m \in Nat
    BY <1>1, Zenon
  <2>6. Serves(At("check"), call[b], coord'.merged[b])
    BY <1>3, <1>4, <2>1, <2>2, <2>5 DEF Serves
  <2> QED BY <1>6, <2>1, <2>2, <2>4, <2>6, Zenon DEF CountDone
<1>10. CASE CheckReport(h)
  <2>1. PICK pc \in {"update", "count", "done"} :
            /\ h.pc = "check" /\ coord' = coord /\ handlers' = Moved(h, pc)
            /\ pc = "update" <=> h.status # "OK" /\ ~ Ignored(h)
            /\ pc = "count" => h.done
    BY <1>10, Zenon DEF CheckReport
  <2>2. ~ Ignored(h)
    BY Zenon DEF Ignored
  <2>3. Serves(At(pc), call[b], m)
    BY <1>3, <1>4, <2>1, <2>2 DEF Serves
  <2> QED BY <1>3, <1>6, <2>1, <2>3, Zenon DEF CountDone
<1>11. CASE UpdateStatus(h)
  <2>1. PICK pc \in {"cancelling", "done"} :
            /\ h.pc = "update" /\ handlers' = Moved(h, pc)
            /\ coord' = coord \/ CancelInternal("report", h.status)
    BY <1>11, Zenon DEF UpdateStatus
  <2>2. coord'.merged = coord.merged
    BY <1>1, <2>1, Zenon DEF CancelInternal, CoordRec
  <2>3. Serves(At(pc), call[b], m)
    BY <1>3, <1>4, <2>1 DEF Serves
  <2> QED BY <1>3, <1>6, <2>1, <2>2, <2>3, Zenon DEF CountDone
<1>12. CASE CountDone(h)
  <2>1. h.pc = "count" /\ coord'.merged = coord.merged /\ handlers' = Moved(h, "done")
    BY <1>1, <1>12, Zenon DEF CountDone, CoordRec
  <2>2. Serves(At("done"), call[b], m)
    BY <1>3, <1>4, <2>1, Zenon DEF Serves
  <2>3. (\A c \in Backends : Kept(c)) /\ \A x \in handlers' : x.b = b => x.pc = "done"
    BY <1>3, <1>6, <2>1, <2>2, Zenon
  <2>4. m = 1 /\ frag[b].pc = "reporting" /\ frag[b].status = "OK" /\ call[b].pc # "reopen"
    BY <1>3, <2>1, Zenon DEF Serves, Fits, Success
  <2>5. Counted(b)'
    BY <1>2, <2>1, <2>3, <2>4, Zenon DEF Counted
  <2> QED BY <1>5, <2>3, <2>5, Zenon
<1>13. CASE OrphanEnds(h)
  BY <1>3, <1>13, Zenon DEF OrphanEnds, Serves
<1> QED BY <1>7, <1>8, <1>9, <1>10, <1>11, <1>12, <1>13, Zenon DEF HandlerStep
\* A late fault is never forgotten.
LEMMA LateStays ==
    ASSUME Inv, [Next]_vars, faults.late
    PROVE  faults'.late
<1>1. faults \in [n : Nat, late : BOOLEAN]
  BY Zenon DEF Inv, TypeInv
<1>2. faults' = faults \/ Fault(FALSE) \/ Fault(TRUE)
  <2>1. \A b : CancelBackend(b) => faults' = faults \/ Fault(FALSE)
    BY Zenon DEF CancelBackend
  <2>2. CASE UNCHANGED vars
    BY <2>2, Zenon DEF vars
  <2>3. CASE MainStep \/ CancelStep \/ Cancel \/ UnregisterQuery
    BY <2>1, <2>3, Zenon DEF MainStep, CancelStep, StageDone, Wait, MainUpdate, GetNext, LimitWalk,
               WaitForAllBackends, FinalizeQuery, CancelWalk, CancelDone, Cancel, UnregisterQuery
  <2>4. ASSUME NEW b \in Backends,
               BackendStep(b) \/ ReportProfile(b) \/ \E status \in Status : RunEnds(b, status)
        PROVE  faults' = faults \/ Fault(FALSE) \/ Fault(TRUE)
    <3>1. ASSUME NEW f, NEW done, SendReport(b, f, done)
          PROVE  faults' = faults \/ Fault(FALSE)
      BY <3>1, Zenon DEF SendReport
    <3> QED BY <2>4, <3>1, Zenon DEF BackendStep, ExecRemoteFragment, ExecReturns, StopReportThread,
               FinalReport, ReportReturns, ReportThrows, ReportReopen, ReportProfile, RunEnds
  <2>5. ASSUME NEW h \in handlers, HandlerStep(h)
        PROVE  faults' = faults
    BY <2>5, Zenon DEF HandlerStep, FindQuery, RecordReport, MergeInsert, CheckReport,
               UpdateStatus, CountDone, OrphanEnds
  <2> QED BY <2>2, <2>3, <2>4, <2>5, Zenon DEF Next
<1> QED BY <1>1, <1>2, FaultIs, Zenon

\* Every step keeps what is known of each backend, and one that lowers the number of
\* backends to wait for counts a backend that was not counted.
LEMMA NextReports ==
    ASSUME Inv, FinalInv, \A c \in Backends : BackendInv(c), ~ CoordFragment, ~ faults'.late,
           [Next]_vars
    PROVE  /\ \A c \in Backends : Kept(c)
           /\ \/ coord'.remaining = coord.remaining
              \/ \E b \in Backends : /\ ~ Counted(b) /\ Counted(b)'
                                     /\ coord'.remaining = coord.remaining - 1
<1>1. coord \in CoordRec /\ coord.remaining \in Int /\ ~ coord.returned_all
      /\ handlers \subseteq HandlerRec
  BY Zenon DEF Inv, TypeInv, CoordRec, FinalInv
<1>2. ASSUME NEW who, NEW status, CancelInternal(who, status)
      PROVE  coord'.remaining = coord.remaining
  BY <1>1, <1>2, Zenon DEF CancelInternal, CoordRec
<1>3. CASE UNCHANGED vars
  <2>1. coord' = coord /\ frag' = frag /\ call' = call /\ handlers' = handlers
    BY <1>3, Zenon DEF vars
  <2> QED BY <2>1, NothingMoves, Zenon
<1>4. CASE MainStep \/ CancelWalk \/ Cancel \/ UnregisterQuery
  <2>1. coord'.remaining = coord.remaining
    <3>1. CASE StageDone
      BY <1>1, <1>2, <3>1, Zenon DEF StageDone, CoordRec
    <3>2. CASE MainUpdate \/ Cancel
      BY <1>2, <3>2, Zenon DEF MainUpdate, Cancel
    <3>3. CASE GetNext \/ CancelWalk \/ UnregisterQuery
      BY <1>1, <3>3, Zenon DEF GetNext, CancelWalk, UnregisterQuery, CoordRec
    <3>4. CASE Wait \/ LimitWalk \/ WaitForAllBackends \/ FinalizeQuery
      BY <3>4, Zenon DEF Wait, LimitWalk, WaitForAllBackends, FinalizeQuery
    <3> QED BY <1>4, <3>1, <3>2, <3>3, <3>4, Zenon DEF MainStep
  <2> QED BY <1>4, <2>1, QuietKept, Zenon
<1>5. CASE CancelDone
  <2>1. coord'.remaining = coord.remaining
    BY <1>1, <1>5, Zenon DEF CancelDone, CoordRec
  <2> QED BY <1>5, <2>1, CancelDoneCounts, Zenon
<1>6. ASSUME NEW b \in Backends,
             BackendStep(b) \/ ReportProfile(b) \/ \E status \in Status : RunEnds(b, status)
      PROVE  (\A c \in Backends : Kept(c)) /\ coord'.remaining = coord.remaining
  <2>1. coord' = coord
    BY <1>6, Zenon DEF BackendStep, ExecRemoteFragment, ExecReturns, StopReportThread,
               FinalReport, ReportReturns, ReportThrows, ReportReopen, ReportProfile, RunEnds
  <2> QED BY <1>6, <2>1, QuietKept, FragCounts, SendCounts, ReportCounts, Zenon DEF BackendStep
<1>7. ASSUME NEW h \in handlers, HandlerStep(h)
      PROVE  /\ \A c \in Backends : Kept(c)
             /\ \/ coord'.remaining = coord.remaining
                \/ \E b \in Backends : /\ ~ Counted(b) /\ Counted(b)'
                                       /\ coord'.remaining = coord.remaining - 1
  <2>1. (\A c \in Backends : Kept(c)) /\ (CountDone(h) => ~ Counted(h.b) /\ Counted(h.b)')
    BY <1>1, <1>7, HandlerCounts, Zenon
  <2>2. CountDone(h) => coord'.remaining = coord.remaining - 1
    BY <1>1, Zenon DEF CountDone, CoordRec
  <2>3. ~ CountDone(h) => coord'.remaining = coord.remaining
    <3>1. CASE UpdateStatus(h)
      BY <1>2, <3>1, Zenon DEF UpdateStatus
    <3>2. CASE MergeInsert(h)
      BY <1>1, <3>2, Zenon DEF MergeInsert, CoordRec
    <3>3. CASE FindQuery(h) \/ RecordReport(h) \/ CheckReport(h) \/ OrphanEnds(h)
      BY <3>3, Zenon DEF FindQuery, RecordReport, CheckReport, OrphanEnds
    <3> QED BY <1>7, <3>1, <3>2, <3>3, Zenon DEF HandlerStep
  <2>4. h.b \in Backends
    BY <1>1, Zenon DEF HandlerRec
  <2> QED BY <2>1, <2>2, <2>3, <2>4, Zenon
<1> QED BY <1>3, <1>4, <1>5, <1>6, <1>7, Zenon DEF Next, CancelStep
\* An insert is finalized as a success only when nothing is left to wait for.
LEMMA FinalKept ==
    ASSUME Inv, FinalInv, ~ CoordFragment, [Next]_vars
    PROVE  FinalInv'
<1>1. /\ coord \in CoordRec /\ main \in MainRec /\ coord.remaining \in Int
      /\ coord.query_status \in Status /\ handlers \subseteq HandlerRec
  BY Zenon DEF Inv, TypeInv, CoordRec
<1>2. /\ ~ coord.returned_all /\ main.pc # "update"
      /\ main.pc = "cancelling" => main.then = "ended"
      /\ main.pc = "finalize" => coord.remaining <= 0 \/ coord.query_status # "OK"
      /\ main.pc = "finalized" /\ main.outcome = "OK" => coord.remaining <= 0
  BY Zenon DEF FinalInv
<1>3. ASSUME coord'.returned_all = coord.returned_all, coord'.remaining \in Int,
             coord'.remaining <= coord.remaining,
             coord.query_status # "OK" => coord'.query_status # "OK",
             \/ main'.pc = main.pc /\ main'.then = main.then /\ main'.outcome = main.outcome
             \/ main'.pc \notin {"update", "cancelling", "finalize", "finalized"}
             \/ main'.pc = "cancelling" /\ main'.then = "ended"
      PROVE  FinalInv'
  BY <1>1, <1>2, <1>3 DEF FinalInv
<1>4. ASSUME NEW who, NEW status, CancelInternal(who, status), coord.query_status = "OK",
             \/ main' = main
             \/ main'.pc = "cancelling" /\ main'.then = "ended"
      PROVE  FinalInv'
  <2>1. coord'.returned_all = coord.returned_all /\ coord'.remaining = coord.remaining
    BY <1>1, <1>4, Zenon DEF CancelInternal, CoordRec
  <2> QED BY <1>1, <1>3, <1>4, <2>1
<1>5. CASE UNCHANGED vars
  BY <1>1, <1>3, <1>5 DEF vars
<1>6. CASE StageDone
  <2>1. main.pc = "exec" /\ coord.query_status = "OK"
    BY <1>6, Zenon DEF StageDone, Inv, LockInv
  <2>2. CASE /\ CancelInternal("main", "ERROR")
             /\ main' = [main EXCEPT !.pc = "cancelling", !.then = "ended"]
    <3>1. main'.pc = "cancelling" /\ main'.then = "ended"
      BY <1>1, <2>2, Zenon DEF MainRec
    <3> QED BY <1>4, <2>1, <2>2, <3>1, Zenon
  <2>3. CASE main' = [main EXCEPT !.stage = @ + 1] /\ UNCHANGED coord
    <3>1. main'.pc = main.pc
      BY <1>1, <2>3, Zenon DEF MainRec
    <3> QED BY <1>1, <1>3, <2>1, <2>3, <3>1
  <2>4. CASE main' = [main EXCEPT !.pc = "wait"] /\ coord' = [coord EXCEPT !.lock = "free"]
    <3>1. /\ main'.pc = "wait" /\ coord'.returned_all = coord.returned_all
          /\ coord'.remaining = coord.remaining /\ coord'.query_status = coord.query_status
      BY <1>1, <2>4, Zenon DEF MainRec, CoordRec
    <3> QED BY <1>1, <1>3, <3>1
  <2> QED BY <1>6, <2>2, <2>3, <2>4, Zenon DEF StageDone
<1>7. CASE Wait \/ GetNext \/ LimitWalk
  <2>1. UNCHANGED coord
    BY <1>7, Zenon DEF Wait, GetNext, LimitWalk
  <2>2. main'.pc \in {"all", "ended", "limit"}
    BY <1>1, <1>7, Zenon DEF Wait, GetNext, LimitWalk, MainRec
  <2> QED BY <1>1, <1>3, <2>1, <2>2
<1>8. CASE MainUpdate
  BY <1>2, <1>8, Zenon DEF MainUpdate
<1>9. CASE WaitForAllBackends
  <2>1. UNCHANGED coord
    BY <1>9, Zenon DEF WaitForAllBackends
  <2>2. CASE main' = [main EXCEPT !.pc = "blocked"]
    <3>1. main'.pc = "blocked"
      BY <1>1, <2>2, Zenon DEF MainRec
    <3> QED BY <1>1, <1>3, <2>1, <3>1
  <2>3. CASE /\ ~ (coord.remaining > 0 /\ coord.query_status = "OK")
             /\ main' = AllReturns(coord.query_status)
    <3>1. main'.pc \in {"finalize", "fetch", "ended"}
      BY <1>1, <2>3, Zenon DEF AllReturns, MainRec
    <3> QED BY <1>1, <1>2, <2>1, <2>3, <3>1 DEF FinalInv
  <2> QED BY <1>9, <2>2, <2>3, Zenon DEF WaitForAllBackends
<1>10. CASE FinalizeQuery
  <2>1. /\ UNCHANGED coord /\ main.pc = "finalize"
        /\ main'.pc = "finalized" /\ main'.outcome = coord.query_status
    BY <1>1, <1>10, Zenon DEF FinalizeQuery, MainRec
  <2> QED BY <1>2, <2>1, Zenon DEF FinalInv
<1>11. CASE CancelWalk \/ UnregisterQuery
  <2>1. /\ main' = main /\ coord'.returned_all = coord.returned_all
        /\ coord'.remaining = coord.remaining /\ coord'.query_status = coord.query_status
    BY <1>1, <1>11, Zenon DEF CancelWalk, UnregisterQuery, CoordRec
  <2> QED BY <1>1, <1>3, <2>1
<1>12. CASE CancelDone
  <2>1. /\ coord'.returned_all = coord.returned_all
        /\ coord'.remaining = coord.remaining /\ coord'.query_status = coord.query_status
    BY <1>1, <1>12, Zenon DEF CancelDone, CoordRec
  <2>2. \/ main'.pc = main.pc /\ main'.then = main.then /\ main'.outcome = main.outcome
        \/ main'.pc \in {"all", "ended"}
    BY <1>1, <1>2, <1>12, NotifiedIs, UpdateReturnsIs, Zenon DEF CancelDone
  <2> QED BY <1>1, <1>3, <2>1, <2>2
<1>13. CASE Cancel
  BY <1>4, <1>13, Zenon DEF Cancel
<1>14. ASSUME NEW b \in Backends,
              BackendStep(b) \/ ReportProfile(b) \/ \E status \in Status : RunEnds(b, status)
       PROVE  FinalInv'
  <2>1. coord' = coord /\ main' = main
    BY <1>14, Zenon DEF BackendStep, ExecRemoteFragment, ExecReturns, StopReportThread,
               FinalReport, ReportReturns, ReportThrows, ReportReopen, ReportProfile, RunEnds
  <2> QED BY <1>1, <1>3, <2>1
<1>15. ASSUME NEW h \in handlers, HandlerStep(h)
       PROVE  FinalInv'
  <2>1. CASE FindQuery(h) \/ RecordReport(h) \/ CheckReport(h) \/ OrphanEnds(h)
    <3>1. coord' = coord /\ main' = main
      BY <2>1, Zenon DEF FindQuery, RecordReport, CheckReport, OrphanEnds
    <3> QED BY <1>1, <1>3, <3>1
  <2>2. CASE MergeInsert(h)
    <3>1. /\ main' = main /\ coord'.returned_all = coord.returned_all
          /\ coord'.remaining = coord.remaining /\ coord'.query_status = coord.query_status
      BY <1>1, <2>2, Zenon DEF MergeInsert, CoordRec
    <3> QED BY <1>1, <1>3, <3>1
  <2>3. CASE UpdateStatus(h)
    <3>1. CASE coord.query_status = "OK" /\ CancelInternal("report", h.status)
      BY <1>4, <2>3, <3>1, Zenon DEF UpdateStatus
    <3>2. CASE coord' = coord
      BY <1>1, <1>3, <2>3, <3>2 DEF UpdateStatus
    <3> QED BY <2>3, <3>1, <3>2, Zenon DEF UpdateStatus
  <2>4. CASE CountDone(h)
    <3>1. /\ coord'.returned_all = coord.returned_all
          /\ coord'.remaining = coord.remaining - 1 /\ coord'.query_status = coord.query_status
      BY <1>1, <2>4, Zenon DEF CountDone, CoordRec
    <3>2. \/ main'.pc = main.pc /\ main'.then = main.then /\ main'.outcome = main.outcome
          \/ main'.pc = "all"
      BY <1>1, <2>4, NotifiedIs, Zenon DEF CountDone
    <3> QED BY <1>1, <1>3, <3>1, <3>2
  <2> QED BY <1>15, <2>1, <2>2, <2>3, <2>4, Zenon DEF HandlerStep
<1> QED BY <1>5, <1>6, <1>7, <1>8, <1>9, <1>10, <1>11, <1>12, <1>13, <1>14, <1>15, Zenon
        DEF Next, MainStep, CancelStep
CompleteInv == Inv /\ FinalInv /\ ReportInv /\ CountInv

\* Before Exec nothing is reported, and every backend is waited for.
LEMMA InitReports ==
    ASSUME Init
    PROVE  FinalInv /\ ReportInv /\ Uncounted = Backends /\ coord.remaining = NumBackends
<1>1. /\ ~ coord.returned_all /\ coord.remaining = NumBackends /\ main.pc = "exec"
      /\ handlers = {} /\ \A b \in Backends : /\ coord.merged[b] = 0 /\ frag[b] = NewFrag
                                              /\ call[b] = NoCall
  BY DEF Init
<1>2. FinalInv
  BY <1>1, Zenon DEF FinalInv
<1>3. ReportInv
  BY <1>1 DEF ReportInv, BackendInv, Fits, Success, NewFrag, NoCall
<1>4. Uncounted = Backends
  BY <1>1 DEF Uncounted, Counted
<1> QED BY <1>1, <1>2, <1>3, <1>4, Zenon

INSTANCE FiniteSetTheorems

\* The sets of backends are finite, and a part of one is smaller.
LEMMA BackendsFinite ==
    ASSUME NEW S \in SUBSET Backends, NEW T \in SUBSET S
    PROVE  /\ Cardinality(Backends) = NumBackends /\ Cardinality(S) \in Nat
           /\ Cardinality(T) \in Nat /\ Cardinality(T) <= Cardinality(S)
           /\ Cardinality(S) = 0 => S = {}
           /\ \A x \in S : x \notin T => Cardinality(T) <= Cardinality(S) - 1
<1>1. IsFiniteSet(Backends) /\ Cardinality(Backends) = NumBackends
  BY PlanAssumption, FS_Interval, SMTT(40) DEF Backends
<1>2. IsFiniteSet(S) /\ IsFiniteSet(T) /\ Cardinality(T) <= Cardinality(S)
  BY <1>1, FS_Subset, Zenon
<1>3. Cardinality(S) \in Nat /\ Cardinality(T) \in Nat
  BY <1>2, FS_CardinalityType, Zenon
<1>4. Cardinality(S) = 0 => S = {}
  BY <1>2, FS_EmptySet, Zenon
<1>5. ASSUME NEW x \in S, x \notin T
      PROVE  Cardinality(T) <= Cardinality(S) - 1
  <2>1. IsFiniteSet(S \ {x}) /\ Cardinality(S \ {x}) = Cardinality(S) - 1
    BY <1>2, FS_RemoveElement, Zenon
  <2>2. T \subseteq S \ {x}
    BY <1>5, Zenon
  <2> QED BY <2>1, <2>2, FS_Subset
<1> QED BY <1>1, <1>2, <1>3, <1>4, <1>5, SMTT(40)

\* The inductive invariant behind a finalized insert.
LEMMA CompleteHolds == Spec => []CompleteInv
<1>1. Init => CompleteInv
  <2> HAVE Init
  <2>1. Inv /\ FinalInv /\ ReportInv /\ Uncounted = Backends /\ coord.remaining = NumBackends
    BY InitInv, InitReports, Zenon
  <2>2. Cardinality(Backends) = NumBackends /\ NumBackends \in Nat
    BY BackendsFinite, PlanAssumption, Zenon
  <2> QED BY <2>1, <2>2 DEF CompleteInv, CountInv
<1>2. CompleteInv /\ [Next]_vars => CompleteInv'
  <2> SUFFICES ASSUME CompleteInv, [Next]_vars
               PROVE  CompleteInv'
    BY Zenon
  <2>1. Inv /\ FinalInv /\ ReportInv /\ CountInv
    BY Zenon DEF CompleteInv
  <2>2. Inv'
    BY <2>1, NextInv
  <2>3. CASE CoordFragment
    BY <2>2, <2>3, Zenon DEF CompleteInv, FinalInv, ReportInv, CountInv
  <2>4. CASE ~ CoordFragment
    <3>1. FinalInv'
      BY <2>1, <2>4, FinalKept
    <3>2. CASE faults'.late
      BY <2>2, <3>1, <3>2 DEF CompleteInv, ReportInv, CountInv
    <3>3. CASE ~ faults'.late
      <4>1. ~ faults.late
        BY <2>1, <3>3, LateStays, Zenon
      <4>2. (\A c \in Backends : BackendInv(c)) /\ Cardinality(Uncounted) <= coord.remaining
        BY <2>1, <2>4, <4>1, Zenon DEF ReportInv, CountInv
      <4>3. /\ \A c \in Backends : Kept(c)
            /\ \/ coord'.remaining = coord.remaining
               \/ \E b \in Backends : /\ ~ Counted(b) /\ Counted(b)'
                                      /\ coord'.remaining = coord.remaining - 1
        BY <2>1, <2>4, <3>3, <4>2, NextReports
      <4>4. ReportInv'
        BY <4>3, Zenon DEF ReportInv, Kept
      <4>5. Uncounted' \subseteq Uncounted /\ Uncounted \subseteq Backends
        BY <4>3, Zenon DEF Uncounted, Kept
      <4>6. /\ Cardinality(Uncounted) \in Nat /\ Cardinality(Uncounted') \in Nat
            /\ Cardinality(Uncounted') <= Cardinality(Uncounted)
            /\ \A x \in Uncounted : x \notin Uncounted' =>
                   Cardinality(Uncounted') <= Cardinality(Uncounted) - 1
        BY <4>5, BackendsFinite, Zenon
      <4>7. coord.remaining \in Int
        BY <2>1, Zenon DEF Inv, TypeInv, CoordRec
      <4>8. Cardinality(Uncounted') <= coord'.remaining
        <5>1. CASE coord'.remaining = coord.remaining
          BY <4>2, <4>6, <4>7, <5>1
        <5>2. ASSUME NEW b \in Backends, ~ Counted(b), Counted(b)',
                     coord'.remaining = coord.remaining - 1
              PROVE  Cardinality(Uncounted') <= coord'.remaining
          <6>1. b \in Uncounted /\ b \notin Uncounted'
            BY <5>2, Zenon DEF Uncounted
          <6> QED BY <4>2, <4>6, <4>7, <5>2, <6>1
        <5> QED BY <4>3, <5>1, <5>2, Zenon
      <4> QED BY <2>2, <3>1, <4>4, <4>8 DEF CompleteInv, CountInv
    <3> QED BY <3>2, <3>3
  <2> QED BY <2>3, <2>4, Zenon
<1> QED BY <1>1, <1>2, PTL DEF Spec

\* For every plan, a parallel insert is finalized as a success only after each backend's
\* results have been merged exactly once and its fragment has ended without an error,
\* however reports, retries and cancellations interleave -- as long as no report arrived
\* whose answer was lost (UpdateFragmentExecStatus, WaitForAllBackends, FinalizeQuery).
THEOREM InsertIsComplete == Spec => []FinalizedComplete
<1>1. CompleteInv => FinalizedComplete
  <2> SUFFICES ASSUME CompleteInv, main.pc = "finalized", main.outcome = "OK",
                      ~ CoordFragment, ~ faults.late, NEW b \in Backends
               PROVE  /\ coord.merged[b] = 1 /\ frag[b].pc \in {"reporting", "ended"}
                      /\ frag[b].status = "OK"
    BY Zenon DEF FinalizedComplete
  <2>1. Cardinality(Uncounted) <= coord.remaining /\ coord.remaining <= 0
        /\ coord.remaining \in Int
    BY Zenon DEF CompleteInv, FinalInv, CountInv, Inv, TypeInv, CoordRec
  <2>2. Uncounted \subseteq Backends
    BY Zenon DEF Uncounted
  <2>3. Cardinality(Uncounted) \in Nat /\ (Cardinality(Uncounted) = 0 => Uncounted = {})
    BY <2>2, BackendsFinite, Zenon
  <2>4. Counted(b)
    BY <2>1, <2>3 DEF Uncounted
  <2> QED BY <2>4, Zenon DEF Counted
<1> QED BY <1>1, CompleteHolds, PTL
================================================================================
