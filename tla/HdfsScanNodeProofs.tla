-------------------------- MODULE HdfsScanNodeProofs ---------------------------
(***************************************************************************)
(* HdfsScanNode, for every number of scanner threads, files, splits, quotas  *)
(* and batches: the four invariants of the node follow from one inductive    *)
(* invariant.  Its main parts say that a file or a split is in one place,    *)
(* that the node's counters bound what is left to issue and to process, why  *)
(* the node may be done, and who will start the next scanner thread.         *)
(***************************************************************************)
EXTENDS HdfsScanNode, FiniteSetTheorems, TLAPS

-------------------------------------------------------------------------------
(* The inductive invariant *)

MainPcs == {"open", "mark", "cb", "idle", "get", "set_done", "cancel", "shutdown",
            "clear_cb", "join", "cleanup", "closed"}
ScannerPcs == {"off", "top", "range", "process", "header", "add_ranges", "mark", "cb",
               "add_batch", "finish", "final", "complete", "status", "set_done", "cancel",
               "shutdown", "leave", "release", "available"}
CallerPcs == {"off", "lock", "cb", "unlock"}
Pcs == MainPcs \cup ScannerPcs \cup CallerPcs

Opening == {"header", "add_ranges"}     \* a scanner with a header whose splits it may issue
Owning == {"process", "add_batch", "finish", "final", "complete"}
Ending == {"set_done", "cancel", "shutdown"}
Closing == {"clear_cb", "join", "cleanup", "closed"}

Proc == [pc : Pcs, ret : Pcs, range : Ranges \cup {None}, unqueued : Nat,
         status : {"OK", "CANCELLED", "ERROR"}, todo : SUBSET (TextFiles \cup {"headers"})]
Node == [done : BOOLEAN, all_ranges_started : BOOLEAN, status : {"OK", "CANCELLED", "ERROR"},
         active : Int, unqueued : Int, complete : Nat, owned : Int]
Pool == [optional : Int, cb : BOOLEAN, lock : {None, Leaver, Mgr}, quota : Nat, leavers : Nat]
Issued == [ranges : SUBSET Ranges, cancelled : BOOLEAN]
Batches == [queue : Seq(BOOLEAN), cleanup : Nat, shutdown : BOOLEAN]
Seen == [made : Nat, returned : Nat, errors : Nat, last : {"more", "limit", "error", "eos"}]

\* Every variable has its type.
TypeOK ==
    /\ proc \in [Procs -> Proc] /\ node \in Node /\ pool \in Pool /\ issued \in Issued
    /\ batches \in Batches /\ seen \in Seen /\ query \in [limit : Limits, abort_on_error : BOOLEAN]
    /\ changes \in Nat

\* What a thread has, by where it is
ProcOK(p) == LET r == proc[p] IN
    /\ p = Main =>
          /\ r.pc \in MainPcs
          /\ r.pc \in {"mark", "cb"} => r.ret = "open"
          /\ r.pc \in Ending => r.ret \in {"idle", "clear_cb"}
    /\ p \in Scanners =>
          /\ r.pc \in ScannerPcs
          /\ r.pc \in {"mark", "cb"} => r.ret = "final"
          /\ r.pc \in Ending => r.ret = "leave"
          /\ r.pc \in Opening \cup {"mark", "cb"} => r.range \in SequenceFiles
          /\ r.pc \in {"process", "add_batch", "finish"} => r.range \in SplitsOf(Files)
          /\ r.pc \in Owning => r.range \in Ranges
    /\ p \in {Leaver, Mgr} =>
          /\ r.pc \in CallerPcs
          /\ r.pc = "cb" => r.ret = "unlock"
ProcsOK == \A p \in Procs : ProcOK(p)
\* The two threads that call back hold the pool's lock while they do
LockOK == \A p \in {Leaver, Mgr} : proc[p].pc \in {"cb", "unlock"} <=> pool.lock = p

\* The threads that count as active and the threads that have a token
Active == {t \in Scanners : proc[t].pc \notin {"off", "release", "available"}}
Tokens == {t \in Scanners : proc[t].pc \notin {"off", "available"}}
TokensOK == node.active = Cardinality(Active) /\ pool.optional = Cardinality(Tokens)

\* Close: no callback once it was taken back, nobody left once the threads were joined
CloseOK ==
    /\ pool.cb <=> proc[Main].pc \notin {"join", "cleanup", "closed"}
    /\ ~pool.cb => pool.lock = None
    /\ proc[Main].pc \in {"cleanup", "closed"} =>
          /\ pool.leavers = 0
          /\ \A p \in Scanners \cup {Leaver} : proc[p].pc = "off"
    /\ proc[Main].pc = "closed" => batches.queue = <<>> /\ batches.cleanup = 0
    /\ node.owned = Len(batches.queue) + batches.cleanup

\* The files Open has not issued, the files whose splits may still be issued, the threads
\* that issued a file and have not counted it yet, and the splits that are not processed
Todo == LET todo == proc[Main].todo IN
    {f \in TextFiles : f \in todo} \cup {f \in SequenceFiles : "headers" \in todo}
Opens(t) == proc[t].pc \in Opening
Owns(t) == Opens(t) \/ (proc[t].pc \in Owning /\ proc[t].range \in SplitsOf(Files))
Unissued == {f \in Files :
    f \in Todo \cup issued.ranges \/ \E t \in Scanners : Opens(t) /\ proc[t].range = f}
Marking == {p \in Scanners \cup {Main} : proc[p].pc = "mark"}
Left == {s \in SplitsOf(Files) :
    \/ s \in issued.ranges
    \/ \E f \in Unissued : s \in Splits[f]
    \/ \E t \in Scanners : Owns(t) /\ proc[t].range = s}

\* A file and a split are in one place
Exclusive ==
    /\ Todo \cap issued.ranges = {}
    /\ \A t \in Scanners : Owns(t) =>
          /\ proc[t].range \notin issued.ranges /\ proc[t].range \notin Todo
          /\ \A u \in Scanners \ {t} : Owns(u) => proc[u].range # proc[t].range
          /\ \A f \in Unissued : proc[t].range \notin Splits[f]
    /\ \A f \in Unissued : Splits[f] \cap issued.ranges = {}

Counts ==
    /\ Cardinality(Unissued) + Cardinality(Marking) <= node.unqueued
    /\ Cardinality(Left) + node.complete <= Cardinality(SplitsOf(Files))

\* What a thread read of num_unqueued_files_ is no less than it is
SnapshotOK(t) == LET s == proc[t] IN
    /\ s.pc = "range" => node.unqueued <= s.unqueued
    /\ s.pc = "status" /\ s.range = None /\ s.status = "OK" /\ s.unqueued = 0 =>
          node.unqueued = 0 /\ issued.ranges = {}
Snapshots == \A t \in Scanners : SnapshotOK(t)

\* Why the node is done
Complete == node.complete = Cardinality(SplitsOf(Files))
MainCloses == LET m == proc[Main] IN m.pc \in Closing \/ (m.pc \in Ending /\ m.ret = "clear_cb")
Excused == seen.errors > 0 \/ ReachedLimit \/ MainCloses
RowsOf(queue) == {i \in DOMAIN queue : queue[i] = TRUE}
Rows == RowsOf(batches.queue)
DoneOK ==
    /\ issued.cancelled \/ batches.shutdown => node.done
    /\ \A p \in Scanners \cup {Main} : proc[p].pc \in {"cancel", "shutdown"} => node.done
    /\ \A t \in Scanners : proc[t].status = "ERROR" => seen.errors > 0
    /\ \A p \in Scanners \cup {Main} : proc[p].pc = "set_done" => Excused \/ Complete
    /\ node.done => Excused \/ Complete
    /\ Excused \/ seen.made = seen.returned + Cardinality(Rows)
    /\ proc[Main].pc = "get" => ~ReachedLimit /\ seen.last = "more"

\* While Open is over, the node is not done and something is left to scan, a thread scans or
\* will be started
Coming ==
    \/ node.active > 0
    \/ \E t \in Scanners : proc[t].pc \in {"release", "available"}
    \/ pool.leavers > 0
    \/ \E p \in Procs : proc[p].pc \in {"lock", "cb"}
IsOpen == LET m == proc[Main] IN m.pc \in {"idle", "get"} \/ (m.pc = "open" /\ m.todo = {})
ScanOK ==
    (~node.done /\ (issued.ranges # {} \/ node.unqueued > 0) /\ IsOpen /\ Remaining > 0) => Coming

Inv == /\ TypeOK /\ ProcsOK /\ LockOK /\ TokensOK /\ CloseOK
       /\ Exclusive /\ Counts /\ Snapshots /\ AllStartedIsStarted /\ DoneOK /\ EosIsComplete /\ ScanOK

-------------------------------------------------------------------------------
(* Steps of one thread *)

\* Zenon unless a proof names another prover
USE Zenon

Others(p) == \A q \in Procs : q # p => proc'[q] = proc[q]
Same(p) == /\ proc'[p].range = proc[p].range /\ proc'[p].unqueued = proc[p].unqueued
           /\ proc'[p].status = proc[p].status /\ proc'[p].todo = proc[p].todo
Fresh(p, pc) == /\ proc'[p].pc = pc /\ proc'[p].ret = pc /\ proc'[p].range = None
                /\ proc'[p].unqueued = 0 /\ proc'[p].status = "OK" /\ proc'[p].todo = {}

\* Go changes where one thread is, and nothing else of it.
LEMMA GoFacts ==
    ASSUME proc \in [Procs -> Proc], NEW p \in Procs, NEW pc \in Pcs, Go(p, pc)
    PROVE  /\ proc' \in [Procs -> Proc] /\ Others(p) /\ Same(p)
           /\ proc'[p].pc = pc /\ proc'[p].ret = proc[p].ret
BY SMT DEF Go, Others, Same, Proc

\* Call also says where the thread returns to.
LEMMA CallFacts ==
    ASSUME proc \in [Procs -> Proc], NEW p \in Procs, NEW pc \in Pcs, NEW ret \in Pcs,
           Call(p, pc, ret)
    PROVE  /\ proc' \in [Procs -> Proc] /\ Others(p) /\ Same(p)
           /\ proc'[p].pc = pc /\ proc'[p].ret = ret
BY DEF Call, Others, Same, Proc

Becomes(p, pc, range, status) ==
    /\ proc' \in [Procs -> Proc] /\ Others(p)
    /\ proc'[p].pc = pc /\ proc'[p].range = range /\ proc'[p].status = status
    /\ proc'[p].ret = proc[p].ret /\ proc'[p].unqueued = proc[p].unqueued

\* A thread gets a range, too.
LEMMA RangeFacts ==
    ASSUME proc \in [Procs -> Proc], NEW p \in Procs, NEW pc \in Pcs,
           NEW range \in Ranges \cup {None}, NEW status \in {"OK", "CANCELLED", "ERROR"},
           proc' = [proc EXCEPT ![p].pc = pc, ![p].range = range, ![p].status = status]
    PROVE  Becomes(p, pc, range, status)
<1> DEFINE r == [[[proc[p] EXCEPT !.pc = pc] EXCEPT !.range = range] EXCEPT !.status = status]
<1>1. proc' = [proc EXCEPT ![p] = r]
  OBVIOUS
<1>2. proc[p] \in Proc
  OBVIOUS
<1>3. /\ r \in Proc /\ r.pc = pc /\ r.range = range /\ r.status = status
      /\ r.ret = proc[p].ret /\ r.unqueued = proc[p].unqueued
  BY <1>2 DEF Proc
<1> HIDE DEF r
<1>4. proc' \in [Procs -> Proc] /\ proc'[p] = r /\ Others(p)
  BY ONLY <1>1, <1>3, proc \in [Procs -> Proc], p \in Procs, Zenon DEF Others
<1> QED BY <1>3, <1>4 DEF Becomes

\* A thread gets a status, and keeps its range.
LEMMA StatusFacts ==
    ASSUME proc \in [Procs -> Proc], NEW p \in Procs, NEW pc \in Pcs,
           NEW status \in {"OK", "CANCELLED", "ERROR"},
           proc' = [proc EXCEPT ![p].pc = pc, ![p].status = status]
    PROVE  Becomes(p, pc, proc[p].range, status)
BY DEF Others, Proc, Becomes

\* Start leaves nothing of the thread's locals.
LEMMA StartFacts ==
    ASSUME proc \in [Procs -> Proc], NEW p \in Procs, NEW pc \in Pcs, Start(p, pc)
    PROVE  proc' \in [Procs -> Proc] /\ Others(p) /\ Fresh(p, pc)
BY SMT DEF Start, NewProc, Others, Fresh, Proc

\* The threads are different.
LEMMA Threads ==
    /\ Main \in Procs /\ Leaver \in Procs /\ Mgr \in Procs /\ Scanners \subseteq Procs
    /\ Main \notin Scanners /\ Leaver \notin Scanners /\ Mgr \notin Scanners
    /\ Main # Leaver /\ Main # Mgr /\ Leaver # Mgr
    /\ Main # None /\ Leaver # None /\ Mgr # None
    /\ \A p \in Procs : p = Main \/ p \in Scanners \/ p = Leaver \/ p = Mgr
BY ScanAssumption DEF Procs

-------------------------------------------------------------------------------
(* What a step of thread p must leave alone to keep each part of the invariant *)

\* The thread that moves has what it must have.
LEMMA ProcsFrame ==
    ASSUME ProcsOK, NEW p \in Procs, Others(p), ProcOK(p)'
    PROVE  ProcsOK'
<1> SUFFICES ASSUME NEW q \in Procs PROVE ProcOK(q)'
  BY DEF ProcsOK
<1>1. CASE q = p
  BY <1>1
<1>2. CASE q # p
  <2>1. proc'[q] = proc[q] /\ ProcOK(q)
    BY <1>2 DEF Others, ProcsOK
  <2> QED BY <2>1 DEF ProcOK
<1> QED BY <1>1, <1>2

\* Nothing of the pool's lock changes.
LEMMA LockFrame ==
    ASSUME LockOK, NEW p \in Procs, Others(p), pool'.lock = pool.lock,
           p \in {Leaver, Mgr} =>
               (proc'[p].pc \in {"cb", "unlock"} <=> proc[p].pc \in {"cb", "unlock"})
    PROVE  LockOK'
<1> SUFFICES ASSUME NEW q \in {Leaver, Mgr}
             PROVE  proc'[q].pc \in {"cb", "unlock"} <=> pool'.lock = q
  BY DEF LockOK
<1>1. CASE q = p
  BY <1>1 DEF LockOK
<1>2. CASE q # p
  <2>1. proc'[q] = proc[q]
    BY <1>2, Threads DEF Others
  <2> QED BY <2>1 DEF LockOK
<1> QED BY <1>1, <1>2

\* A scanner thread that counts goes on counting.
LEMMA TokensFrame ==
    ASSUME TokensOK, NEW p \in Procs, Others(p),
           node'.active = node.active, pool'.optional = pool.optional,
           p \in Scanners => /\ proc[p].pc \notin {"off", "release", "available"}
                             /\ proc'[p].pc \notin {"off", "release", "available"}
    PROVE  TokensOK'
<1>1. ASSUME NEW t \in Scanners
      PROVE  /\ proc'[t].pc \notin {"off", "release", "available"}
                    <=> proc[t].pc \notin {"off", "release", "available"}
             /\ proc'[t].pc \notin {"off", "available"} <=> proc[t].pc \notin {"off", "available"}
  <2>1. CASE t = p
    BY <2>1
  <2>2. CASE t # p
    BY <2>2, Threads DEF Others
  <2> QED BY <2>1, <2>2
<1>2. Active' = Active /\ Tokens' = Tokens
  BY <1>1 DEF Active, Tokens
<1> QED BY <1>2 DEF TokensOK

\* Nothing that Close looks at changes.
LEMMA CloseFrame ==
    ASSUME CloseOK, NEW p \in Procs, Others(p),
           pool'.cb = pool.cb, pool'.lock = pool.lock, pool'.leavers = pool.leavers,
           batches' = batches, node'.owned = node.owned,
           p = Main => /\ proc[p].pc \notin {"join", "cleanup", "closed"}
                       /\ proc'[p].pc \notin {"join", "cleanup", "closed"},
           p \in Scanners \cup {Leaver} => proc[p].pc # "off"
    PROVE  CloseOK'
<1>1. CASE p = Main
  <2>1. proc'[Main].pc \notin {"cleanup", "closed"} /\ proc'[Main].pc # "closed"
    BY <1>1
  <2> QED BY <1>1, <2>1 DEF CloseOK
<1>2. CASE p # Main
  <2>1. proc'[Main] = proc[Main]
    BY <1>2, Threads DEF Others
  <2>2. ASSUME proc[Main].pc \in {"cleanup", "closed"}
        PROVE  \A q \in Scanners \cup {Leaver} : proc'[q].pc = "off"
    <3>1. \A q \in Scanners \cup {Leaver} : proc[q].pc = "off" /\ q # p
      BY <2>2 DEF CloseOK
    <3> QED BY <3>1, Threads DEF Others
  <2> QED BY <2>1, <2>2 DEF CloseOK
<1> QED BY <1>1, <1>2

\* Nothing is counted or handed out.
LEMMA SnapshotsFrame ==
    ASSUME Snapshots, AllStartedIsStarted, NEW p \in Procs, Others(p),
           node'.unqueued = node.unqueued,
           node'.all_ranges_started = node.all_ranges_started,
           issued.ranges = {} => issued'.ranges = {},
           p \in Scanners => SnapshotOK(p)'
    PROVE  Snapshots' /\ AllStartedIsStarted'
<1>1. ASSUME NEW t \in Scanners
      PROVE  SnapshotOK(t)'
  <2>1. CASE t = p
    BY <2>1
  <2>2. CASE t # p
    <3>1. proc'[t] = proc[t] /\ SnapshotOK(t)
      BY <2>2, Threads DEF Others, Snapshots
    <3> QED BY <3>1 DEF SnapshotOK
  <2> QED BY <2>1, <2>2
<1>2. Snapshots'
  BY <1>1 DEF Snapshots
<1>3. AllStartedIsStarted'
  BY DEF AllStartedIsStarted
<1> QED BY <1>2, <1>3

\* What each part says of the files and the splits that are left
Shrinks == Unissued' \subseteq Unissued /\ Left' \subseteq Left /\ Marking' \subseteq Marking

\* No file and no split changes hands: a thread at most lets go of what it has.
LEMMA OwnFrame ==
    ASSUME Exclusive, NEW p \in Procs, Others(p),
           p \in Scanners => /\ Opens(p)' => Opens(p)
                             /\ Owns(p)' => Owns(p) /\ proc'[p].range = proc[p].range,
           p = Main => proc'[p].todo \subseteq proc[p].todo,
           p \in Scanners \cup {Main} => proc'[p].pc # "mark",
           issued'.ranges \subseteq issued.ranges
    PROVE  Exclusive' /\ Shrinks
<1>1. Todo' \subseteq Todo
  <2>1. CASE p = Main
    BY <2>1 DEF Todo
  <2>2. CASE p # Main
    BY <2>2, Threads DEF Others, Todo
  <2> QED BY <2>1, <2>2
<1>2. ASSUME NEW t \in Scanners
      PROVE  /\ Opens(t)' => Opens(t)
             /\ Owns(t)' => Owns(t) /\ proc'[t].range = proc[t].range
  <2>1. CASE t = p
    BY <2>1
  <2>2. CASE t # p
    <3>1. proc'[t] = proc[t]
      BY <2>2, Threads DEF Others
    <3> QED BY <3>1 DEF Opens, Owns
  <2> QED BY <2>1, <2>2
<1>3. \A t \in Scanners : Opens(t)' => Owns(t)'
  BY DEF Owns
<1>4. Unissued' \subseteq Unissued
  BY <1>1, <1>2, <1>3 DEF Unissued
<1>5. Left' \subseteq Left
  BY <1>2, <1>4 DEF Left
<1>6. Marking' \subseteq Marking
  BY Threads DEF Marking, Others
<1>7. Exclusive'
  <2>1. Todo' \cap issued'.ranges = {}
    BY <1>1 DEF Exclusive
  <2>2. ASSUME NEW t \in Scanners, Owns(t)'
        PROVE  /\ proc'[t].range \notin issued'.ranges /\ proc'[t].range \notin Todo'
               /\ \A u \in Scanners \ {t} : Owns(u)' => proc'[u].range # proc'[t].range
               /\ \A f \in Unissued' : proc'[t].range \notin Splits[f]
    <3>1. Owns(t) /\ proc'[t].range = proc[t].range
      BY <1>2, <2>2
    <3>2. proc'[t].range \notin issued'.ranges /\ proc'[t].range \notin Todo'
      BY <1>1, <3>1 DEF Exclusive
    <3>3. \A u \in Scanners \ {t} : Owns(u)' => proc'[u].range # proc'[t].range
      BY <1>2, <3>1 DEF Exclusive
    <3>4. \A f \in Unissued' : proc'[t].range \notin Splits[f]
      BY <1>4, <3>1 DEF Exclusive
    <3> QED BY <3>2, <3>3, <3>4
  <2>3. \A f \in Unissued' : Splits[f] \cap issued'.ranges = {}
    BY <1>4 DEF Exclusive
  <2> QED BY <2>1, <2>2, <2>3 DEF Exclusive
<1> QED BY <1>4, <1>5, <1>6, <1>7 DEF Shrinks

\* The same reasons are left for the node to be done, and the same batches.
LEMMA DoneFrame ==
    ASSUME DoneOK, EosIsComplete, NEW p \in Procs, Others(p),
           node'.done = node.done, Complete => Complete',
           issued'.cancelled = issued.cancelled, batches' = batches, seen' = seen, query' = query,
           p \in Scanners \cup {Main} =>
               /\ proc'[p].pc \notin {"cancel", "shutdown", "get"}
               /\ proc'[p].pc = "set_done" => Excused' \/ Complete',
           p \in Scanners => (proc'[p].status = "ERROR" => proc[p].status = "ERROR"),
           p = Main => (MainCloses => MainCloses')
    PROVE  DoneOK' /\ EosIsComplete'
<1>1. ASSUME NEW q \in Scanners \cup {Main}, q # p
      PROVE  proc'[q] = proc[q]
  BY <1>1, Threads DEF Others
<1>2. MainCloses => MainCloses'
  <2>1. CASE p = Main
    BY <2>1
  <2>2. CASE p # Main
    BY <1>1, <2>2 DEF MainCloses
  <2> QED BY <2>1, <2>2
<1>3. Excused => Excused'
  BY <1>2 DEF Excused, ReachedLimit
<1>4. EosIsComplete'
  BY DEF EosIsComplete, Complete
<1>5. issued'.cancelled \/ batches'.shutdown => node'.done
  BY DEF DoneOK
<1>6. \A q \in Scanners \cup {Main} : proc'[q].pc \in {"cancel", "shutdown"} => node'.done
  BY <1>1 DEF DoneOK
<1>7. \A t \in Scanners : proc'[t].status = "ERROR" => seen'.errors > 0
  BY <1>1 DEF DoneOK
<1>8. \A q \in Scanners \cup {Main} : proc'[q].pc = "set_done" => Excused' \/ Complete'
  BY <1>1, <1>3 DEF DoneOK
<1>9. node'.done => Excused' \/ Complete'
  BY <1>3 DEF DoneOK
<1>10. Excused' \/ seen'.made = seen'.returned + Cardinality(Rows')
  BY <1>3 DEF DoneOK, Rows
<1>11. proc'[Main].pc = "get" => ~ReachedLimit' /\ seen'.last = "more"
  BY <1>1 DEF DoneOK, ReachedLimit
<1> QED BY <1>4, <1>5, <1>6, <1>7, <1>8, <1>9, <1>10, <1>11 DEF DoneOK

\* An error excuses whatever GetNext says.
LEMMA ErrorFrame ==
    ASSUME DoneOK, NEW t \in Scanners, Others(t), node'.done = node.done,
           issued'.cancelled = issued.cancelled, batches' = batches, query' = query,
           seen'.errors \in Nat, seen'.errors > 0, seen'.returned = seen.returned,
           seen'.last = seen.last, proc'[t].pc \notin {"cancel", "shutdown"}
    PROVE  DoneOK' /\ EosIsComplete'
<1>1. ASSUME NEW q \in Scanners \cup {Main}, q # t
      PROVE  proc'[q] = proc[q]
  BY <1>1, Threads DEF Others
<1>2. Excused'
  BY DEF Excused
<1>3. EosIsComplete'
  <2>1. seen'.errors # 0
    BY SMT
  <2> QED BY <2>1 DEF EosIsComplete
<1>4. issued'.cancelled \/ batches'.shutdown => node'.done
  BY DEF DoneOK
<1>5. \A q \in Scanners \cup {Main} : proc'[q].pc \in {"cancel", "shutdown"} => node'.done
  BY <1>1 DEF DoneOK
<1>6. proc'[Main].pc = "get" => ~ReachedLimit' /\ seen'.last = "more"
  BY <1>1, Threads DEF DoneOK, ReachedLimit
<1> QED BY <1>2, <1>3, <1>4, <1>5, <1>6 DEF DoneOK

\* What was coming is still coming, and nothing more has to come.
LEMMA ScanFrame ==
    ASSUME ScanOK, NEW p \in Procs, Others(p),
           node'.done = node.done, node'.complete = node.complete, node'.active = node.active,
           node'.unqueued = node.unqueued, issued.ranges = {} => issued'.ranges = {},
           pool'.leavers = pool.leavers,
           proc[p].pc \notin {"release", "available", "lock", "cb"},
           p = Main => (IsOpen' => IsOpen)
    PROVE  ScanOK'
<1>1. IsOpen' => IsOpen
  <2>1. CASE p = Main
    BY <2>1
  <2>2. CASE p # Main
    BY <2>2, Threads DEF Others, IsOpen
  <2> QED BY <2>1, <2>2
<1>2. Coming => Coming'
  BY Threads DEF Others, Coming
<1>3. Remaining' = Remaining
  BY DEF Remaining
<1> QED BY <1>1, <1>2, <1>3 DEF ScanOK

-------------------------------------------------------------------------------
(* Counting *)

\* The sets that are counted are finite.
LEMMA Finite ==
    /\ IsFiniteSet(Unissued) /\ IsFiniteSet(Left) /\ IsFiniteSet(Marking)
    /\ IsFiniteSet(Active) /\ IsFiniteSet(Tokens)
    /\ IsFiniteSet(SplitsOf(Files))
    /\ Cardinality(Unissued) \in Nat /\ Cardinality(Left) \in Nat /\ Cardinality(Marking) \in Nat
    /\ Cardinality(Active) \in Nat /\ Cardinality(Tokens) \in Nat
    /\ Cardinality(SplitsOf(Files)) \in Nat
<1>1. IsFiniteSet(Files) /\ IsFiniteSet(SplitsOf(Files)) /\ IsFiniteSet(Scanners)
  BY ScanAssumption
<1>2. Unissued \in SUBSET Files /\ Left \in SUBSET SplitsOf(Files)
  BY DEF Unissued, Left
<1>3. Active \in SUBSET Scanners /\ Tokens \in SUBSET Scanners
  BY DEF Active, Tokens
<1>4. Marking \in SUBSET (Scanners \cup {Main})
  BY DEF Marking
<1>5. IsFiniteSet(Scanners \cup {Main})
  BY <1>1, FS_AddElement
<1>6. IsFiniteSet(Unissued) /\ IsFiniteSet(Left) /\ IsFiniteSet(Marking)
      /\ IsFiniteSet(Active) /\ IsFiniteSet(Tokens)
  BY <1>1, <1>2, <1>3, <1>4, <1>5, FS_Subset
<1> QED BY <1>1, <1>6, FS_CardinalityType

\* When nothing is unqueued no file is left to issue, and when everything is complete no
\* split is left to process.
LEMMA NothingLeft ==
    ASSUME Counts, node.unqueued \in Int, node.complete \in Nat
    PROVE  /\ node.unqueued >= 0
           /\ node.unqueued = 0 => Unissued = {} /\ Marking = {}
           /\ node.complete <= Cardinality(SplitsOf(Files))
           /\ Complete => Left = {}
<1>1. /\ Cardinality(Unissued) \in Nat /\ Cardinality(Left) \in Nat
      /\ Cardinality(Marking) \in Nat /\ Cardinality(SplitsOf(Files)) \in Nat
  BY Finite
<1>2. /\ Cardinality(Unissued) + Cardinality(Marking) <= node.unqueued
      /\ Cardinality(Left) + node.complete <= Cardinality(SplitsOf(Files))
  BY DEF Counts
<1>3. /\ node.unqueued >= 0
      /\ node.unqueued = 0 => Cardinality(Unissued) = 0 /\ Cardinality(Marking) = 0
      /\ node.complete <= Cardinality(SplitsOf(Files))
      /\ Complete => Cardinality(Left) = 0
  BY <1>1, <1>2, SMT DEF Complete
<1> QED BY <1>3, Finite, FS_EmptySet

\* The node is opened with nothing issued, nobody started and every file counted.
LEMMA InitInv == Init => Inv
<1> SUFFICES ASSUME Init PROVE Inv
  BY SMT
<1>1. /\ node = [done |-> FALSE, all_ranges_started |-> FALSE, status |-> "OK", active |-> 0,
                 unqueued |-> Cardinality(Files), complete |-> 0, owned |-> 0]
      /\ issued = [ranges |-> {}, cancelled |-> FALSE]
      /\ batches = [queue |-> <<>>, cleanup |-> 0, shutdown |-> FALSE]
      /\ seen = [made |-> 0, returned |-> 0, errors |-> 0, last |-> "more"]
      /\ query \in [limit : Limits, abort_on_error : BOOLEAN] /\ changes = 0
  BY DEF Init
<1>2. PICK quota \in Quotas :
        pool = [optional |-> 0, cb |-> TRUE, lock |-> None, quota |-> quota, leavers |-> 0]
  BY DEF Init
<1>3. Cardinality(Files) \in Nat /\ IsFiniteSet(Files) /\ quota \in Nat
  BY ScanAssumption, FS_CardinalityType
<1> DEFINE todo == TextFiles \cup (IF SequenceFiles = {} THEN {} ELSE {"headers"})
<1>4. \A p \in Procs : proc[p] = IF p = Main THEN [NewProc("open") EXCEPT !.todo = todo]
                                 ELSE NewProc("off")
  BY DEF Init
<1>5. /\ todo \in SUBSET (TextFiles \cup {"headers"})
      /\ \A f \in Files : f \in TextFiles => f \in todo
      /\ \A f \in SequenceFiles : "headers" \in todo
  OBVIOUS
<1>6. /\ [NewProc("open") EXCEPT !.todo = todo] \in Proc
      /\ [NewProc("open") EXCEPT !.todo = todo].pc = "open"
      /\ [NewProc("open") EXCEPT !.todo = todo].todo = todo
      /\ [NewProc("open") EXCEPT !.todo = todo].status = "OK"
      /\ NewProc("off") \in Proc /\ NewProc("off").pc = "off" /\ NewProc("off").status = "OK"
  <2>1. "open" \in Pcs /\ "off" \in Pcs
    BY DEF Pcs, MainPcs, ScannerPcs
  <2> HIDE DEF todo
  <2> QED BY <1>5, <2>1, SMT DEF NewProc, Proc
<1> HIDE DEF todo
<1>7. proc[Main].pc = "open" /\ proc[Main].todo = todo
  BY <1>4, <1>6, Threads
<1>8. \A p \in Procs : p # Main => proc[p].pc = "off" /\ proc[p].status = "OK"
  BY <1>4, <1>6
<1>9. TypeOK
  <2>1. proc \in [Procs -> Proc]
    <3>1. proc = [p \in Procs |-> IF p = Main THEN [NewProc("open") EXCEPT !.todo = todo]
                                  ELSE NewProc("off")]
      BY DEF Init, todo
    <3> QED BY <1>6, <3>1
  <2>2. node \in Node
    BY <1>1, <1>3, SMT DEF Node
  <2>3. pool \in Pool
    BY <1>2, <1>3, SMT DEF Pool
  <2>4. issued \in Issued
    BY <1>1, SMT DEF Issued
  <2>5. batches \in Batches
    BY <1>1, SMT DEF Batches
  <2>6. seen \in Seen /\ changes \in Nat
    BY <1>1, SMT DEF Seen
  <2> QED BY <1>1, <2>1, <2>2, <2>3, <2>4, <2>5, <2>6 DEF TypeOK
<1>10. ProcsOK /\ LockOK
  <2>1. ASSUME NEW p \in Procs PROVE ProcOK(p)
    <3>1. CASE p = Main
      BY <1>7, <3>1, Threads DEF ProcOK, MainPcs, Ending
    <3>2. CASE p # Main
      BY <1>8, <3>2 DEF ProcOK, ScannerPcs, CallerPcs, Opening, Owning, Ending
    <3> QED BY <3>1, <3>2
  <2>2. pool.lock = None
    BY <1>2, SMT
  <2> QED BY <1>8, <2>1, <2>2, Threads DEF ProcsOK, LockOK
<1>11. TokensOK
  <2>1. Active = {} /\ Tokens = {}
    BY <1>8, Threads DEF Active, Tokens
  <2>2. node.active = 0 /\ pool.optional = 0
    BY <1>1, <1>2, SMT
  <2> QED BY <2>1, <2>2, FS_EmptySet DEF TokensOK
<1>12. CloseOK
  <2>1. pool.cb /\ node.owned = Len(batches.queue) + batches.cleanup
    BY <1>1, <1>2, SMT
  <2> QED BY <1>7, <2>1 DEF CloseOK
<1>13. issued.ranges = {} /\ ~issued.cancelled /\ ~batches.shutdown /\ ~node.done
       /\ ~node.all_ranges_started /\ node.unqueued = Cardinality(Files) /\ node.complete = 0
       /\ batches.queue = <<>> /\ seen.made = 0 /\ seen.returned = 0 /\ seen.last = "more"
  BY <1>1, SMT
<1>14. \A t \in Scanners : proc[t].pc = "off" /\ proc[t].status = "OK" /\ ~Owns(t) /\ ~Opens(t)
  BY <1>8, Threads DEF Owns, Opens, Opening, Owning
<1>15. Exclusive
  BY <1>13, <1>14 DEF Exclusive
<1>16. Counts
  <2>1. Marking = {}
    BY <1>7, <1>14 DEF Marking
  <2>2. Unissued \in SUBSET Files /\ Left \in SUBSET SplitsOf(Files)
    BY DEF Unissued, Left
  <2>3. Cardinality(Unissued) <= Cardinality(Files)
        /\ Cardinality(Left) <= Cardinality(SplitsOf(Files))
    BY <1>3, <2>2, Finite, FS_Subset
  <2>4. Cardinality(Marking) = 0
    BY <2>1, FS_EmptySet
  <2>5. Cardinality(Unissued) \in Nat /\ Cardinality(Left) \in Nat
    BY Finite
  <2>6. /\ Cardinality(Unissued) + Cardinality(Marking) <= node.unqueued
        /\ Cardinality(Left) + node.complete <= Cardinality(SplitsOf(Files))
    BY <1>13, <2>3, <2>4, <2>5, SMT
  <2> QED BY <2>6 DEF Counts
<1>17. Snapshots /\ AllStartedIsStarted
  BY <1>13, <1>14 DEF Snapshots, SnapshotOK, AllStartedIsStarted
<1>18. DoneOK
  <2>1. Rows = {}
    <3>1. DOMAIN batches.queue = {}
      BY <1>13, SMT
    <3> QED BY <3>1 DEF Rows, RowsOf
  <2>2. Cardinality(Rows) = 0
    BY <2>1, FS_EmptySet
  <2>3. seen.made = seen.returned + Cardinality(Rows)
    BY <1>13, <2>2, SMT
  <2> QED BY <1>7, <1>13, <1>14, <2>3 DEF DoneOK
<1>19. EosIsComplete
  BY <1>13 DEF EosIsComplete
<1>20. ScanOK
  <2>1. CASE todo # {}
    BY <1>7, <2>1 DEF ScanOK, IsOpen
  <2>2. CASE todo = {}
    <3>1. Files = {}
      BY <1>5, <2>2 DEF Files
    <3>2. node.unqueued = 0
      BY <1>13, <3>1, FS_EmptySet
    <3>3. ~(node.unqueued > 0)
      BY <3>2, SMT
    <3> QED BY <1>13, <3>3 DEF ScanOK
  <2> QED BY <2>1, <2>2
<1> QED BY <1>9, <1>10, <1>11, <1>12, <1>15, <1>16, <1>17, <1>18, <1>19, <1>20 DEF Inv

\* A thread that counts is counted.
LEMMA SomeToken ==
    ASSUME TokensOK
    PROVE  /\ node.active > 0 <=> Active # {}
           /\ pool.optional > 0 <=> Tokens # {}
<1>1. Cardinality(Active) = 0 <=> Active = {}
  BY Finite, FS_EmptySet
<1>2. Cardinality(Tokens) = 0 <=> Tokens = {}
  BY Finite, FS_EmptySet
<1>3. Cardinality(Active) \in Nat /\ Cardinality(Tokens) \in Nat
  BY Finite
<1> QED BY <1>1, <1>2, <1>3, SMT DEF TokensOK

\* Nothing is added to what is left, and nothing is counted.
LEMMA CountsFrame ==
    ASSUME Counts, Shrinks, node.unqueued \in Nat, node.complete \in Nat,
           node'.unqueued = node.unqueued, node'.complete = node.complete
    PROVE  Counts'
<1>1. /\ Unissued' \in SUBSET Unissued /\ Left' \in SUBSET Left /\ Marking' \in SUBSET Marking
  BY DEF Shrinks
<1>2. /\ IsFiniteSet(Unissued') /\ Cardinality(Unissued') <= Cardinality(Unissued)
      /\ IsFiniteSet(Left') /\ Cardinality(Left') <= Cardinality(Left)
      /\ IsFiniteSet(Marking') /\ Cardinality(Marking') <= Cardinality(Marking)
  BY <1>1, Finite, FS_Subset
<1>3. /\ Cardinality(Unissued') \in Nat /\ Cardinality(Left') \in Nat
      /\ Cardinality(Marking') \in Nat
  BY <1>2, FS_CardinalityType
<1>4. /\ Cardinality(Unissued) \in Nat /\ Cardinality(Left) \in Nat
      /\ Cardinality(Marking) \in Nat /\ Cardinality(SplitsOf(Files)) \in Nat
  BY Finite
<1>5. /\ Cardinality(Unissued) + Cardinality(Marking) <= node.unqueued
      /\ Cardinality(Left) + node.complete <= Cardinality(SplitsOf(Files))
  BY DEF Counts
<1>6. /\ Cardinality(Unissued') + Cardinality(Marking') <= node'.unqueued
      /\ Cardinality(Left') + node'.complete <= Cardinality(SplitsOf(Files))
  BY <1>2, <1>3, <1>4, <1>5, SMT
<1> QED BY <1>6 DEF Counts

-------------------------------------------------------------------------------
(* The steps of ScannerThread *)

Works(pc) == pc \notin {"off", "release", "available"}

\* A thread that is active and stays active is the one that SomebodyScans asks for.
LEMMA ScannerGoesOn ==
    ASSUME Inv, NEW t \in Scanners, Others(t), Works(proc[t].pc), Works(proc'[t].pc),
           node'.active = node.active, pool' = pool
    PROVE  LockOK' /\ TokensOK' /\ ScanOK'
<1>1. t \in Procs /\ t \notin {Leaver, Mgr}
  BY Threads
<1>2. LockOK /\ TokensOK
  BY DEF Inv
<1>3. LockOK'
  BY <1>1, <1>2, LockFrame
<1>4. TokensOK'
  BY <1>1, <1>2, TokensFrame DEF Works
<1>5. node.active > 0
  <2>1. Active # {}
    BY DEF Active, Works
  <2> QED BY <1>2, <2>1, SomeToken
<1>6. ScanOK'
  BY <1>5 DEF ScanOK, Coming
<1> QED BY <1>3, <1>4, <1>6

\* The types of the variables, one by one.
LEMMA Types ==
    ASSUME Inv
    PROVE  /\ proc \in [Procs -> Proc] /\ node \in Node /\ pool \in Pool /\ issued \in Issued
           /\ batches \in Batches /\ seen \in Seen
           /\ query \in [limit : Limits, abort_on_error : BOOLEAN] /\ changes \in Nat
           /\ node.unqueued \in Nat /\ node.complete \in Nat
<1>1. TypeOK /\ Counts
  BY DEF Inv
<1>2. node.unqueued \in Int /\ node.complete \in Nat
  BY <1>1 DEF TypeOK, Node
<1>3. node.unqueued >= 0
  BY <1>1, <1>2, NothingLeft
<1>4. node.unqueued \in Nat
  BY <1>2, <1>3, SMT
<1> QED BY <1>1, <1>2, <1>4 DEF TypeOK

\* A step of an active thread that takes nothing, issues nothing and counts nothing.
LEMMA LocalStep ==
    ASSUME Inv, NEW t \in Scanners, Others(t), Works(proc[t].pc), Works(proc'[t].pc),
           proc' \in [Procs -> Proc], node' \in Node, seen' \in Seen,
           UNCHANGED <<pool, issued, batches, query, changes>>,
           node'.active = node.active, node'.owned = node.owned,
           node'.unqueued = node.unqueued, node'.complete = node.complete,
           ProcOK(t)', proc'[t].pc # "mark", Opens(t)' => Opens(t),
           Owns(t)' => Owns(t) /\ proc'[t].range = proc[t].range,
           Snapshots', AllStartedIsStarted', DoneOK', EosIsComplete'
    PROVE  Inv'
<1>1. t \in Procs /\ t # Main /\ t \notin {Leaver, Mgr} /\ proc[t].pc # "off"
  BY Threads DEF Works
<1>2. TypeOK'
  BY Types DEF TypeOK
<1>3. ProcsOK'
  BY <1>1, ProcsFrame DEF Inv
<1>4. LockOK' /\ TokensOK' /\ ScanOK'
  BY ScannerGoesOn
<1>5. CloseOK'
  BY <1>1, CloseFrame DEF Inv
<1>6. Exclusive' /\ Shrinks
  BY <1>1, OwnFrame DEF Inv
<1>7. Counts'
  BY <1>6, Types, CountsFrame DEF Inv
<1> QED BY <1>2, <1>3, <1>4, <1>5, <1>6, <1>7 DEF Inv

\* The top of the loop: a thread that goes on has read num_unqueued_files_.
LEMMA TopKeeps ==
    ASSUME Inv, NEW t \in Scanners, Top(t)
    PROVE  Inv'
<1>1. t \in Procs /\ t # Main /\ t \notin {Leaver, Mgr} /\ proc[t].pc = "top"
  BY Threads DEF Top, At
<1>2. UNCHANGED <<node, pool, issued, batches, seen, query, changes>>
  BY DEF Top
<1>3. proc \in [Procs -> Proc] /\ node \in Node /\ seen \in Seen /\ node.unqueued \in Nat
  BY Types
<1>4. /\ proc' \in [Procs -> Proc] /\ Others(t)
      /\ \/ Fresh(t, "leave")
         \/ /\ proc'[t].pc = "range" /\ proc'[t].unqueued = node.unqueued
            /\ proc'[t].status = proc[t].status
  <2>1. CASE node.done \/ optional_exceeded
    <3>1. Start(t, "leave") /\ "leave" \in Pcs
      BY <2>1 DEF Top, Pcs, ScannerPcs
    <3> QED BY <1>1, <1>3, <3>1, StartFacts
  <2>2. CASE ~(node.done \/ optional_exceeded)
    <3>1. proc' = [proc EXCEPT ![t].pc = "range", ![t].unqueued = node.unqueued]
      BY <2>2 DEF Top
    <3>2. "range" \in Pcs
      BY DEF Pcs, ScannerPcs
    <3> QED BY <1>1, <1>3, <3>1, <3>2 DEF Proc, Others
  <2> QED BY <2>1, <2>2
<1>5. Works(proc[t].pc) /\ Works(proc'[t].pc) /\ proc'[t].pc \in {"leave", "range"}
  BY <1>1, <1>4 DEF Works, Fresh
<1>6. ProcOK(t)' /\ ~Opens(t)' /\ ~Owns(t)' /\ proc'[t].pc # "mark"
  BY <1>1, <1>5 DEF ProcOK, ScannerPcs, Ending, Opening, Owning, Opens, Owns
<1>7. Snapshots' /\ AllStartedIsStarted'
  <2>1. SnapshotOK(t)'
    <3>1. CASE proc'[t].pc = "leave"
      BY <3>1 DEF SnapshotOK
    <3>2. CASE proc'[t].pc # "leave"
      <4>1. proc'[t].pc = "range" /\ proc'[t].unqueued = node.unqueued
        BY <1>4, <3>2 DEF Fresh
      <4>2. node'.unqueued <= proc'[t].unqueued
        BY <1>2, <1>3, <4>1, SMT
      <4> QED BY <4>1, <4>2 DEF SnapshotOK
    <3> QED BY <3>1, <3>2
  <2> QED BY <1>1, <1>2, <1>4, <2>1, SnapshotsFrame DEF Inv
<1>8. DoneOK' /\ EosIsComplete'
  <2>1. proc'[t].status = "ERROR" => proc[t].status = "ERROR"
    BY <1>4 DEF Fresh
  <2> QED BY <1>1, <1>2, <1>4, <1>5, <2>1, DoneFrame DEF Inv, Complete
<1> QED BY <1>2, <1>3, <1>4, <1>5, <1>6, <1>7, <1>8, LocalStep

\* GetNextRange keeps the invariant.
LEMMA GetNextRangeKeeps ==
    ASSUME Inv, NEW t \in Scanners, GetNextRange(t)
    PROVE  Inv'
\* GetNextRange with no range left: a thread that saw no unqueued file before now knows that
\* none will come.
<1>none. ASSUME proc[t].pc = "range", issued.ranges = {},
                UNCHANGED <<node, pool, issued, batches, seen, query, changes>>,
                proc' \in [Procs -> Proc], Others(t), proc'[t].pc = "status",
                proc'[t].range = None, proc'[t].status # "ERROR",
                proc'[t].unqueued = proc[t].unqueued
         PROVE  Inv'
  <2> USE <1>none
  <2>1. t \in Procs /\ t # Main /\ t \notin {Leaver, Mgr}
    BY Threads
  <2>2. proc \in [Procs -> Proc] /\ node \in Node /\ seen \in Seen /\ node.unqueued \in Nat
    BY Types
  <2>3. Works(proc[t].pc) /\ Works(proc'[t].pc)
    BY DEF Works
  <2>4. ProcOK(t)' /\ ~Opens(t)' /\ ~Owns(t)' /\ proc'[t].pc # "mark"
    BY <2>1 DEF ProcOK, ScannerPcs, Ending, Opening, Owning, Opens, Owns
  <2>5. Snapshots' /\ AllStartedIsStarted'
    <3>1. node.unqueued <= proc[t].unqueued
      BY DEF Inv, Snapshots, SnapshotOK
    <3>2. proc'[t].unqueued = 0 => node'.unqueued = 0
      BY <2>2, <3>1, SMT
    <3>3. SnapshotOK(t)'
      BY <3>2 DEF SnapshotOK
    <3> QED BY <2>1, <3>3, SnapshotsFrame DEF Inv
  <2>6. DoneOK' /\ EosIsComplete'
    BY <2>1, DoneFrame DEF Inv, Complete
  <2> QED BY <2>2, <2>3, <2>4, <2>5, <2>6, LocalStep
\* GetNextRange with a range: it leaves the I/O manager and is the thread's.
<1>take. ASSUME proc[t].pc = "range", NEW r \in issued.ranges,
                UNCHANGED <<node, pool, batches, seen, query, changes>>,
                issued' \in Issued, issued'.ranges = issued.ranges \ {r},
                issued'.cancelled = issued.cancelled, proc' \in [Procs -> Proc], Others(t),
                proc'[t].pc \in {"header", "process"},
                proc'[t].pc = "header" <=> r \in SequenceFiles,
                proc'[t].range = r, proc'[t].status = "OK"
         PROVE  Inv'
  <2> USE <1>take
  <2>1. t \in Procs /\ t # Main /\ t \notin {Leaver, Mgr}
    BY Threads
  <2>2. proc \in [Procs -> Proc] /\ node \in Node /\ seen \in Seen /\ issued \in Issued
    BY Types
  <2>3. r \in Ranges
    BY <2>2 DEF Issued
  <2>4. Works(proc[t].pc) /\ Works(proc'[t].pc) /\ proc[t].pc # "off"
        /\ proc'[t].pc \notin {"mark", "range", "status"}
    BY DEF Works
  <2>5. TypeOK'
    BY Types DEF TypeOK
  <2>6. ProcsOK'
    <3>1. r \in SequenceFiles \/ r \in SplitsOf(Files)
      BY <2>3 DEF Ranges
    <3>2. ProcOK(t)'
      BY <2>1, <2>3, <3>1 DEF ProcOK, ScannerPcs, Ending, Opening, Owning
    <3> QED BY <2>1, <3>2, ProcsFrame DEF Inv
  <2>7. LockOK' /\ TokensOK' /\ ScanOK'
    BY <2>4, ScannerGoesOn
  <2>8. CloseOK'
    BY <2>1, <2>4, CloseFrame DEF Inv
  <2>9. Exclusive' /\ Shrinks
    <3>1. Exclusive
      BY DEF Inv
    <3>2. Todo' = Todo
      BY <2>1, Threads DEF Todo, Others
    <3>3. \A u \in Scanners : u # t => proc'[u] = proc[u] /\ (Owns(u)' <=> Owns(u))
                                       /\ (Opens(u)' <=> Opens(u))
      BY Threads DEF Owns, Opens, Others
    <3>4. Unissued' \subseteq Unissued
      BY <3>2, <3>3 DEF Unissued
    <3>5. Left' \subseteq Left
      BY <3>3, <3>4 DEF Left
    <3>6. Marking' \subseteq Marking
      BY <2>4, Threads DEF Marking, Others
    <3>7. Todo' \cap issued'.ranges = {}
      BY <3>1, <3>2 DEF Exclusive
    <3>8. \A f \in Unissued' : Splits[f] \cap issued'.ranges = {}
      BY <3>1, <3>4 DEF Exclusive
    <3>9. ASSUME NEW u \in Scanners, Owns(u)'
          PROVE  /\ proc'[u].range \notin issued'.ranges /\ proc'[u].range \notin Todo'
                 /\ \A v \in Scanners \ {u} : Owns(v)' => proc'[v].range # proc'[u].range
                 /\ \A f \in Unissued' : proc'[u].range \notin Splits[f]
      <4>1. CASE u = t
        <5>1. proc'[u].range \notin issued'.ranges /\ proc'[u].range \notin Todo'
          BY <3>1, <3>2, <4>1 DEF Exclusive
        <5>2. \A v \in Scanners \ {u} : Owns(v)' => proc'[v].range # proc'[u].range
          BY <3>1, <3>3, <4>1 DEF Exclusive
        <5>3. \A f \in Unissued' : proc'[u].range \notin Splits[f]
          BY <3>1, <3>4, <4>1 DEF Exclusive
        <5> QED BY <5>1, <5>2, <5>3
      <4>2. CASE u # t
        <5>1. Owns(u) /\ proc'[u].range = proc[u].range
          BY <3>3, <3>9, <4>2
        <5>2. proc'[u].range \notin issued'.ranges /\ proc'[u].range \notin Todo'
          BY <3>1, <3>2, <5>1 DEF Exclusive
        <5>3. \A v \in Scanners \ {u} : Owns(v)' => proc'[v].range # proc'[u].range
          <6>1. ASSUME NEW v \in Scanners \ {u}, v # t, Owns(v)'
                PROVE  proc'[v].range # proc'[u].range
            <7>1. Owns(v) /\ proc'[v].range = proc[v].range
              BY <3>3, <6>1
            <7> QED BY <3>1, <5>1, <7>1 DEF Exclusive
          <6>2. proc'[t].range # proc'[u].range
            BY <3>1, <5>1 DEF Exclusive
          <6> QED BY <6>1, <6>2
        <5>4. \A f \in Unissued' : proc'[u].range \notin Splits[f]
          BY <3>1, <3>4, <5>1 DEF Exclusive
        <5> QED BY <5>2, <5>3, <5>4
      <4> QED BY <4>1, <4>2
    <3> QED BY <3>4, <3>5, <3>6, <3>7, <3>8, <3>9 DEF Exclusive, Shrinks
  <2>10. Counts'
    BY <2>9, Types, CountsFrame DEF Inv
  <2>11. Snapshots' /\ AllStartedIsStarted'
    <3>1. SnapshotOK(t)'
      BY <2>4 DEF SnapshotOK
    <3>2. issued.ranges = {} => issued'.ranges = {}
      OBVIOUS
    <3> QED BY <2>1, <3>1, <3>2, SnapshotsFrame DEF Inv
  <2>12. DoneOK' /\ EosIsComplete'
    BY <2>1, DoneFrame DEF Inv, Complete
  <2> QED BY <2>5, <2>6, <2>7, <2>8, <2>9, <2>10, <2>11, <2>12 DEF Inv
<1>1. t \in Procs /\ proc[t].pc = "range" /\ proc \in [Procs -> Proc] /\ issued \in Issued
  BY Types, Threads DEF GetNextRange, At
<1>2. UNCHANGED <<node, pool, batches, seen, query, changes>>
  BY DEF GetNextRange
<1>3. ASSUME issued.ranges = {}, UNCHANGED issued,
             NEW status \in {"OK", "CANCELLED", "ERROR"}, status # "ERROR",
             proc' = [proc EXCEPT ![t].pc = "status", ![t].range = None, ![t].status = status]
      PROVE  Inv'
  <2>1. "status" \in Pcs /\ None \in Ranges \cup {None}
    BY DEF Pcs, ScannerPcs
  <2>2. Becomes(t, "status", None, status)
    BY <1>1, <1>3, <2>1, RangeFacts
  <2> QED BY ONLY Inv, t \in Scanners, <1>1, <1>2, <2>2, issued.ranges = {}, UNCHANGED issued,
                  status # "ERROR", <1>none, Zenon DEF Becomes
<1>4. ASSUME NEW r \in issued.ranges, issued' = [issued EXCEPT !.ranges = @ \ {r}],
             NEW pc \in {"header", "process"}, pc = "header" <=> r \in SequenceFiles,
             proc' = [proc EXCEPT ![t].pc = pc, ![t].range = r, ![t].status = "OK"]
      PROVE  Inv'
  <2>1. /\ issued' \in Issued /\ issued'.ranges = issued.ranges \ {r}
        /\ issued'.cancelled = issued.cancelled /\ r \in Ranges
    BY <1>1, <1>4, SMT DEF Issued
  <2>2. pc \in Pcs /\ r \in Ranges \cup {None} /\ "OK" \in {"OK", "CANCELLED", "ERROR"}
    BY <2>1 DEF Pcs, ScannerPcs
  <2>3. Becomes(t, pc, r, "OK")
    BY <1>1, <1>4, <2>2, RangeFacts
  <2> QED BY ONLY Inv, t \in Scanners, r \in issued.ranges, pc \in {"header", "process"},
                  pc = "header" <=> r \in SequenceFiles,
                  <1>1, <1>2, <2>1, <2>3, <1>take, Zenon DEF Becomes
<1> QED BY <1>3, <1>4 DEF GetNextRange

\* A thread that goes on with the range it has, after an error or not.
LEMMA OwnStep ==
    ASSUME Inv, NEW t \in Scanners, Others(t), proc' \in [Procs -> Proc],
           Works(proc[t].pc), proc'[t].pc \in {"add_batch", "finish", "final", "complete"},
           Owns(t) \/ proc'[t].range \notin SplitsOf(Files), proc'[t].range = proc[t].range,
           proc[t].range \in Ranges,
           proc'[t].pc \in {"add_batch", "finish"} => proc[t].range \in SplitsOf(Files),
           UNCHANGED <<node, pool, issued, batches, query, changes>>, seen' \in Seen,
           \/ seen' = seen /\ (proc'[t].status = "ERROR" => proc[t].status = "ERROR")
           \/ seen'.errors > 0 /\ seen'.returned = seen.returned /\ seen'.last = seen.last
    PROVE  Inv'
<1>1. t \in Procs /\ t # Main /\ t \notin {Leaver, Mgr}
  BY Threads
<1>2. node \in Node /\ seen'.errors \in Nat
  BY Types DEF Seen
<1>3. Works(proc'[t].pc) /\ ~Opens(t)' /\ proc'[t].pc \notin {"mark", "range", "status"}
      /\ proc'[t].pc \notin {"cancel", "shutdown", "get", "set_done"}
  BY DEF Works, Opens, Opening
<1>4. Owns(t)' => Owns(t)
  BY <1>3 DEF Owns
<1>5. ProcOK(t)'
  BY <1>1 DEF ProcOK, ScannerPcs, Ending, Opening, Owning
<1>6. Snapshots' /\ AllStartedIsStarted'
  <2>1. SnapshotOK(t)'
    BY <1>3 DEF SnapshotOK
  <2> QED BY <1>1, <2>1, SnapshotsFrame DEF Inv
<1>7. DoneOK' /\ EosIsComplete'
  <2>1. CASE seen' = seen /\ (proc'[t].status = "ERROR" => proc[t].status = "ERROR")
    BY <1>1, <1>3, <2>1, DoneFrame DEF Inv, Complete
  <2>2. CASE seen'.errors > 0 /\ seen'.returned = seen.returned /\ seen'.last = seen.last
    BY <1>2, <1>3, <2>2, ErrorFrame DEF Inv
  <2> QED BY <2>1, <2>2
<1> QED BY <1>2, <1>3, <1>4, <1>5, <1>6, <1>7, LocalStep

\* What a failing range does to the history.
LEMMA FailingFacts ==
    ASSUME seen \in Seen, NEW t, Failing(t)
    PROVE  /\ seen' \in Seen /\ seen'.errors > 0 /\ seen'.returned = seen.returned
           /\ seen'.last = seen.last /\ seen'.made = seen.made
BY SMT DEF Failing, Seen

\* ProcessSplit keeps the invariant.
LEMMA ProcessKeeps ==
    ASSUME Inv, NEW t \in Scanners, Process(t)
    PROVE  Inv'
<1>1. t \in Procs /\ proc[t].pc = "process" /\ proc \in [Procs -> Proc] /\ seen \in Seen
  BY Types, Threads DEF Process, At
<1>2. UNCHANGED <<node, pool, issued, batches, query, changes>>
  BY DEF Process
<1>3. proc[t].range \in SplitsOf(Files) /\ proc[t].range \in Ranges
  BY <1>1 DEF Inv, ProcsOK, ProcOK, Owning
<1>4. Works(proc[t].pc) /\ Owns(t)
  BY <1>1, <1>3 DEF Works, Owns, Owning
<1>5. "add_batch" \in Pcs /\ "finish" \in Pcs /\ "final" \in Pcs
  BY DEF Pcs, ScannerPcs
<1>6. CASE Call(t, "add_batch", "finish") /\ UNCHANGED seen
  <2>1. /\ proc' \in [Procs -> Proc] /\ Others(t) /\ Same(t) /\ proc'[t].pc = "add_batch"
    BY <1>1, <1>5, <1>6, CallFacts
  <2> QED BY <1>1, <1>2, <1>3, <1>4, <1>6, <2>1, OwnStep DEF Same
<1>7. ASSUME NEW s \in {"OK", "CANCELLED"}, UNCHANGED seen,
             proc' = [proc EXCEPT ![t].pc = "final", ![t].status = s]
      PROVE  Inv'
  <2>1. s \in {"OK", "CANCELLED", "ERROR"} /\ s # "ERROR"
    BY <1>7
  <2>2. Becomes(t, "final", proc[t].range, s)
    BY <1>1, <1>5, <1>7, <2>1, StatusFacts
  <2> QED BY ONLY Inv, t \in Scanners, <1>1, <1>2, <1>3, <1>4, UNCHANGED seen, <2>1, <2>2,
                  OwnStep, Zenon DEF Becomes
<1>8. ASSUME Failing(t), proc' = [proc EXCEPT ![t].pc = "final", ![t].status = "ERROR"]
      PROVE  Inv'
  <2>1. "ERROR" \in {"OK", "CANCELLED", "ERROR"}
    OBVIOUS
  <2>2. Becomes(t, "final", proc[t].range, "ERROR")
    BY <1>1, <1>5, <1>8, <2>1, StatusFacts
  <2>3. /\ seen' \in Seen /\ seen'.errors > 0 /\ seen'.returned = seen.returned
        /\ seen'.last = seen.last
    BY <1>1, <1>8, FailingFacts
  <2> QED BY ONLY Inv, t \in Scanners, <1>1, <1>2, <1>3, <1>4, <2>2, <2>3,
                  OwnStep, Zenon DEF Becomes
<1> QED BY <1>6, <1>7, <1>8 DEF Process

\* The end of a split after its last full batch keeps the invariant.
LEMMA FinishKeeps ==
    ASSUME Inv, NEW t \in Scanners, Finish(t)
    PROVE  Inv'
<1>1. t \in Procs /\ proc[t].pc = "finish" /\ proc \in [Procs -> Proc] /\ seen \in Seen
  BY Types, Threads DEF Finish, At
<1>2. UNCHANGED <<node, pool, issued, batches, seen, query, changes>>
  BY DEF Finish
<1>3. proc[t].range \in SplitsOf(Files) /\ proc[t].range \in Ranges
  BY <1>1 DEF Inv, ProcsOK, ProcOK, Owning
<1>4. Works(proc[t].pc) /\ Owns(t)
  BY <1>1, <1>3 DEF Works, Owns, Owning
<1>5. ASSUME NEW s \in {"OK", "CANCELLED"},
             proc' = [proc EXCEPT ![t].pc = "final", ![t].status = s]
      PROVE  Inv'
  <2>1. s \in {"OK", "CANCELLED", "ERROR"} /\ s # "ERROR" /\ "final" \in Pcs
    BY <1>5 DEF Pcs, ScannerPcs
  <2>2. Becomes(t, "final", proc[t].range, s)
    BY <1>1, <1>5, <2>1, StatusFacts
  <2> QED BY ONLY Inv, t \in Scanners, <1>1, <1>2, <1>3, <1>4, <2>1, <2>2,
                  OwnStep, Zenon DEF Becomes
<1> QED BY <1>5 DEF Finish

\* A thread counts splits that it had, or whose header it had, as complete.
LEMMA CompleteStep ==
    ASSUME Inv, NEW t \in Scanners, Others(t), proc' \in [Procs -> Proc],
           Works(proc[t].pc), Works(proc'[t].pc), ProcOK(t)', SnapshotOK(t)',
           ~Owns(t)', proc'[t].pc \notin {"mark", "cancel", "shutdown", "get", "set_done"},
           NEW D \in SUBSET Left, D # {}, Left' \cap D = {},
           node' = [node EXCEPT !.complete = @ + Cardinality(D)],
           UNCHANGED <<pool, issued, batches, query, changes>>, seen' \in Seen,
           \/ seen' = seen /\ (proc'[t].status = "ERROR" => proc[t].status = "ERROR")
           \/ seen'.errors > 0 /\ seen'.returned = seen.returned /\ seen'.last = seen.last
    PROVE  Inv'
\* Splits are counted as complete when they are no longer left.
<1>counts. ASSUME node.unqueued \in Nat, node.complete \in Nat,
                  Unissued' \subseteq Unissued, Left' \subseteq Left \ D, Marking' \subseteq Marking,
                  node'.unqueued = node.unqueued, node'.complete = node.complete + Cardinality(D)
           PROVE  Counts' /\ Cardinality(D) \in Nat
  <2> USE <1>counts
  <2>1. Unissued' \in SUBSET Unissued /\ Left' \in SUBSET (Left \ D) /\ Marking' \in SUBSET Marking
        /\ (Left \ D) \in SUBSET Left
    OBVIOUS
  <2>2. IsFiniteSet(D) /\ IsFiniteSet(Left \ D)
    BY <2>1, Finite, FS_Subset
  <2>3. /\ IsFiniteSet(Unissued') /\ Cardinality(Unissued') <= Cardinality(Unissued)
        /\ IsFiniteSet(Left') /\ Cardinality(Left') <= Cardinality(Left \ D)
        /\ IsFiniteSet(Marking') /\ Cardinality(Marking') <= Cardinality(Marking)
    BY <2>1, <2>2, Finite, FS_Subset
  <2>4. /\ Cardinality(Unissued') \in Nat /\ Cardinality(Left') \in Nat
        /\ Cardinality(Marking') \in Nat /\ Cardinality(D) \in Nat /\ Cardinality(Left \ D) \in Nat
    BY <2>2, <2>3, FS_CardinalityType
  <2>5. /\ Cardinality(Unissued) \in Nat /\ Cardinality(Left) \in Nat
        /\ Cardinality(Marking) \in Nat /\ Cardinality(SplitsOf(Files)) \in Nat
    BY Finite
  <2>6. Cardinality(Left \ D) = Cardinality(Left) - Cardinality(D)
    <3>1. /\ (Left \ D) \cup D = Left /\ (Left \ D) \cap D = {}
      OBVIOUS
    <3>2. Cardinality((Left \ D) \cup D) =
              Cardinality(Left \ D) + Cardinality(D) - Cardinality((Left \ D) \cap D)
      BY <2>2, FS_Union
    <3>3. Cardinality({}) = 0
      BY FS_EmptySet
    <3>4. Cardinality(Left) = Cardinality(Left \ D) + Cardinality(D) - 0
      BY <3>1, <3>2, <3>3
    <3> QED BY <2>4, <2>5, <3>4, SMT
  <2>7. /\ Cardinality(Unissued) + Cardinality(Marking) <= node.unqueued
        /\ Cardinality(Left) + node.complete <= Cardinality(SplitsOf(Files))
    BY DEF Inv, Counts
  <2>8. /\ Cardinality(Unissued') + Cardinality(Marking') <= node'.unqueued
        /\ Cardinality(Left') + node'.complete <= Cardinality(SplitsOf(Files))
    BY <2>3, <2>4, <2>5, <2>6, <2>7, SMT
  <2> QED BY <2>4, <2>8 DEF Counts
<1>1. t \in Procs /\ t # Main /\ t \notin {Leaver, Mgr} /\ proc[t].pc # "off"
  BY Threads DEF Works
<1>2. node \in Node /\ seen'.errors \in Nat /\ node.unqueued \in Nat /\ node.complete \in Nat
  BY Types DEF Seen
<1>3. /\ node'.complete = node.complete + Cardinality(D)
      /\ node'.done = node.done /\ node'.all_ranges_started = node.all_ranges_started
      /\ node'.status = node.status /\ node'.active = node.active
      /\ node'.unqueued = node.unqueued /\ node'.owned = node.owned
  BY <1>2, SMT DEF Node
<1>4. Exclusive' /\ Shrinks
  <2>1. ~Opens(t)'
    BY DEF Owns
  <2> QED BY <1>1, <2>1, OwnFrame DEF Inv
<1>5. Counts' /\ Cardinality(D) \in Nat
  <2>1. Left' \subseteq Left \ D
    BY <1>4 DEF Shrinks
  <2> QED BY <1>2, <1>3, <1>4, <2>1, <1>counts DEF Shrinks, Inv
<1>6. node' \in Node
  BY <1>2, <1>5, SMT DEF Node
<1>7. TypeOK'
  BY <1>6, Types DEF TypeOK
<1>8. ProcsOK'
  BY <1>1, ProcsFrame DEF Inv
<1>9. LockOK' /\ TokensOK' /\ ScanOK'
  BY <1>3, ScannerGoesOn
<1>10. CloseOK'
  BY <1>1, <1>3, CloseFrame DEF Inv
<1>11. Snapshots' /\ AllStartedIsStarted'
  BY <1>1, <1>3, SnapshotsFrame DEF Inv
<1>12. DoneOK' /\ EosIsComplete'
  <2>1. ~Complete
    <3>1. Left # {}
      OBVIOUS
    <3>2. Counts /\ node.unqueued \in Int
      BY <1>2 DEF Inv, Node
    <3> QED BY <1>2, <3>1, <3>2, NothingLeft
  <2>2. CASE seen' = seen /\ (proc'[t].status = "ERROR" => proc[t].status = "ERROR")
    BY <1>1, <1>3, <2>1, <2>2, DoneFrame DEF Inv
  <2>3. CASE seen'.errors > 0 /\ seen'.returned = seen.returned /\ seen'.last = seen.last
    BY <1>1, <1>2, <1>3, <2>3, ErrorFrame DEF Inv
  <2> QED BY <2>2, <2>3
<1> QED BY <1>4, <1>5, <1>7, <1>8, <1>9, <1>10, <1>11, <1>12 DEF Inv

\* The names of files and splits are different.
LEMMA Names ==
    /\ SequenceFiles \subseteq Files /\ TextFiles \subseteq Files
    /\ \A f \in SequenceFiles : f \notin SplitsOf(Files) /\ f \in Ranges
    /\ \A f \in Files : f \notin SplitsOf(Files) /\ Splits[f] \subseteq SplitsOf(Files)
                        /\ Splits[f] # {}
    /\ SplitsOf(Files) \subseteq Ranges /\ None \notin Ranges
<1>1. SequenceFiles \subseteq Files /\ TextFiles \subseteq Files
  BY DEF Files
<1>2. \A f \in Files : f \notin SplitsOf(Files) /\ Splits[f] # {}
  BY ScanAssumption
<1>3. \A f \in Files : Splits[f] \subseteq SplitsOf(Files)
  BY DEF SplitsOf
<1>4. SplitsOf(Files) \subseteq Ranges /\ SequenceFiles \subseteq Ranges
  BY DEF Ranges
<1>5. None \notin Ranges
  BY ScanAssumption
<1> QED BY <1>1, <1>2, <1>3, <1>4, <1>5

\* A header that is read, fails or is skipped keeps the invariant.
LEMMA HeaderKeeps ==
    ASSUME Inv, NEW t \in Scanners, Header(t)
    PROVE  Inv'
\* The splits of a header that a thread has are left, and nobody else's.
<1>splits. ASSUME Others(t), Opens(t), ~Owns(t)', UNCHANGED issued
           PROVE  /\ proc[t].range \in SequenceFiles
                  /\ Splits[proc[t].range] \in SUBSET Left /\ Splits[proc[t].range] # {}
                  /\ Left' \cap Splits[proc[t].range] = {}
  <2> USE <1>splits
  <2> DEFINE f == proc[t].range
  <2>1. f \in SequenceFiles /\ f \in Files
    BY Threads, Names DEF Inv, ProcsOK, ProcOK, Opens
  <2>2. f \in Unissued
    BY <2>1 DEF Unissued
  <2>3. Splits[f] \in SUBSET Left /\ Splits[f] # {}
    BY <2>1, <2>2, Names DEF Left
  <2>4. Exclusive /\ Owns(t)
    BY DEF Inv, Owns
  <2>5. Todo' = Todo
    BY Threads DEF Todo, Others
  <2>6. \A u \in Scanners : u # t => proc'[u] = proc[u] /\ (Owns(u)' <=> Owns(u))
                                     /\ (Opens(u)' <=> Opens(u))
    BY Threads DEF Owns, Opens, Others
  <2>7. ~Opens(t)'
    BY DEF Owns
  <2>8. ASSUME NEW g \in Unissued' PROVE g # f /\ g \in Files
    <3>1. g \in Files /\ f \notin Todo /\ f \notin issued.ranges
      BY <2>4 DEF Unissued, Exclusive
    <3>2. g \in Todo \/ g \in issued.ranges \/ \E u \in Scanners : Opens(u)' /\ proc'[u].range = g
      BY <2>5 DEF Unissued
    <3>3. ASSUME NEW u \in Scanners, Opens(u)', proc'[u].range = g
          PROVE  g # f
      <4>1. u # t
        BY <2>7, <3>3
      <4>2. Owns(u) /\ proc[u].range = g
        BY <2>6, <3>3, <4>1 DEF Owns
      <4> QED BY <2>4, <4>1, <4>2 DEF Exclusive
    <3> QED BY <3>1, <3>2, <3>3
  <2>9. ASSUME NEW s \in Splits[f] PROVE s \notin Left'
    <3>1. s \notin issued'.ranges
      BY <2>2, <2>4, <2>9 DEF Exclusive
    <3>2. ASSUME NEW g \in Unissued' PROVE s \notin Splits[g]
      BY <2>1, <2>8, <2>9, <3>2, ScanAssumption
    <3>3. ASSUME NEW u \in Scanners, Owns(u)' PROVE proc'[u].range # s
      <4>1. u # t
        BY <3>3
      <4>2. Owns(u) /\ proc'[u].range = proc[u].range
        BY <2>6, <3>3, <4>1
      <4> QED BY <2>2, <2>4, <2>9, <4>2 DEF Exclusive
    <3> QED BY <3>1, <3>2, <3>3 DEF Left
  <2>10. Left' \cap Splits[f] = {}
    BY <2>9
  <2> QED BY <2>1, <2>3, <2>10
<1>1. t \in Procs /\ t # Main /\ t \notin {Leaver, Mgr} /\ proc[t].pc = "header"
      /\ proc \in [Procs -> Proc] /\ seen \in Seen /\ node \in Node
  BY Types, Threads DEF Header, At
<1>2. UNCHANGED <<pool, issued, batches, query, changes>>
  BY DEF Header
<1>3. proc[t].range \in SequenceFiles /\ proc[t].range \in Ranges
      /\ proc[t].range \notin SplitsOf(Files)
  BY <1>1, Names DEF Inv, ProcsOK, ProcOK, Opening
<1>4. Works(proc[t].pc) /\ Opens(t) /\ Owns(t)
  BY <1>1 DEF Works, Owns, Opens, Opening
<1>5. "add_ranges" \in Pcs /\ "final" \in Pcs
  BY DEF Pcs, ScannerPcs
<1>6. CASE Go(t, "add_ranges") /\ UNCHANGED <<node, seen>>
  <2>1. /\ proc' \in [Procs -> Proc] /\ Others(t) /\ Same(t) /\ proc'[t].pc = "add_ranges"
    BY <1>1, <1>5, <1>6, GoFacts
  <2>2. Works(proc'[t].pc) /\ proc'[t].pc # "mark"
    BY <2>1 DEF Works
  <2>3. ProcOK(t)'
    BY <1>1, <1>3, <2>1 DEF ProcOK, ScannerPcs, Ending, Opening, Owning, Same
  <2>4. Snapshots' /\ AllStartedIsStarted'
    <3>1. SnapshotOK(t)'
      BY <2>1 DEF SnapshotOK
    <3> QED BY <1>1, <1>2, <1>6, <2>1, <3>1, SnapshotsFrame DEF Inv
  <2>5. DoneOK' /\ EosIsComplete'
    BY <1>1, <1>2, <1>6, <2>1, DoneFrame DEF Inv, Complete, Same
  <2> QED BY <1>1, <1>2, <1>4, <1>6, <2>1, <2>2, <2>3, <2>4, <2>5, LocalStep DEF Same
<1>7. ASSUME NEW s \in {"ERROR", "CANCELLED"},
             IF s = "ERROR" THEN Failing(t) ELSE issued.cancelled /\ UNCHANGED seen,
             IF query.abort_on_error
             THEN /\ proc' = [proc EXCEPT ![t].pc = "final", ![t].status = s]
                  /\ UNCHANGED node
             ELSE /\ Go(t, "final")
                  /\ node' = [node EXCEPT !.complete = @ + Cardinality(Splits[proc[t].range])]
      PROVE  Inv'
  <2>1. /\ seen' \in Seen
        /\ \/ seen' = seen /\ s # "ERROR"
           \/ seen'.errors > 0 /\ seen'.returned = seen.returned /\ seen'.last = seen.last
    <3>1. CASE s = "ERROR"
      BY <1>1, <1>7, <3>1, FailingFacts
    <3>2. CASE s # "ERROR"
      BY <1>1, <1>7, <3>2
    <3> QED BY <3>1, <3>2
  <2>2. CASE query.abort_on_error
    <3>1. s \in {"OK", "CANCELLED", "ERROR"}
      OBVIOUS
    <3>2. proc' = [proc EXCEPT ![t].pc = "final", ![t].status = s] /\ UNCHANGED node
      BY <1>7, <2>2
    <3>3. Becomes(t, "final", proc[t].range, s)
      BY <1>1, <1>5, <3>1, <3>2, StatusFacts
    <3> QED BY ONLY Inv, t \in Scanners, <1>1, <1>2, <1>3, <1>4, <2>1, <3>2, <3>3, OwnStep,
                    Zenon DEF Becomes
  <2>3. CASE ~query.abort_on_error
    <3>1. /\ Go(t, "final")
          /\ node' = [node EXCEPT !.complete = @ + Cardinality(Splits[proc[t].range])]
      BY <1>7, <2>3
    <3>2. /\ proc' \in [Procs -> Proc] /\ Others(t) /\ Same(t) /\ proc'[t].pc = "final"
      BY <1>1, <1>5, <3>1, GoFacts
    <3>3. Works(proc'[t].pc) /\ proc'[t].pc \notin {"mark", "cancel", "shutdown", "get", "set_done"}
      BY <3>2 DEF Works
    <3>4. ProcOK(t)' /\ SnapshotOK(t)'
      BY <1>1, <1>3, <3>2
         DEF ProcOK, ScannerPcs, Ending, Opening, Owning, Same, SnapshotOK
    <3>5. ~Owns(t)'
      BY <1>3, <3>2 DEF Owns, Opens, Opening, Same
    <3>6. /\ Splits[proc[t].range] \in SUBSET Left /\ Splits[proc[t].range] # {}
          /\ Left' \cap Splits[proc[t].range] = {}
      BY <1>2, <1>4, <3>2, <3>5, <1>splits
    <3>7. \/ seen' = seen /\ (proc'[t].status = "ERROR" => proc[t].status = "ERROR")
          \/ seen'.errors > 0 /\ seen'.returned = seen.returned /\ seen'.last = seen.last
      BY <2>1, <3>2 DEF Same
    <3> QED BY ONLY Inv, t \in Scanners, <1>2, <1>4, <2>1, <3>1, <3>2, <3>3, <3>4, <3>5, <3>6,
                    <3>7, CompleteStep, Zenon
  <2> QED BY <2>2, <2>3
<1> QED BY <1>6, <1>7 DEF Header

\* RangeComplete keeps the invariant: the split was the thread's alone.
LEMMA RangeCompleteKeeps ==
    ASSUME Inv, NEW t \in Scanners, RangeComplete(t)
    PROVE  Inv'
<1>1. t \in Procs /\ t # Main /\ t \notin {Leaver, Mgr} /\ proc[t].pc = "complete"
      /\ proc \in [Procs -> Proc] /\ seen \in Seen /\ node \in Node
  BY Types, Threads DEF RangeComplete, At
<1>2. UNCHANGED <<pool, issued, batches, seen, query, changes>>
  BY DEF RangeComplete
<1>3. /\ proc' \in [Procs -> Proc] /\ Others(t) /\ Same(t) /\ proc'[t].pc = "status"
  <2>1. Go(t, "status") /\ "status" \in Pcs
    BY DEF RangeComplete, Pcs, ScannerPcs
  <2> QED BY <1>1, <2>1, GoFacts
<1>4. proc[t].range \in Ranges /\ proc[t].range # None
  BY <1>1, Names DEF Inv, ProcsOK, ProcOK, Owning
<1>5. Works(proc[t].pc) /\ Works(proc'[t].pc) /\ ~Owns(t)' /\ ~Opens(t)'
      /\ proc'[t].pc \notin {"mark", "cancel", "shutdown", "get", "set_done"}
  BY <1>1, <1>3 DEF Works, Owns, Opens, Opening, Owning
<1>6. ProcOK(t)' /\ SnapshotOK(t)'
  BY <1>1, <1>3, <1>4
     DEF ProcOK, ScannerPcs, Ending, Opening, Owning, Same, SnapshotOK
<1>7. proc'[t].status = "ERROR" => proc[t].status = "ERROR"
  BY <1>3 DEF Same
<1>8. CASE proc[t].range \in SequenceFiles
  <2>1. node' = [node EXCEPT !.complete = @]
    BY <1>8 DEF RangeComplete
  <2>2. node' = node
    BY <1>1, <2>1, SMT DEF Node
  <2>3. Snapshots' /\ AllStartedIsStarted'
    BY <1>1, <1>2, <1>3, <1>6, <2>2, SnapshotsFrame DEF Inv
  <2>4. DoneOK' /\ EosIsComplete'
    BY <1>1, <1>2, <1>3, <1>5, <1>7, <2>2, DoneFrame DEF Inv, Complete
  <2> QED BY <1>1, <1>2, <1>3, <1>5, <1>6, <2>2, <2>3, <2>4, LocalStep
<1>9. CASE proc[t].range \notin SequenceFiles
  <2> DEFINE r == proc[t].range
  <2>1. r \in SplitsOf(Files) /\ Owns(t)
    BY <1>1, <1>4, <1>9 DEF Ranges, Owns, Owning
  <2>2. {r} \in SUBSET Left /\ {r} # {}
    BY <2>1 DEF Left
  <2>3. Exclusive
    BY DEF Inv
  <2>4. Todo' = Todo
    BY <1>1, <1>3, Threads DEF Todo, Others
  <2>5. \A u \in Scanners : u # t => proc'[u] = proc[u] /\ (Owns(u)' <=> Owns(u))
                                     /\ (Opens(u)' <=> Opens(u))
    BY <1>3, Threads DEF Owns, Opens, Others
  <2>6. Unissued' \subseteq Unissued
    BY <1>2, <1>5, <2>4, <2>5 DEF Unissued
  <2>7. r \notin Left'
    <3>1. r \notin issued'.ranges
      BY <1>2, <2>1, <2>3 DEF Exclusive
    <3>2. \A f \in Unissued' : r \notin Splits[f]
      BY <2>1, <2>3, <2>6 DEF Exclusive
    <3>3. ASSUME NEW u \in Scanners, Owns(u)' PROVE proc'[u].range # r
      <4>1. u # t
        BY <1>5, <3>3
      <4>2. Owns(u) /\ proc'[u].range = proc[u].range
        BY <2>5, <3>3, <4>1
      <4> QED BY <2>1, <2>3, <4>1, <4>2 DEF Exclusive
    <3> QED BY <3>1, <3>2, <3>3 DEF Left
  <2>8. Left' \cap {r} = {}
    BY <2>7
  <2>9. node' = [node EXCEPT !.complete = @ + Cardinality({r})]
    <3>1. node' = [node EXCEPT !.complete = @ + 1]
      BY <1>9 DEF RangeComplete
    <3>2. Cardinality({r}) = 1
      BY FS_Singleton
    <3> QED BY <3>1, <3>2
  <2>10. seen' \in Seen
    BY <1>1, <1>2
  <2> HIDE DEF r
  <2> QED BY ONLY Inv, t \in Scanners, <1>2, <1>3, <1>5, <1>6, <1>7, <2>2, <2>8, <2>9, <2>10,
                  CompleteStep, Zenon
<1> QED BY <1>8, <1>9

\* The splits of a file are issued: the file is counted as issued, but not yet marked.
LEMMA IssueFile ==
    ASSUME Inv, NEW p \in Scanners \cup {Main}, Others(p), NEW f \in Files,
           f \in Unissued, f \notin Todo', f \notin issued.ranges, Todo' \subseteq Todo,
           \A u \in Scanners : Owns(u)' => u # p /\ proc[u].range # f,
           issued'.ranges = issued.ranges \cup Splits[f],
           proc[p].pc # "mark", node'.unqueued = node.unqueued, node'.complete = node.complete
    PROVE  Exclusive' /\ Counts'
<1>1. p \in Procs /\ Exclusive
  BY Threads DEF Inv
<1>2. \A u \in Scanners : Owns(u)' => u # p /\ Owns(u) /\ proc'[u].range = proc[u].range
  BY Threads DEF Owns, Opens, Others
<1>3. \A u \in Scanners : Opens(u)' => u # p /\ Opens(u) /\ Owns(u)'
  BY <1>2, Threads DEF Owns, Opens, Others
<1>4. Unissued' \subseteq Unissued /\ f \notin Unissued'
  <2>1. ASSUME NEW g \in Unissued' PROVE g \in Unissued /\ g # f
    <3>1. g \in Files /\ g \notin Splits[f]
      BY Names DEF Unissued
    <3>2. CASE g \in Todo'
      BY <3>1, <3>2 DEF Unissued
    <3>3. CASE g \in issued'.ranges
      BY <3>1, <3>3 DEF Unissued
    <3>4. ASSUME NEW u \in Scanners, Opens(u)', proc'[u].range = g
          PROVE  g \in Unissued /\ g # f
      BY <1>2, <1>3, <3>1, <3>4 DEF Unissued
    <3> QED BY <3>2, <3>3, <3>4 DEF Unissued
  <2> QED BY <2>1
<1>5. Left' \subseteq Left
  <2>1. \A s \in Splits[f] : s \in SplitsOf(Files) => s \in Left
    BY DEF Left
  <2> QED BY <1>2, <1>4, <2>1 DEF Left
<1>6. Marking' \subseteq Marking \cup {p}
  BY Threads DEF Marking, Others
<1>7. Exclusive'
  <2>1. Todo' \cap issued'.ranges = {}
    <3>1. Todo' \subseteq Files
      BY Names DEF Todo
    <3>2. \A g \in Todo' : g \notin issued.ranges /\ g \notin Splits[f]
      BY <1>1, <3>1, Names DEF Exclusive
    <3> QED BY <3>2
  <2>2. ASSUME NEW u \in Scanners, Owns(u)'
        PROVE  /\ proc'[u].range \notin issued'.ranges /\ proc'[u].range \notin Todo'
               /\ \A v \in Scanners \ {u} : Owns(v)' => proc'[v].range # proc'[u].range
               /\ \A g \in Unissued' : proc'[u].range \notin Splits[g]
    <3>1. Owns(u) /\ proc'[u].range = proc[u].range
      BY <1>2, <2>2
    <3>2. proc[u].range \notin issued.ranges /\ proc[u].range \notin Todo
          /\ proc[u].range \notin Splits[f]
      BY <1>1, <3>1 DEF Exclusive
    <3>3. proc'[u].range \notin issued'.ranges /\ proc'[u].range \notin Todo'
      BY <3>1, <3>2
    <3>4. \A v \in Scanners \ {u} : Owns(v)' => proc'[v].range # proc'[u].range
      BY <1>1, <1>2, <3>1 DEF Exclusive
    <3>5. \A g \in Unissued' : proc'[u].range \notin Splits[g]
      BY <1>1, <1>4, <3>1 DEF Exclusive
    <3> QED BY <3>3, <3>4, <3>5
  <2>3. ASSUME NEW g \in Unissued' PROVE Splits[g] \cap issued'.ranges = {}
    <3>1. g \in Unissued /\ g # f /\ g \in Files
      BY <1>4, <2>3 DEF Unissued
    <3>2. Splits[g] \cap issued.ranges = {} /\ Splits[g] \cap Splits[f] = {}
      BY <1>1, <3>1, ScanAssumption DEF Exclusive
    <3> QED BY <3>2
  <2> QED BY <2>1, <2>2, <2>3 DEF Exclusive
<1>8. Counts'
  <2>1. Unissued' \in SUBSET (Unissued \ {f}) /\ Left' \in SUBSET Left
        /\ Marking' \in SUBSET (Marking \cup {p})
    BY <1>4, <1>5, <1>6
  <2>2. /\ IsFiniteSet(Unissued \ {f}) /\ Cardinality(Unissued \ {f}) = Cardinality(Unissued) - 1
    BY Finite, FS_RemoveElement
  <2>3. p \notin Marking
    BY DEF Marking
  <2>4. /\ IsFiniteSet(Marking \cup {p}) /\ Cardinality(Marking \cup {p}) = Cardinality(Marking) + 1
    BY <2>3, Finite, FS_AddElement
  <2>5. /\ IsFiniteSet(Unissued') /\ Cardinality(Unissued') <= Cardinality(Unissued \ {f})
        /\ IsFiniteSet(Left') /\ Cardinality(Left') <= Cardinality(Left)
        /\ IsFiniteSet(Marking') /\ Cardinality(Marking') <= Cardinality(Marking \cup {p})
    BY <2>1, <2>2, <2>4, Finite, FS_Subset
  <2>6. /\ Cardinality(Unissued') \in Nat /\ Cardinality(Left') \in Nat
        /\ Cardinality(Marking') \in Nat
    BY <2>5, FS_CardinalityType
  <2>7. /\ Cardinality(Unissued) \in Nat /\ Cardinality(Left) \in Nat
        /\ Cardinality(Marking) \in Nat /\ Cardinality(SplitsOf(Files)) \in Nat
    BY Finite
  <2>8. /\ Cardinality(Unissued) + Cardinality(Marking) <= node.unqueued
        /\ Cardinality(Left) + node.complete <= Cardinality(SplitsOf(Files))
    BY DEF Inv, Counts
  <2>9. node.unqueued \in Nat /\ node.complete \in Nat
    BY Types
  <2>10. /\ Cardinality(Unissued') + Cardinality(Marking') <= node'.unqueued
         /\ Cardinality(Left') + node'.complete <= Cardinality(SplitsOf(Files))
    BY <2>2, <2>4, <2>5, <2>6, <2>7, <2>8, <2>9, SMT
  <2> QED BY <2>10 DEF Counts
<1> QED BY <1>7, <1>8

-------------------------------------------------------------------------------
(* The batches with rows in the queue *)

\* A batch at the end adds itself.
LEMMA RowsAppend ==
    ASSUME NEW queue \in Seq(BOOLEAN), NEW rows \in BOOLEAN
    PROVE  /\ IsFiniteSet(RowsOf(queue)) /\ Cardinality(RowsOf(queue)) \in Nat
           /\ rows => Cardinality(RowsOf(Append(queue, rows))) = Cardinality(RowsOf(queue)) + 1
           /\ ~rows => Cardinality(RowsOf(Append(queue, rows))) = Cardinality(RowsOf(queue))
<1> DEFINE n == Len(queue)
<1>1. n \in Nat /\ DOMAIN queue = 1 .. n
  BY SMT
<1>2. DOMAIN Append(queue, rows) = 1 .. n + 1
  BY SMT
<1>3. \A i \in 1 .. n : Append(queue, rows)[i] = queue[i]
  BY SMT
<1>4. Append(queue, rows)[n + 1] = rows
  BY SMT
<1>5. IsFiniteSet(RowsOf(queue)) /\ Cardinality(RowsOf(queue)) \in Nat
  <2>1. RowsOf(queue) \in SUBSET (1 .. n)
    BY <1>1 DEF RowsOf
  <2>2. IsFiniteSet(1 .. n)
    BY <1>1, FS_Interval, SMT
  <2> QED BY <2>1, <2>2, FS_Subset, FS_CardinalityType
<1>6. 1 .. n + 1 = (1 .. n) \cup {n + 1} /\ n + 1 \notin 1 .. n
  BY <1>1, SMT
<1> HIDE DEF n
<1>7. CASE rows
  <2>1. RowsOf(Append(queue, rows)) = RowsOf(queue) \cup {n + 1} /\ n + 1 \notin RowsOf(queue)
    BY <1>1, <1>2, <1>3, <1>4, <1>6, <1>7 DEF RowsOf
  <2> QED BY <1>5, <1>7, <2>1, FS_AddElement
<1>8. CASE ~rows
  <2>1. RowsOf(Append(queue, rows)) = RowsOf(queue)
    BY <1>1, <1>2, <1>3, <1>4, <1>6, <1>8 DEF RowsOf
  <2> QED BY <1>5, <1>8, <2>1
<1> QED BY <1>5, <1>7, <1>8

\* A batch at the front takes itself away.
LEMMA RowsTail ==
    ASSUME NEW queue \in Seq(BOOLEAN), queue # <<>>
    PROVE  /\ Cardinality(RowsOf(Tail(queue))) \in Nat
           /\ Head(queue) => Cardinality(RowsOf(queue)) = Cardinality(RowsOf(Tail(queue))) + 1
           /\ ~Head(queue) => Cardinality(RowsOf(queue)) = Cardinality(RowsOf(Tail(queue)))
<1> DEFINE n == Len(queue)
           S == RowsOf(queue) \ {1}
           T == RowsOf(Tail(queue))
           f == [i \in S |-> i - 1]
<1>1. n \in Nat /\ n > 0 /\ DOMAIN queue = 1 .. n /\ DOMAIN Tail(queue) = 1 .. n - 1
      /\ Head(queue) = queue[1]
  BY SMT
<1>2. \A i \in 1 .. n - 1 : Tail(queue)[i] = queue[i + 1]
  BY SMT
<1>3. S \subseteq 2 .. n
  BY <1>1, SMT DEF RowsOf
<1>4. \A i \in S : i \in Int /\ i - 1 \in 1 .. n - 1 /\ (i - 1) + 1 = i
  BY <1>1, <1>3, SMT
<1>5. \A i \in S : i - 1 \in T
  <2> SUFFICES ASSUME NEW i \in S PROVE i - 1 \in T
    OBVIOUS
  <2>1. queue[i] = TRUE /\ i - 1 \in 1 .. n - 1 /\ (i - 1) + 1 = i
    BY <1>4 DEF RowsOf
  <2>2. Tail(queue)[i - 1] = queue[i]
    BY <1>2, <2>1
  <2> QED BY <1>1, <2>1, <2>2 DEF RowsOf
<1>6. \A j \in T : j \in Int /\ j + 1 \in S /\ (j + 1) - 1 = j
  <2> SUFFICES ASSUME NEW j \in T PROVE j \in Int /\ j + 1 \in S /\ (j + 1) - 1 = j
    OBVIOUS
  <2>1. j \in 1 .. n - 1 /\ Tail(queue)[j] = TRUE
    BY <1>1 DEF RowsOf
  <2>2. j \in Int /\ j + 1 \in 1 .. n /\ j + 1 # 1 /\ (j + 1) - 1 = j
    BY <1>1, <2>1, SMT
  <2>3. queue[j + 1] = TRUE
    BY <1>2, <2>1
  <2> QED BY <1>1, <2>2, <2>3 DEF RowsOf
<1>7. f \in Bijection(S, T)
  <2> HIDE DEF S, T
  <2>1. f \in [S -> T]
    BY <1>5
  <2>2. \A i, k \in S : f[i] = f[k] => i = k
    BY <1>4, SMT
  <2>3. \A j \in T : \E i \in S : f[i] = j
    BY <1>6
  <2>4. DOMAIN f = S
    OBVIOUS
  <2> HIDE DEF f
  <2> QED BY <2>1, <2>2, <2>3, <2>4 DEF Bijection, Injection, Surjection, IsInjective
<1>8. IsFiniteSet(RowsOf(queue))
  BY RowsAppend
<1>9. IsFiniteSet(S) /\ Cardinality(S) =
          IF 1 \in RowsOf(queue) THEN Cardinality(RowsOf(queue)) - 1 ELSE Cardinality(RowsOf(queue))
  BY <1>8, FS_RemoveElement
<1>10. IsFiniteSet(T) /\ Cardinality(T) = Cardinality(S)
  <2>1. ExistsBijection(S, T)
    BY <1>7 DEF ExistsBijection
  <2> QED BY <1>9, <2>1, FS_Bijection
<1>11. 1 \in RowsOf(queue) <=> Head(queue) = TRUE
  <2>1. 1 \in 1 .. n
    BY <1>1, SMT
  <2> QED BY <1>1, <2>1 DEF RowsOf
<1>12. Head(queue) \in BOOLEAN
  BY SMT
<1>13. Cardinality(T) \in Nat /\ Cardinality(RowsOf(queue)) \in Nat
  BY <1>8, <1>10, FS_CardinalityType
<1> HIDE DEF S, T, f, n
<1>14. CASE Head(queue) = TRUE
  <2>1. Cardinality(T) = Cardinality(RowsOf(queue)) - 1
    BY <1>9, <1>10, <1>11, <1>14
  <2>2. Cardinality(RowsOf(queue)) = Cardinality(T) + 1
    BY <1>13, <2>1, SMT
  <2> QED BY <1>13, <1>14, <2>2 DEF T
<1>15. CASE Head(queue) # TRUE
  <2>1. Cardinality(T) = Cardinality(RowsOf(queue))
    BY <1>9, <1>10, <1>11, <1>15
  <2> QED BY <1>13, <1>15, <2>1 DEF T
<1> QED BY <1>14, <1>15

-------------------------------------------------------------------------------
(* Files are issued and marked, and batches are added *)

\* AddDiskIoRanges of a header's file keeps the invariant.
LEMMA AddRangesKeeps ==
    ASSUME Inv, NEW t \in Scanners, AddRanges(t)
    PROVE  Inv'
<1>1. t \in Procs /\ t # Main /\ t \notin {Leaver, Mgr} /\ proc[t].pc = "add_ranges"
      /\ proc \in [Procs -> Proc] /\ seen \in Seen /\ issued \in Issued
  BY Types, Threads DEF AddRanges, At
<1>2. UNCHANGED <<node, pool, batches, seen, query, changes>>
  BY DEF AddRanges
<1>3. proc[t].range \in SequenceFiles /\ proc[t].range \in Ranges /\ proc[t].range \in Files
      /\ proc[t].range \notin SplitsOf(Files)
  BY <1>1, Names DEF Inv, ProcsOK, ProcOK, Opening
<1>4. Works(proc[t].pc) /\ proc[t].pc # "off" /\ Opens(t) /\ Owns(t)
  BY <1>1 DEF Works, Owns, Opens, Opening
<1>5. "mark" \in Pcs /\ "final" \in Pcs
  BY DEF Pcs, ScannerPcs
<1>6. CASE issued.cancelled
  <2>1. Go(t, "final") /\ UNCHANGED issued
    BY <1>6 DEF AddRanges
  <2>2. /\ proc' \in [Procs -> Proc] /\ Others(t) /\ Same(t) /\ proc'[t].pc = "final"
    BY <1>1, <1>5, <2>1, GoFacts
  <2> QED BY <1>1, <1>2, <1>3, <1>4, <2>1, <2>2, OwnStep DEF Same
<1>7. CASE ~issued.cancelled
  <2> DEFINE f == proc[t].range
  <2>1. /\ Call(t, "mark", "final")
        /\ issued' = [issued EXCEPT !.ranges = @ \cup Splits[f]]
    BY <1>7 DEF AddRanges
  <2>2. /\ proc' \in [Procs -> Proc] /\ Others(t) /\ Same(t) /\ proc'[t].pc = "mark"
        /\ proc'[t].ret = "final"
    BY <1>1, <1>5, <2>1, CallFacts
  <2>3. Splits[f] \subseteq Ranges
    BY <1>3, Names
  <2>4. /\ issued' \in Issued /\ issued'.ranges = issued.ranges \cup Splits[f]
        /\ issued'.cancelled = issued.cancelled
    BY <1>1, <2>1, <2>3, SMT DEF Issued
  <2>5. Works(proc'[t].pc) /\ ~Owns(t)'
        /\ proc'[t].pc \notin {"cancel", "shutdown", "get", "set_done", "range", "status"}
    BY <2>2 DEF Works, Owns, Opens, Opening, Owning
  <2>6. f \in Unissued /\ f \notin Todo /\ f \notin issued.ranges
    BY <1>3, <1>4 DEF Unissued, Inv, Exclusive
  <2>7. Todo' = Todo
    BY <1>1, <2>2, Threads DEF Todo, Others
  <2>8. Exclusive' /\ Counts'
    <3>1. ASSUME NEW u \in Scanners, Owns(u)' PROVE u # t /\ proc[u].range # f
      <4>1. u # t
        BY <2>5, <3>1
      <4>2. Owns(u)
        BY <2>2, <3>1, <4>1, Threads DEF Owns, Opens, Others
      <4> QED BY <1>4, <4>1, <4>2 DEF Inv, Exclusive
    <3>2. proc[t].pc # "mark"
      BY <1>1
    <3> QED BY <1>2, <1>3, <2>2, <2>4, <2>6, <2>7, <3>1, <3>2, IssueFile
  <2>9. TypeOK'
    BY <1>2, <2>2, <2>4, Types DEF TypeOK
  <2>10. ProcsOK'
    <3>1. ProcOK(t)'
      BY <1>1, <1>3, <2>2 DEF ProcOK, ScannerPcs, Ending, Opening, Owning, Same
    <3> QED BY <1>1, <2>2, <3>1, ProcsFrame DEF Inv
  <2>11. LockOK' /\ TokensOK' /\ ScanOK'
    BY <1>2, <1>4, <2>2, <2>5, ScannerGoesOn
  <2>12. CloseOK'
    BY <1>1, <1>2, <1>4, <2>2, CloseFrame DEF Inv
  <2>13. Snapshots' /\ AllStartedIsStarted'
    <3>1. node.unqueued # 0
      <4>1. Counts /\ node.unqueued \in Int /\ node.complete \in Nat
        BY Types DEF Inv, Node
      <4> QED BY <2>6, <4>1, NothingLeft
    <3>2. AllStartedIsStarted'
      BY <1>2, <3>1 DEF Inv, AllStartedIsStarted
    <3>3. ASSUME NEW u \in Scanners PROVE SnapshotOK(u)'
      <4>1. CASE u = t
        BY <2>5, <4>1 DEF SnapshotOK
      <4>2. CASE u # t
        <5>1. proc'[u] = proc[u] /\ SnapshotOK(u)
          BY <2>2, <4>2, Threads DEF Others, Inv, Snapshots
        <5> QED BY <1>2, <3>1, <5>1 DEF SnapshotOK
      <4> QED BY <4>1, <4>2
    <3> QED BY <3>2, <3>3 DEF Snapshots
  <2>14. DoneOK' /\ EosIsComplete'
    BY <1>1, <1>2, <2>2, <2>4, <2>5, DoneFrame DEF Inv, Complete, Same
  <2> QED BY <2>8, <2>9, <2>10, <2>11, <2>12, <2>13, <2>14 DEF Inv
<1> QED BY <1>6, <1>7

\* MarkFileDescIssued keeps the invariant: the callback it goes on to is what SomebodyScans
\* asks for.
LEMMA MarkKeeps ==
    ASSUME Inv, NEW p \in Procs, MarkFileDescIssued(p)
    PROVE  Inv'
<1>1. p \in Scanners \cup {Main} /\ p \notin {Leaver, Mgr} /\ proc[p].pc = "mark"
      /\ proc \in [Procs -> Proc] /\ node \in Node
  BY Types, Threads DEF MarkFileDescIssued, At, Inv, ProcsOK, ProcOK, CallerPcs
<1>2. UNCHANGED <<pool, issued, batches, seen, query, changes>>
  BY DEF MarkFileDescIssued
<1>3. /\ proc' \in [Procs -> Proc] /\ Others(p) /\ Same(p) /\ proc'[p].pc = "cb"
      /\ proc'[p].ret = proc[p].ret
  <2>1. Go(p, "cb") /\ "cb" \in Pcs
    BY DEF MarkFileDescIssued, Pcs, ScannerPcs
  <2> QED BY <1>1, <2>1, GoFacts
<1>4. /\ node' \in Node /\ node'.unqueued = node.unqueued - 1
      /\ node'.done = node.done /\ node'.all_ranges_started = node.all_ranges_started
      /\ node'.complete = node.complete /\ node'.active = node.active /\ node'.owned = node.owned
  BY <1>1, SMT DEF Node, MarkFileDescIssued
<1>5. Works(proc[p].pc) /\ Works(proc'[p].pc)
  BY <1>1, <1>3 DEF Works
<1>6. TypeOK'
  BY <1>2, <1>3, <1>4, Types DEF TypeOK
<1>7. ProcsOK'
  <2>1. ProcOK(p)
    BY DEF Inv, ProcsOK
  <2>2. ProcOK(p)'
    BY <1>1, <1>3, <2>1
       DEF ProcOK, ScannerPcs, MainPcs, Ending, Opening, Owning, Same
  <2> QED BY <1>3, <2>2, ProcsFrame DEF Inv
<1>8. LockOK' /\ TokensOK'
  BY <1>1, <1>2, <1>3, <1>4, <1>5, LockFrame, TokensFrame DEF Inv, Works
<1>9. CloseOK'
  BY <1>1, <1>2, <1>3, <1>4, CloseFrame DEF Inv
<1>10. Exclusive' /\ Shrinks
  <2>1. ~Opens(p)' /\ ~Owns(p)' /\ proc'[p].pc # "mark"
    BY <1>3 DEF Opens, Owns, Opening, Owning
  <2> QED BY <1>2, <1>3, <2>1, OwnFrame DEF Inv, Same
<1>11. node.unqueued \in Nat /\ node.complete \in Nat /\ p \in Marking /\ p \notin Marking'
  BY <1>1, <1>3, Types DEF Marking
<1>12. Counts'
  <2>1. Unissued' \in SUBSET Unissued /\ Left' \in SUBSET Left /\ Marking' \in SUBSET (Marking \ {p})
    BY <1>10, <1>11 DEF Shrinks
  <2>2. /\ IsFiniteSet(Marking \ {p}) /\ Cardinality(Marking \ {p}) = Cardinality(Marking) - 1
    BY <1>11, Finite, FS_RemoveElement
  <2>3. /\ IsFiniteSet(Unissued') /\ Cardinality(Unissued') <= Cardinality(Unissued)
        /\ IsFiniteSet(Left') /\ Cardinality(Left') <= Cardinality(Left)
        /\ IsFiniteSet(Marking') /\ Cardinality(Marking') <= Cardinality(Marking \ {p})
    BY <2>1, <2>2, Finite, FS_Subset
  <2>4. /\ Cardinality(Unissued') \in Nat /\ Cardinality(Left') \in Nat
        /\ Cardinality(Marking') \in Nat
    BY <2>3, FS_CardinalityType
  <2>5. /\ Cardinality(Unissued) \in Nat /\ Cardinality(Left) \in Nat
        /\ Cardinality(Marking) \in Nat /\ Cardinality(SplitsOf(Files)) \in Nat
    BY Finite
  <2>6. /\ Cardinality(Unissued) + Cardinality(Marking) <= node.unqueued
        /\ Cardinality(Left) + node.complete <= Cardinality(SplitsOf(Files))
    BY DEF Inv, Counts
  <2>7. /\ Cardinality(Unissued') + Cardinality(Marking') <= node'.unqueued
        /\ Cardinality(Left') + node'.complete <= Cardinality(SplitsOf(Files))
    BY <1>4, <1>11, <2>2, <2>3, <2>4, <2>5, <2>6, SMT
  <2> QED BY <2>7 DEF Counts
<1>13. Snapshots' /\ AllStartedIsStarted'
  <2>1. node.unqueued # 0
    <3>1. Counts /\ node.unqueued \in Int
      BY <1>1 DEF Inv, Node
    <3> QED BY <1>11, <3>1, NothingLeft
  <2>2. AllStartedIsStarted'
    BY <1>4, <2>1 DEF Inv, AllStartedIsStarted
  <2>3. ASSUME NEW u \in Scanners PROVE SnapshotOK(u)'
    <3>1. CASE u = p
      BY <1>3, <3>1 DEF SnapshotOK
    <3>2. CASE u # p
      <4>1. proc'[u] = proc[u] /\ SnapshotOK(u) /\ proc[u] \in Proc
        BY <1>1, <1>3, <3>2, Threads DEF Others, Inv, Snapshots
      <4>2. proc[u].pc = "range" => node'.unqueued <= proc[u].unqueued
        <5>1. proc[u].unqueued \in Nat
          BY <4>1 DEF Proc
        <5>2. proc[u].pc = "range" => node.unqueued <= proc[u].unqueued
          BY <4>1 DEF SnapshotOK
        <5> QED BY <1>4, <1>11, <5>1, <5>2, SMT
      <4> QED BY <2>1, <4>1, <4>2 DEF SnapshotOK
    <3> QED BY <3>1, <3>2
  <2> QED BY <2>2, <2>3 DEF Snapshots
<1>14. DoneOK' /\ EosIsComplete'
  <2>1. p = Main => (MainCloses => MainCloses')
    BY <1>1 DEF MainCloses, Closing, Ending
  <2> QED BY <1>2, <1>3, <1>4, <2>1, DoneFrame DEF Inv, Complete, Same
<1>15. ScanOK'
  BY <1>3 DEF ScanOK, Coming
<1> QED BY <1>6, <1>7, <1>8, <1>9, <1>10, <1>12, <1>13, <1>14, <1>15 DEF Inv

\* AddMaterializedRowBatch keeps the invariant: a batch with rows that is put aside for
\* Cleanup comes from a split that was not complete, so the node was done for another reason.
LEMMA AddBatchKeeps ==
    ASSUME Inv, NEW t \in Scanners, NEW ret \in {"finish", "complete"},
           \/ proc[t].pc = "add_batch" /\ ret = "finish"
           \/ proc[t].pc = "final" /\ ret = "complete",
           AddBatch(t, ret)
    PROVE  Inv'
\* A thread that has a split makes the scan incomplete.
<1>left. ASSUME Owns(t), proc[t].range \in SplitsOf(Files)
         PROVE  ~Complete
  <2> USE <1>left
  <2>1. Left # {}
    BY DEF Left
  <2>2. Counts /\ node.unqueued \in Int /\ node.complete \in Nat
    BY Types DEF Inv, Node
  <2> QED BY <2>1, <2>2, NothingLeft
<1>1. t \in Procs /\ t # Main /\ t \notin {Leaver, Mgr} /\ ret \in Pcs
      /\ proc \in [Procs -> Proc] /\ seen \in Seen /\ batches \in Batches /\ node \in Node
  BY Types, Threads DEF Pcs, ScannerPcs
<1>2. UNCHANGED <<pool, issued, query, changes>>
  BY DEF AddBatch
<1>3. /\ proc' \in [Procs -> Proc] /\ Others(t) /\ Same(t) /\ proc'[t].pc = ret
  <2>1. Go(t, ret)
    BY DEF AddBatch
  <2> QED BY <1>1, <2>1, GoFacts
<1>4. /\ HasRows(t) \in BOOLEAN /\ batches' \in Batches /\ node' \in Node /\ seen' \in Seen
      /\ batches'.shutdown = batches.shutdown
      /\ batches.shutdown => batches'.queue = batches.queue
      /\ ~batches.shutdown => batches'.queue = Append(batches.queue, HasRows(t))
      /\ Len(batches'.queue) + batches'.cleanup = Len(batches.queue) + batches.cleanup + 1
      /\ node'.owned = node.owned + 1 /\ node'.done = node.done
      /\ node'.all_ranges_started = node.all_ranges_started
      /\ node'.active = node.active
      /\ node'.unqueued = node.unqueued /\ node'.complete = node.complete
      /\ seen'.errors = seen.errors /\ seen'.returned = seen.returned
      /\ seen'.last = seen.last
      /\ HasRows(t) => seen'.made = seen.made + 1
      /\ ~HasRows(t) => seen'.made = seen.made
  <2>1. HasRows(t) \in BOOLEAN
    BY DEF HasRows
  <2>2. batches \in Batches /\ node \in Node /\ seen \in Seen
    BY Types
  <2>3. /\ node' \in Node /\ node'.owned = node.owned + 1 /\ node'.done = node.done
        /\ node'.all_ranges_started = node.all_ranges_started
        /\ node'.active = node.active
        /\ node'.unqueued = node.unqueued /\ node'.complete = node.complete
    BY <2>2, SMT DEF AddBatch, Node
  <2>4. /\ seen' \in Seen /\ seen'.errors = seen.errors /\ seen'.returned = seen.returned
        /\ seen'.last = seen.last
        /\ HasRows(t) => seen'.made = seen.made + 1
        /\ ~HasRows(t) => seen'.made = seen.made
    BY <2>2, SMT DEF AddBatch, Seen
  <2>5. /\ batches' \in Batches /\ batches'.shutdown = batches.shutdown
        /\ batches.shutdown => batches'.queue = batches.queue
        /\ ~batches.shutdown => batches'.queue = Append(batches.queue, HasRows(t))
        /\ Len(batches'.queue) + batches'.cleanup = Len(batches.queue) + batches.cleanup + 1
    <3>1. batches.queue \in Seq(BOOLEAN) /\ batches.cleanup \in Nat /\ batches.shutdown \in BOOLEAN
      BY <2>2 DEF Batches
    <3>2. CASE batches.shutdown
      <4>1. batches' = [batches EXCEPT !.cleanup = @ + 1]
        BY <3>2 DEF AddBatch
      <4>2. /\ batches' \in Batches /\ batches'.shutdown = batches.shutdown
            /\ batches'.queue = batches.queue /\ batches'.cleanup = batches.cleanup + 1
        BY <2>2, <4>1, SMT DEF Batches
      <4>3. Len(batches.queue) \in Nat
        BY <3>1, SMT
      <4>4. Len(batches'.queue) + batches'.cleanup = Len(batches.queue) + batches.cleanup + 1
        BY <3>1, <4>2, <4>3, SMT
      <4> QED BY <3>2, <4>2, <4>4
    <3>3. CASE ~batches.shutdown
      <4>1. batches' = [batches EXCEPT !.queue = Append(@, HasRows(t))]
        BY <3>3 DEF AddBatch
      <4>2. /\ Append(batches.queue, HasRows(t)) \in Seq(BOOLEAN)
            /\ Len(Append(batches.queue, HasRows(t))) = Len(batches.queue) + 1
            /\ Len(batches.queue) \in Nat
        BY <2>1, <3>1, SMT
      <4>3. /\ batches' \in Batches /\ batches'.shutdown = batches.shutdown
            /\ batches'.cleanup = batches.cleanup
            /\ batches'.queue = Append(batches.queue, HasRows(t))
        BY <2>2, <4>1, <4>2, SMT DEF Batches
      <4>4. /\ Len(batches'.queue) = Len(batches.queue) + 1 /\ Len(batches.queue) \in Nat
            /\ batches'.cleanup = batches.cleanup
        BY <4>2, <4>3
      <4>5. Len(batches'.queue) + batches'.cleanup = Len(batches.queue) + batches.cleanup + 1
        BY <3>1, <4>4, SMT
      <4> QED BY <3>3, <4>3, <4>5
    <3> QED BY <3>2, <3>3
  <2> QED BY <2>1, <2>3, <2>4, <2>5
<1>5. Works(proc[t].pc) /\ Works(proc'[t].pc) /\ proc[t].pc # "off" /\ proc[t].pc \in Owning
      /\ proc'[t].pc \notin {"mark", "range", "status", "cancel", "shutdown", "set_done"}
      /\ proc'[t].pc \in Owning
  BY <1>3 DEF Works, Owning
<1>6. proc[t].range \in Ranges /\ (proc'[t].pc = "finish" => proc[t].range \in SplitsOf(Files))
  BY <1>1, <1>3, <1>5 DEF Inv, ProcsOK, ProcOK
<1>7. HasRows(t) => ~Complete
  <2>1. HasRows(t) => Owns(t) /\ proc[t].range \in SplitsOf(Files)
    BY <1>5, <1>6 DEF HasRows, Owns, Ranges
  <2> QED BY <2>1, <1>left
<1>8. TypeOK'
  BY <1>2, <1>3, <1>4, Types DEF TypeOK
<1>9. ProcsOK'
  <2>1. ProcOK(t)'
    BY <1>1, <1>3, <1>6 DEF ProcOK, ScannerPcs, Ending, Opening, Owning, Same
  <2> QED BY <1>1, <1>3, <2>1, ProcsFrame DEF Inv
<1>10. LockOK' /\ TokensOK' /\ ScanOK'
  BY <1>2, <1>3, <1>4, <1>5, ScannerGoesOn
<1>11. proc'[Main] = proc[Main]
  BY <1>1, <1>3, Threads DEF Others
<1>12. CloseOK'
  <2>1. proc[Main].pc \notin {"cleanup", "closed"} /\ proc[Main].pc # "closed"
    BY <1>5 DEF Inv, CloseOK
  <2>2. node.owned = Len(batches.queue) + batches.cleanup
    BY DEF Inv, CloseOK
  <2>3. node'.owned = Len(batches'.queue) + batches'.cleanup
    BY <1>4, <2>2
  <2> QED BY <1>2, <1>11, <2>1, <2>3 DEF Inv, CloseOK
<1>13. Exclusive' /\ Shrinks
  <2>1. ~Opens(t)' /\ (Owns(t)' => Owns(t)) /\ proc'[t].range = proc[t].range
    BY <1>3, <1>5 DEF Opens, Owns, Opening, Same
  <2> QED BY <1>1, <1>2, <1>3, <1>5, <2>1, OwnFrame DEF Inv
<1>14. Counts'
  BY <1>4, <1>13, Types, CountsFrame DEF Inv
<1>15. Snapshots' /\ AllStartedIsStarted'
  <2>1. SnapshotOK(t)'
    BY <1>5 DEF SnapshotOK
  <2> QED BY <1>1, <1>2, <1>3, <1>4, <2>1, SnapshotsFrame DEF Inv
<1>16. DoneOK' /\ EosIsComplete'
  <2>1. DoneOK /\ EosIsComplete
    BY DEF Inv
  <2>2. ASSUME NEW q \in Scanners \cup {Main}, q # t
        PROVE  proc'[q] = proc[q]
    BY <1>1, <1>3, <2>2, Threads DEF Others
  <2>3. (Excused' <=> Excused) /\ (Complete' <=> Complete)
    BY <1>2, <1>4, <1>11 DEF Excused, Complete, ReachedLimit, MainCloses
  <2>4. EosIsComplete'
    BY <1>4, <1>7, <2>1 DEF EosIsComplete, Complete
  <2>5. Excused' \/ seen'.made = seen'.returned + Cardinality(Rows')
    <3>1. CASE Excused
      BY <2>3, <3>1
    <3>2. CASE ~Excused
      <4>1. seen.made = seen.returned + Cardinality(RowsOf(batches.queue))
        BY <2>1, <3>2 DEF DoneOK, Rows
      <4>2. batches.shutdown => ~HasRows(t)
        BY <1>7, <2>1, <3>2 DEF DoneOK
      <4>3. batches.queue \in Seq(BOOLEAN) /\ seen.made \in Nat /\ seen.returned \in Nat
        BY <1>1 DEF Batches, Seen
      <4>4. CASE batches.shutdown
        BY <1>4, <4>1, <4>2, <4>4 DEF Rows
      <4>5. CASE ~batches.shutdown
        <5> DEFINE old == Cardinality(RowsOf(batches.queue))
                   new == Cardinality(RowsOf(batches'.queue))
        <5>1. /\ old \in Nat
              /\ HasRows(t) => new = old + 1
              /\ ~HasRows(t) => new = old
          BY <1>4, <4>3, <4>5, RowsAppend
        <5>2. seen.made = seen.returned + old
          BY <4>1
        <5> HIDE DEF old, new
        <5>3. seen'.made = seen'.returned + new
          <6>1. \/ seen'.made = seen.made + 1 /\ new = old + 1
                \/ seen'.made = seen.made /\ new = old
            BY <1>4, <5>1
          <6>2. seen'.returned = seen.returned
            BY <1>4
          <6> QED BY <4>3, <5>1, <5>2, <6>1, <6>2, SMT
        <5> QED BY <5>3 DEF new, Rows
      <4> QED BY <4>4, <4>5
    <3> QED BY <3>1, <3>2
  <2>6. issued'.cancelled \/ batches'.shutdown => node'.done
    BY <1>2, <1>4, <2>1 DEF DoneOK
  <2>7. \A q \in Scanners \cup {Main} : proc'[q].pc \in {"cancel", "shutdown"} => node'.done
    BY <1>4, <1>5, <2>1, <2>2 DEF DoneOK
  <2>8. \A u \in Scanners : proc'[u].status = "ERROR" => seen'.errors > 0
    BY <1>3, <1>4, <2>1, <2>2 DEF DoneOK, Same
  <2>9. \A q \in Scanners \cup {Main} : proc'[q].pc = "set_done" => Excused' \/ Complete'
    BY <1>5, <2>1, <2>2, <2>3 DEF DoneOK
  <2>10. node'.done => Excused' \/ Complete'
    BY <1>4, <2>1, <2>3 DEF DoneOK
  <2>11. proc'[Main].pc = "get" => ~ReachedLimit' /\ seen'.last = "more"
    BY <1>2, <1>4, <1>11, <2>1 DEF DoneOK, ReachedLimit
  <2> QED BY <2>4, <2>5, <2>6, <2>7, <2>8, <2>9, <2>10, <2>11 DEF DoneOK
<1> QED BY <1>8, <1>9, <1>10, <1>12, <1>13, <1>14, <1>15, <1>16 DEF Inv

-------------------------------------------------------------------------------
(* The end of a pass, and the end of a thread *)

\* The end of a pass keeps the invariant: a thread sets all_ranges_started_ when it saw no
\* unqueued file before it found no range.
LEMMA StatusKeeps ==
    ASSUME Inv, NEW t \in Scanners, Status(t)
    PROVE  Inv'
\* A thread at the end of a pass goes on, leaves or ends the scan for a reason.
<1>ends. ASSUME proc[t].pc = "status", Others(t), proc' \in [Procs -> Proc],
                proc'[t].pc \in {"leave", "top", "set_done"},
                proc'[t].pc = "set_done" => proc'[t].ret = "leave" /\ (Excused \/ Complete),
                proc'[t].status = "ERROR" => proc[t].status = "ERROR",
                node' \in Node, node'.done = node.done, node'.active = node.active,
                node'.owned = node.owned, node'.unqueued = node.unqueued,
                node'.complete = node.complete, AllStartedIsStarted',
                UNCHANGED <<pool, issued, batches, seen, query, changes>>
         PROVE  Inv'
  <2> USE <1>ends
  <2>1. t \in Procs /\ t # Main /\ t \notin {Leaver, Mgr} /\ seen \in Seen
    BY Types, Threads
  <2>2. Works(proc[t].pc) /\ Works(proc'[t].pc) /\ ~Opens(t)' /\ ~Owns(t)'
        /\ proc'[t].pc \notin {"mark", "range", "status", "cancel", "shutdown", "get"}
    BY DEF Works, Opens, Owns, Opening, Owning
  <2>3. ProcOK(t)'
    BY <2>1 DEF ProcOK, ScannerPcs, Ending, Opening, Owning
  <2>4. Snapshots'
    <3> SUFFICES ASSUME NEW u \in Scanners PROVE SnapshotOK(u)'
      BY DEF Snapshots
    <3>1. CASE u = t
      BY <2>2, <3>1 DEF SnapshotOK
    <3>2. CASE u # t
      <4>1. proc'[u] = proc[u] /\ SnapshotOK(u)
        BY <3>2, Threads DEF Others, Inv, Snapshots
      <4> QED BY <4>1 DEF SnapshotOK
    <3> QED BY <3>1, <3>2
  <2>5. DoneOK' /\ EosIsComplete'
    <3>1. proc'[Main] = proc[Main]
      BY <2>1, Threads DEF Others
    <3>2. (Excused => Excused') /\ (Complete => Complete')
      BY <3>1 DEF Excused, Complete, ReachedLimit, MainCloses
    <3> QED BY <2>1, <2>2, <3>2, DoneFrame DEF Inv
  <2> QED BY <2>1, <2>2, <2>3, <2>4, <2>5, LocalStep
<1>1. t \in Procs /\ proc[t].pc = "status" /\ proc \in [Procs -> Proc] /\ node \in Node
      /\ node.complete \in Nat /\ Cardinality(SplitsOf(Files)) \in Nat
  BY Types, Threads, Finite DEF Status, At
<1>2. UNCHANGED <<pool, issued, batches, seen, query, changes>>
  BY DEF Status
<1>3. "leave" \in Pcs /\ "top" \in Pcs /\ "set_done" \in Pcs
  BY DEF Pcs, ScannerPcs
<1>4. AllStartedIsStarted /\ DoneOK /\ SnapshotOK(t)
  BY DEF Inv, Snapshots
<1>5. ASSUME UNCHANGED node, NEW pc \in {"leave", "top"}, Start(t, pc) PROVE Inv'
  <2>1. proc' \in [Procs -> Proc] /\ Others(t) /\ Fresh(t, pc)
    BY <1>1, <1>3, <1>5, StartFacts
  <2>2. AllStartedIsStarted'
    BY <1>2, <1>4, <1>5 DEF AllStartedIsStarted
  <2> QED BY <1>1, <1>2, <1>5, <2>1, <2>2, <1>ends DEF Fresh
<1>6. ASSUME Call(t, "set_done", "leave"), Excused \/ Complete,
             UNCHANGED node \/ node' = [node EXCEPT !.status = proc[t].status]
      PROVE  Inv'
  <2>1. /\ proc' \in [Procs -> Proc] /\ Others(t) /\ Same(t)
        /\ proc'[t].pc = "set_done" /\ proc'[t].ret = "leave"
    BY <1>1, <1>3, <1>6, CallFacts
  <2>2. /\ node' \in Node /\ node'.done = node.done /\ node'.active = node.active
        /\ node'.owned = node.owned /\ node'.unqueued = node.unqueued
        /\ node'.complete = node.complete
        /\ node'.all_ranges_started = node.all_ranges_started
    <3>1. proc[t].status \in {"OK", "CANCELLED", "ERROR"}
      BY <1>1 DEF Proc
    <3>2. CASE UNCHANGED node
      BY <1>1, <3>2
    <3>3. CASE node' = [node EXCEPT !.status = proc[t].status]
      BY <1>1, <3>1, <3>3, SMT DEF Node
    <3> QED BY <1>6, <3>2, <3>3
  <2>3. AllStartedIsStarted'
    BY <1>2, <1>4, <2>2 DEF AllStartedIsStarted
  <2> QED BY <1>1, <1>2, <1>6, <2>1, <2>2, <2>3, <1>ends DEF Same
<1>7. ASSUME proc[t].status = "OK", proc[t].range = None, proc[t].unqueued = 0, Start(t, "leave"),
             node' = [node EXCEPT !.all_ranges_started = TRUE]
      PROVE  Inv'
  <2>1. proc' \in [Procs -> Proc] /\ Others(t) /\ Fresh(t, "leave")
    BY <1>1, <1>3, <1>7, StartFacts
  <2>2. /\ node' \in Node /\ node'.done = node.done /\ node'.active = node.active
        /\ node'.owned = node.owned /\ node'.unqueued = node.unqueued
        /\ node'.complete = node.complete
    BY <1>1, <1>7 DEF Node
  <2>3. AllStartedIsStarted'
    BY <1>1, <1>2, <1>4, <1>7, <2>2 DEF AllStartedIsStarted, SnapshotOK
  <2> QED BY <1>1, <1>2, <2>1, <2>2, <2>3, <1>ends DEF Fresh
<1>8. CASE proc[t].status # "OK"
  <2>1. CASE node.status # "OK" \/ proc[t].status = "CANCELLED"
    <3>1. Start(t, "leave") /\ UNCHANGED node
      BY <1>8, <2>1 DEF Status
    <3> QED BY <1>5, <3>1
  <2>2. CASE ~(node.status # "OK" \/ proc[t].status = "CANCELLED")
    <3>1. Call(t, "set_done", "leave") /\ node' = [node EXCEPT !.status = proc[t].status]
      BY <1>8, <2>2 DEF Status
    <3>2. proc[t].status = "ERROR"
      BY <1>1, <1>8, <2>2 DEF Proc
    <3>3. Excused
      BY <1>4, <3>2 DEF DoneOK, Excused
    <3> QED BY <1>6, <3>1, <3>3
  <2> QED BY <2>1, <2>2
<1>9. CASE proc[t].status = "OK" /\ Remaining = 0
  <2>1. Call(t, "set_done", "leave") /\ UNCHANGED node
    BY <1>9 DEF Status
  <2>2. Complete
    BY <1>1, <1>9, SMT DEF Complete, Remaining
  <2> QED BY <1>6, <2>1, <2>2
<1>10. CASE proc[t].status = "OK" /\ Remaining # 0
  <2>1. CASE proc[t].range = None /\ proc[t].unqueued = 0
    <3>1. Start(t, "leave") /\ node' = [node EXCEPT !.all_ranges_started = TRUE]
      BY <1>10, <2>1 DEF Status
    <3> QED BY <1>7, <1>10, <2>1, <3>1
  <2>2. CASE ~(proc[t].range = None /\ proc[t].unqueued = 0)
    <3>1. Start(t, "top") /\ UNCHANGED node
      BY <1>10, <2>2 DEF Status
    <3> QED BY <1>5, <3>1
  <2> QED BY <2>1, <2>2
<1> QED BY <1>8, <1>9, <1>10

\* A step that touches neither ranges nor batches: what is left are the lock, the tokens, what
\* Close waits for and what SomebodyScans asks for.
LEMMA QuietStep ==
    ASSUME Inv, NEW p \in Procs, Others(p), proc' \in [Procs -> Proc], ProcOK(p)',
           node' \in Node, node'.done = node.done,
           node'.all_ranges_started = node.all_ranges_started,
           node'.unqueued = node.unqueued, node'.complete = node.complete,
           pool' \in Pool, changes' \in Nat, UNCHANGED <<issued, batches, seen, query>>,
           p \in Scanners => /\ ~Opens(p)' /\ ~Owns(p)' /\ SnapshotOK(p)'
                             /\ proc'[p].status = "ERROR" => proc[p].status = "ERROR",
           p = Main => proc'[p].todo \subseteq proc[p].todo /\ (MainCloses => MainCloses'),
           p \in Scanners \cup {Main} =>
               /\ proc'[p].pc \notin {"mark", "cancel", "shutdown", "get"}
               /\ proc'[p].pc = "set_done" => Excused' \/ Complete',
           LockOK', TokensOK', CloseOK', ScanOK'
    PROVE  Inv'
<1>1. TypeOK'
  BY Types DEF TypeOK
<1>2. ProcsOK'
  BY ProcsFrame DEF Inv
<1>3. Exclusive' /\ Shrinks
  BY OwnFrame DEF Inv
<1>4. Counts'
  BY <1>3, Types, CountsFrame DEF Inv
<1>5. Snapshots' /\ AllStartedIsStarted'
  BY SnapshotsFrame DEF Inv
<1>6. DoneOK' /\ EosIsComplete'
  BY DoneFrame DEF Inv, Complete
<1> QED BY <1>1, <1>2, <1>3, <1>4, <1>5, <1>6 DEF Inv

\* A thread on its way out has no range any more; only the tokens are left to account for.
LEMMA ThreadEnds ==
    ASSUME Inv, NEW t \in Scanners, proc[t].pc \in {"leave", "release", "available"},
           Others(t), proc' \in [Procs -> Proc], proc'[t].pc \in {"release", "available", "off"},
           proc'[t].status = proc[t].status, node' \in Node, node'.done = node.done,
           node'.all_ranges_started = node.all_ranges_started,
           node'.unqueued = node.unqueued, node'.complete = node.complete,
           pool' \in Pool, pool'.lock = pool.lock,
           UNCHANGED <<issued, batches, seen, query, changes>>,
           TokensOK', CloseOK', ScanOK'
    PROVE  Inv'
<1>1. t \in Procs /\ t # Main /\ t \notin {Leaver, Mgr}
  BY Threads
<1>2. /\ proc'[t].pc \notin {"mark", "range", "status", "cancel", "shutdown", "get", "set_done"}
      /\ ~Opens(t)' /\ ~Owns(t)'
  BY DEF Opens, Owns, Opening, Owning
<1>3. ProcOK(t)' /\ SnapshotOK(t)'
  BY <1>1, <1>2 DEF ProcOK, ScannerPcs, Ending, Opening, Owning, SnapshotOK
<1>4. LockOK'
  BY <1>1, LockFrame DEF Inv
<1>5. changes' \in Nat
  BY Types
<1> QED BY <1>1, <1>2, <1>3, <1>4, <1>5, QuietStep

\* A thread no longer counts as active.
LEMMA LeaveKeeps ==
    ASSUME Inv, NEW t \in Scanners, Leave(t)
    PROVE  Inv'
<1>1. t \in Procs /\ t # Main /\ proc[t].pc = "leave" /\ proc \in [Procs -> Proc] /\ node \in Node
      /\ pool \in Pool
  BY Types, Threads DEF Leave, At
<1>2. UNCHANGED <<pool, issued, batches, seen, query, changes>>
  BY DEF Leave
<1>3. proc' \in [Procs -> Proc] /\ Others(t) /\ Same(t) /\ proc'[t].pc = "release"
  <2>1. Go(t, "release") /\ "release" \in Pcs
    BY DEF Leave, Pcs, ScannerPcs
  <2> QED BY <1>1, <2>1, GoFacts
<1>4. /\ node' \in Node /\ node'.done = node.done /\ node'.owned = node.owned
      /\ node'.all_ranges_started = node.all_ranges_started
      /\ node'.unqueued = node.unqueued /\ node'.complete = node.complete
      /\ node'.active = node.active - 1
  BY <1>1, SMT DEF Leave, Node
<1>5. \A u \in Scanners : u # t => proc'[u] = proc[u]
  BY <1>3, Threads DEF Others
<1>6. TokensOK'
  <2>1. Active' = Active \ {t} /\ t \in Active
    BY <1>1, <1>3, <1>5 DEF Active
  <2>2. Tokens' = Tokens
    BY <1>1, <1>3, <1>5 DEF Tokens
  <2>3. Cardinality(Active') = Cardinality(Active) - 1
    BY <2>1, Finite, FS_RemoveElement
  <2> QED BY <1>2, <1>4, <2>2, <2>3 DEF Inv, TokensOK
<1>7. CloseOK'
  BY <1>1, <1>2, <1>3, <1>4, CloseFrame DEF Inv
<1>8. ScanOK'
  BY <1>3 DEF ScanOK, Coming
<1> QED BY <1>1, <1>2, <1>3, <1>4, <1>6, <1>7, <1>8, ThreadEnds DEF Same

\* A thread gives its token back.
LEMMA ReleaseKeeps ==
    ASSUME Inv, NEW t \in Scanners, ReleaseThreadToken(t)
    PROVE  Inv'
<1>1. t \in Procs /\ t # Main /\ proc[t].pc = "release" /\ proc \in [Procs -> Proc]
      /\ node \in Node /\ pool \in Pool
  BY Types, Threads DEF ReleaseThreadToken, At
<1>2. UNCHANGED <<node, issued, batches, seen, query, changes>>
  BY DEF ReleaseThreadToken
<1>3. proc' \in [Procs -> Proc] /\ Others(t) /\ Same(t) /\ proc'[t].pc = "available"
  <2>1. Go(t, "available") /\ "available" \in Pcs
    BY DEF ReleaseThreadToken, Pcs, ScannerPcs
  <2> QED BY <1>1, <2>1, GoFacts
<1>4. /\ pool' \in Pool /\ pool'.cb = pool.cb /\ pool'.lock = pool.lock
      /\ pool'.leavers = pool.leavers /\ pool'.optional = pool.optional - 1
  BY <1>1, SMT DEF ReleaseThreadToken, Pool
<1>5. \A u \in Scanners : u # t => proc'[u] = proc[u]
  BY <1>3, Threads DEF Others
<1>6. TokensOK'
  <2>1. Tokens' = Tokens \ {t} /\ t \in Tokens
    BY <1>1, <1>3, <1>5 DEF Tokens
  <2>2. Active' = Active
    BY <1>1, <1>3, <1>5 DEF Active
  <2>3. Cardinality(Tokens') = Cardinality(Tokens) - 1
    BY <2>1, Finite, FS_RemoveElement
  <2> QED BY <1>2, <1>4, <2>2, <2>3 DEF Inv, TokensOK
<1>7. CloseOK'
  BY <1>1, <1>2, <1>3, <1>4, CloseFrame DEF Inv
<1>8. ScanOK'
  BY <1>3 DEF ScanOK, Coming
<1> QED BY <1>1, <1>2, <1>3, <1>4, <1>6, <1>7, <1>8, ThreadEnds DEF Same

\* num_available_threads is the largest of its three numbers.
LEMMA AvailableThreads ==
    ASSUME pool \in Pool
    PROVE  /\ pool.optional < Reserved => num_available_threads > 0
           /\ pool.optional + 1 + Required <= pool.quota => num_available_threads > 0
<1> DEFINE a == pool.quota - (pool.optional + Required)
           b == Reserved - pool.optional
           S == {0, a, b}
<1>1. a \in Int /\ b \in Int /\ (pool.optional < Reserved => b > 0)
      /\ (pool.optional + 1 + Required <= pool.quota => a > 0)
  BY SMT DEF Pool, Reserved, Required
<1>2. num_available_threads = Max(S)
  BY DEF num_available_threads
<1> HIDE DEF a, b
<1>3. \E x \in S : \A y \in S : x >= y
  BY <1>1, SMT
<1>4. Max(S) \in S /\ \A y \in S : Max(S) >= y
  BY <1>3 DEF Max
<1>5. Max(S) \in Int /\ Max(S) >= a /\ Max(S) >= b
  BY <1>1, <1>4, SMT
<1> HIDE DEF S
<1> QED BY <1>1, <1>2, <1>5, SMT

\* A token that is not available is with a thread that is active or about to give it back.
LEMMA TokenHolder ==
    ASSUME Inv, pool.optional > 0
    PROVE  node.active > 0 \/ \E u \in Scanners : proc[u].pc = "release"
<1>1. TokensOK
  BY DEF Inv
<1>2. PICK u \in Scanners : proc[u].pc \notin {"off", "available"}
  BY <1>1, SomeToken DEF Tokens
<1>3. CASE proc[u].pc = "release"
  BY <1>3
<1>4. CASE proc[u].pc # "release"
  <2>1. Active # {}
    BY <1>2, <1>4 DEF Active
  <2> QED BY <1>1, <2>1, SomeToken
<1> QED BY <1>3, <1>4

\* The first look at the tokens: if none is available, a thread that has one will look again.
LEMMA AvailableKeeps ==
    ASSUME Inv, NEW t \in Scanners, Available(t)
    PROVE  Inv'
<1>1. t \in Procs /\ t # Main /\ t \notin {Leaver, Mgr} /\ proc[t].pc = "available"
      /\ proc \in [Procs -> Proc] /\ node \in Node /\ pool \in Pool
  BY Types, Threads DEF Available, At
<1>2. UNCHANGED <<node, issued, batches, seen, query, changes>>
  BY DEF Available
<1>3. proc' \in [Procs -> Proc] /\ Others(t) /\ Same(t) /\ proc'[t].pc = "off"
  <2>1. Go(t, "off") /\ "off" \in Pcs
    BY DEF Available, Pcs, ScannerPcs
  <2> QED BY <1>1, <2>1, GoFacts
<1>4. /\ pool' \in Pool /\ pool'.cb = pool.cb /\ pool'.lock = pool.lock
      /\ pool'.optional = pool.optional
      /\ \/ pool'.leavers > 0
         \/ pool' = pool /\ ~(num_available_threads > 0 /\ pool.cb)
  <2>1. CASE num_available_threads > 0 /\ pool.cb
    <3>1. pool' = [pool EXCEPT !.leavers = @ + 1]
      BY <2>1 DEF Available
    <3> QED BY <1>1, <3>1, SMT DEF Pool
  <2>2. CASE ~(num_available_threads > 0 /\ pool.cb)
    BY <1>1, <2>2 DEF Available
  <2> QED BY <2>1, <2>2
<1>5. \A u \in Scanners : u # t => proc'[u] = proc[u]
  BY <1>3, Threads DEF Others
<1>6. TokensOK'
  <2>1. Active' = Active /\ Tokens' = Tokens
    BY <1>1, <1>3, <1>5 DEF Active, Tokens
  <2> QED BY <1>2, <1>4, <2>1 DEF Inv, TokensOK
<1>7. proc'[Main] = proc[Main]
  BY <1>1, <1>3, Threads DEF Others
<1>8. CloseOK'
  <2>1. proc[Main].pc \notin {"cleanup", "closed"} /\ proc[Main].pc # "closed"
    BY <1>1 DEF Inv, CloseOK
  <2> QED BY <1>2, <1>4, <1>7, <2>1 DEF Inv, CloseOK
<1>9. ScanOK'
  <2>1. CASE pool'.leavers > 0
    BY <2>1 DEF ScanOK, Coming
  <2>2. CASE pool' = pool /\ ~pool.cb
    <3>1. ~IsOpen'
      BY <1>7, <2>2 DEF Inv, CloseOK, IsOpen
    <3> QED BY <3>1 DEF ScanOK
  <2>3. CASE pool' = pool /\ ~(num_available_threads > 0)
    <3>1. ~(pool.optional < Reserved)
      BY <1>1, <2>3, AvailableThreads
    <3>2. pool.optional > 0
      BY <1>1, <3>1, SMT DEF Reserved, Pool
    <3>3. node.active > 0 \/ \E u \in Scanners : proc[u].pc = "release"
      BY <3>2, TokenHolder
    <3>4. node'.active > 0 \/ \E u \in Scanners : proc'[u].pc = "release"
      BY <1>1, <1>2, <1>5, <3>3
    <3> QED BY <3>4 DEF ScanOK, Coming
  <2> QED BY <1>4, <2>1, <2>2, <2>3
<1> QED BY <1>1, <1>2, <1>3, <1>4, <1>6, <1>8, <1>9, ThreadEnds DEF Same

-------------------------------------------------------------------------------
(* The callback *)

\* ThreadTokenAvailableCb keeps the invariant.
LEMMA CallbackKeeps ==
    ASSUME Inv, NEW p \in Procs, ThreadTokenAvailableCb(p)
    PROVE  Inv'
\* While a callback runs, the threads have not been joined.
<1>open. ASSUME proc[p].pc = "cb"
         PROVE  proc[Main].pc \notin {"cleanup", "closed"} /\ proc[Main].pc # "closed"
  <2> USE <1>open
  <2>1. p = Main \/ p \in Scanners \/ p = Leaver \/ p = Mgr
    BY Threads
  <2>2. CASE p = Main
    BY <2>2
  <2>3. CASE p \in Scanners \/ p = Leaver
    BY <2>3 DEF Inv, CloseOK
  <2>4. CASE p = Mgr
    <3>1. pool.lock = Mgr
      BY <2>4 DEF Inv, LockOK
    <3>2. pool.cb
      BY <3>1, Threads DEF Inv, CloseOK
    <3> QED BY <3>2 DEF Inv, CloseOK
  <2> QED BY <2>1, <2>2, <2>3, <2>4
\* A scanner thread is started.
<1>starts. ASSUME proc[p].pc = "cb", NEW t \in Scanners, proc[t].pc = "off",
                  proc' = [proc EXCEPT ![t] = NewProc("top")],
                  node' = [node EXCEPT !.active = @ + 1], pool' = [pool EXCEPT !.optional = @ + 1],
                  UNCHANGED <<issued, batches, seen, query, changes>>
           PROVE  Inv'
  <2> USE <1>starts
  <2>1. t \in Procs /\ t # Main /\ t \notin {Leaver, Mgr} /\ t # p
        /\ proc \in [Procs -> Proc] /\ node \in Node /\ pool \in Pool /\ changes \in Nat
    BY Types, Threads
  <2>2. proc' \in [Procs -> Proc] /\ Others(t) /\ Fresh(t, "top")
    <3>1. Start(t, "top") /\ "top" \in Pcs
      BY DEF Start, Pcs, ScannerPcs
    <3> QED BY <2>1, <3>1, StartFacts
  <2>3. /\ node' \in Node /\ node'.done = node.done /\ node'.owned = node.owned
        /\ node'.all_ranges_started = node.all_ranges_started
        /\ node'.unqueued = node.unqueued /\ node'.complete = node.complete
        /\ node'.active = node.active + 1
    BY <2>1, SMT DEF Node
  <2>4. /\ pool' \in Pool /\ pool'.cb = pool.cb /\ pool'.lock = pool.lock
        /\ pool'.leavers = pool.leavers /\ pool'.optional = pool.optional + 1
    BY <2>1, SMT DEF Pool
  <2>5. /\ \A q \in Procs : q # t => proc'[q] = proc[q]
        /\ proc'[t].pc = "top" /\ proc'[t].status = "OK"
        /\ proc'[p] = proc[p] /\ proc'[Main] = proc[Main]
    BY ONLY <2>1, <2>2, Threads, p \in Procs, Zenon DEF Others, Fresh
  <2>6. TokensOK'
    <3>1. Active' = Active \cup {t} /\ t \notin Active
      BY ONLY <2>5, proc[t].pc = "off", t \in Scanners, Threads, Zenon DEF Active
    <3>2. Tokens' = Tokens \cup {t} /\ t \notin Tokens
      BY ONLY <2>5, proc[t].pc = "off", t \in Scanners, Threads, Zenon DEF Tokens
    <3>3. Cardinality(Active') = Cardinality(Active) + 1
          /\ Cardinality(Tokens') = Cardinality(Tokens) + 1
      BY ONLY <3>1, <3>2, Finite, FS_AddElement, Zenon
    <3> QED BY ONLY Inv, <2>3, <2>4, <3>3, Zenon DEF Inv, TokensOK
  <2>7. LockOK'
    BY ONLY Inv, <2>1, <2>2, <2>4, LockFrame, Zenon DEF Inv
  <2>8. CloseOK'
    <3>1. proc[Main].pc \notin {"cleanup", "closed"} /\ proc[Main].pc # "closed"
      BY ONLY Inv, p \in Procs, proc[p].pc = "cb", <1>open, Zenon
    <3> QED BY ONLY Inv, <2>3, <2>4, <2>5, <3>1, UNCHANGED batches, Zenon DEF Inv, CloseOK
  <2>9. ScanOK'
    BY ONLY <2>5, p \in Procs, proc[p].pc = "cb", Zenon DEF ScanOK, Coming
  <2>10. ProcOK(t)' /\ ~Opens(t)' /\ ~Owns(t)' /\ SnapshotOK(t)'
         /\ proc'[t].pc \notin {"mark", "cancel", "shutdown", "get"} /\ proc'[t].pc # "set_done"
    BY ONLY <2>1, <2>5, t \in Scanners, Zenon
       DEF ProcOK, ScannerPcs, Ending, Opening, Owning, Opens, Owns, SnapshotOK
  <2>11. changes' \in Nat /\ UNCHANGED <<issued, batches, seen, query>>
    BY ONLY <2>1, UNCHANGED <<issued, batches, seen, query, changes>>, Zenon
  <2> QED BY ONLY Inv, <2>1, <2>2, <2>3, <2>4, <2>5, <2>6, <2>7, <2>8, <2>9, <2>10, <2>11,
                  QuietStep, Zenon
\* A callback that starts no thread: the node is done, every range was started, a thread is
\* active, or the tokens are in use.
<1>returns. ASSUME proc[p].pc = "cb", ~StartNeeded, Go(p, proc[p].ret),
                   UNCHANGED <<node, pool, issued, batches, seen, query, changes>>
            PROVE  Inv'
  <2> USE <1>returns
  <2>1. /\ proc \in [Procs -> Proc] /\ node \in Node /\ pool \in Pool /\ changes \in Nat
        /\ proc[p].ret \in Pcs /\ node.complete \in Nat /\ Cardinality(SplitsOf(Files)) \in Nat
    BY Types, Finite DEF Proc
  <2>2. proc' \in [Procs -> Proc] /\ Others(p) /\ Same(p) /\ proc'[p].pc = proc[p].ret
    BY <2>1, GoFacts
  <2>3. /\ p = Main => proc[p].ret = "open"
        /\ p \in Scanners => proc[p].ret = "final" /\ proc[p].range \in SequenceFiles
        /\ p \in {Leaver, Mgr} => proc[p].ret = "unlock"
    BY DEF Inv, ProcsOK, ProcOK
  <2>4. p = Main \/ p \in Scanners \/ p \in {Leaver, Mgr}
    BY Threads
  <2>5. ProcOK(p)'
    <3>1. CASE p = Main
      BY <2>2, <2>3, <3>1, Threads DEF ProcOK, MainPcs, Ending
    <3>2. CASE p \in Scanners
      BY <2>2, <2>3, <3>2, Threads, Names DEF ProcOK, ScannerPcs, Ending, Opening, Owning, Same
    <3>3. CASE p \in {Leaver, Mgr}
      BY <2>2, <2>3, <3>3, Threads DEF ProcOK, CallerPcs
    <3> QED BY <2>4, <3>1, <3>2, <3>3
  <2>6. p \in Scanners => /\ ~Opens(p)' /\ ~Owns(p)' /\ SnapshotOK(p)'
                          /\ proc'[p].status = "ERROR" => proc[p].status = "ERROR"
    BY <2>2, <2>3, Names DEF Opens, Owns, Opening, SnapshotOK, Same
  <2>7. p = Main => proc'[p].todo \subseteq proc[p].todo /\ (MainCloses => MainCloses')
    BY <2>2 DEF Same, MainCloses, Closing, Ending
  <2>8. p \in Scanners \cup {Main} =>
            proc'[p].pc \notin {"mark", "cancel", "shutdown", "get"} /\ proc'[p].pc # "set_done"
    BY <2>2, <2>3
  <2>9. LockOK'
    BY <2>2, <2>3, LockFrame DEF Inv
  <2>10. TokensOK'
    BY <2>2, <2>3, TokensFrame DEF Inv
  <2>11. CloseOK'
    BY <2>2, <2>3, CloseFrame DEF Inv
  <2>12. ScanOK'
    <3> SUFFICES ASSUME ~node.done, issued.ranges # {} \/ node.unqueued > 0, Remaining > 0
                 PROVE  Coming'
      BY DEF ScanOK, Remaining
    <3>1. ~node.all_ranges_started
      <4>1. AllStartedIsStarted /\ node.unqueued \in Int
        BY <2>1 DEF Inv, Node
      <4>2. node.unqueued > 0 => node.unqueued # 0
        BY <4>1, SMT
      <4> QED BY <4>1, <4>2 DEF AllStartedIsStarted
    <3>2. ~(node.active < Remaining) \/ ~TryAcquireThreadToken
      BY <3>1 DEF StartNeeded
    <3>3. CASE ~(node.active < Remaining)
      <4>1. node.active > 0
        BY <2>1, <3>3, SMT DEF Node, Remaining
      <4> QED BY <4>1 DEF Coming
    <3>4. CASE ~TryAcquireThreadToken
      <4>1. pool.optional > 0
        BY <2>1, <3>4, SMT DEF TryAcquireThreadToken, Reserved, Pool
      <4>2. node.active > 0 \/ \E u \in Scanners : proc[u].pc = "release"
        BY <4>1, TokenHolder
      <4>3. node'.active > 0 \/ \E u \in Scanners : proc'[u].pc = "release"
        BY <2>2, <4>2, Threads DEF Others
      <4> QED BY <4>3 DEF Coming
    <3> QED BY <3>2, <3>3, <3>4
  <2> QED BY <2>1, <2>2, <2>5, <2>6, <2>7, <2>8, <2>9, <2>10, <2>11, <2>12, QuietStep
<1>1. proc[p].pc = "cb" /\ UNCHANGED <<issued, batches, seen, query, changes>>
  BY DEF ThreadTokenAvailableCb, At
<1>2. CASE StartNeeded
  <2>1. PICK t \in Scanners :
            /\ At(t, "off") /\ proc' = [proc EXCEPT ![t] = NewProc("top")]
            /\ node' = [node EXCEPT !.active = @ + 1]
            /\ pool' = [pool EXCEPT !.optional = @ + 1]
    BY <1>2 DEF ThreadTokenAvailableCb
  <2> QED BY <1>1, <2>1, <1>starts DEF At
<1>3. CASE ~StartNeeded
  <2>1. Go(p, proc[p].ret) /\ UNCHANGED <<node, pool>>
    BY <1>3 DEF ThreadTokenAvailableCb
  <2> QED BY <1>1, <1>3, <2>1, <1>returns
<1> QED BY <1>2, <1>3

-------------------------------------------------------------------------------
(* SetDone *)

\* The three steps of SetDone keep the invariant.
LEMMA SetDoneKeeps ==
    ASSUME Inv, NEW p \in Procs, SetDone(p) \/ CancelReader(p) \/ Shutdown(p)
    PROVE  Inv'
\* Only the main thread and the scanner threads call SetDone.
<1>enders. ASSUME proc[p].pc \in Ending
           PROVE  p \in Scanners \cup {Main} /\ proc[p].ret \in Pcs
  <2> USE <1>enders
  <2>1. p \notin {Leaver, Mgr}
    BY DEF Inv, ProcsOK, ProcOK, CallerPcs, Ending
  <2> QED BY <2>1, Threads, Types DEF Proc
\* A step of SetDone, at the end of which the node is done.
<1>ends. ASSUME p \in Scanners \cup {Main}, proc[p].pc \in Ending,
                Others(p), proc' \in [Procs -> Proc],
                \/ Same(p) /\ proc'[p].pc \in {"cancel", "shutdown"} /\ proc'[p].ret = proc[p].ret
                \/ Fresh(p, proc[p].ret),
                node' \in Node, node'.done, node'.all_ranges_started = node.all_ranges_started,
                node'.active = node.active, node'.owned = node.owned,
                node'.unqueued = node.unqueued, node'.complete = node.complete,
                issued' \in Issued, issued'.ranges \subseteq issued.ranges,
                batches' \in Batches, batches'.queue = batches.queue,
                batches'.cleanup = batches.cleanup, UNCHANGED <<pool, seen, query, changes>>
         PROVE  Inv'
  <2> USE <1>ends
  <2>1. p \in Procs /\ p \notin {Leaver, Mgr} /\ (p = Main => p \notin Scanners)
    BY Threads
  <2>2. /\ p = Main => proc[p].ret \in {"idle", "clear_cb"}
        /\ p \in Scanners => proc[p].ret = "leave"
    BY <2>1 DEF Inv, ProcsOK, ProcOK
  <2>3. proc'[p].pc \in {"cancel", "shutdown", "idle", "clear_cb", "leave"}
    BY <2>2 DEF Fresh
  <2>4. proc[p].pc \notin {"join", "cleanup", "closed", "off", "release", "available"}
    BY DEF Ending
  <2>5. TypeOK'
    BY Types DEF TypeOK
  <2>6. ProcsOK'
    <3>1. ProcOK(p)'
      <4>1. CASE p = Main
        BY <2>1, <2>2, <4>1 DEF ProcOK, MainPcs, Ending, Fresh
      <4>2. CASE p \in Scanners
        BY <2>1, <2>2, <4>2 DEF ProcOK, ScannerPcs, Ending, Opening, Owning, Fresh
      <4> QED BY <4>1, <4>2
    <3> QED BY <2>1, <3>1, ProcsFrame DEF Inv
  <2>7. LockOK'
    BY <2>1, LockFrame DEF Inv
  <2>8. TokensOK'
    BY <2>1, <2>3, <2>4, TokensFrame DEF Inv
  <2>9. CloseOK'
    <3>1. CASE p = Main
      <4>1. proc'[Main].pc \notin {"join", "cleanup", "closed"} /\ proc'[Main].pc # "closed"
            /\ proc'[Main].pc \notin {"cleanup", "closed"}
        BY <2>3, <3>1
      <4> QED BY <2>4, <3>1, <4>1 DEF Inv, CloseOK
    <3>2. CASE p \in Scanners
      <4>1. proc'[Main] = proc[Main]
        BY <2>1, <3>2, Threads DEF Others
      <4>2. proc[Main].pc \notin {"cleanup", "closed"} /\ proc[Main].pc # "closed"
        BY <2>4, <3>2 DEF Inv, CloseOK
      <4> QED BY <4>1, <4>2 DEF Inv, CloseOK
    <3> QED BY <3>1, <3>2
  <2>10. Exclusive' /\ Shrinks
    <3>1. ~Opens(p)' /\ ~Owns(p)' /\ proc'[p].pc # "mark"
      BY <2>3 DEF Opens, Owns, Opening, Owning
    <3>2. p = Main => proc'[p].todo \subseteq proc[p].todo
      BY DEF Same, Fresh
    <3> QED BY <2>1, <3>1, <3>2, OwnFrame DEF Inv
  <2>11. Counts'
    BY <2>10, Types, CountsFrame DEF Inv
  <2>12. Snapshots' /\ AllStartedIsStarted'
    <3>1. SnapshotOK(p)'
      BY <2>3 DEF SnapshotOK
    <3>2. issued.ranges = {} => issued'.ranges = {}
      OBVIOUS
    <3> QED BY <2>1, <3>1, <3>2, SnapshotsFrame DEF Inv
  <2>13. DoneOK' /\ EosIsComplete'
    <3>1. DoneOK /\ EosIsComplete
      BY DEF Inv
    <3>2. Excused \/ Complete
      BY <3>1 DEF DoneOK, Ending
    <3>3. ASSUME NEW q \in Scanners \cup {Main}, q # p
          PROVE  proc'[q] = proc[q]
      BY <2>1, <3>3, Threads DEF Others
    <3>4. MainCloses => MainCloses'
      <4>1. CASE p = Main
        BY <2>2, <2>3, <4>1 DEF MainCloses, Closing, Ending, Fresh
      <4>2. CASE p # Main
        BY <3>3, <4>2 DEF MainCloses
      <4> QED BY <4>1, <4>2
    <3>5. (Excused => Excused') /\ (Excused' \/ Complete')
      BY <3>2, <3>4 DEF Excused, Complete, ReachedLimit
    <3>6. EosIsComplete'
      BY <3>1 DEF EosIsComplete
    <3>7. \A t \in Scanners : proc'[t].status = "ERROR" => seen'.errors > 0
      BY <3>1, <3>3 DEF DoneOK, Same, Fresh
    <3>8. Excused' \/ seen'.made = seen'.returned + Cardinality(Rows')
      BY <3>1, <3>5 DEF DoneOK, Rows
    <3>9. proc'[Main].pc = "get" => ~ReachedLimit' /\ seen'.last = "more"
      BY <2>3, <3>1, <3>3 DEF DoneOK, ReachedLimit
    <3> QED BY <3>5, <3>6, <3>7, <3>8, <3>9 DEF DoneOK
  <2>14. ScanOK'
    BY DEF ScanOK
  <2> QED BY <2>5, <2>6, <2>7, <2>8, <2>9, <2>10, <2>11, <2>12, <2>13, <2>14 DEF Inv
<1>1. proc[p].pc \in Ending /\ (~SetDone(p) => proc[p].pc \in {"cancel", "shutdown"})
  BY DEF SetDone, CancelReader, Shutdown, At, Ending
<1>2. p \in Scanners \cup {Main} /\ proc[p].ret \in Pcs
  BY <1>1, <1>enders
<1>3. /\ proc \in [Procs -> Proc] /\ node \in Node /\ issued \in Issued /\ batches \in Batches
      /\ "cancel" \in Pcs /\ "shutdown" \in Pcs
  BY Types DEF Pcs, ScannerPcs
<1>4. ~SetDone(p) => node.done
  BY <1>1, <1>2 DEF Inv, DoneOK
<1>5. CASE SetDone(p)
  <2>1. UNCHANGED <<pool, issued, batches, seen, query, changes>>
    BY <1>5 DEF SetDone
  <2>2. CASE node.done
    <3>1. Start(p, proc[p].ret) /\ UNCHANGED node
      BY <1>5, <2>2 DEF SetDone
    <3>2. proc' \in [Procs -> Proc] /\ Others(p) /\ Fresh(p, proc[p].ret)
      BY <1>2, <1>3, <3>1, StartFacts
    <3> QED BY <1>1, <1>2, <1>3, <2>1, <2>2, <3>1, <3>2, <1>ends
  <2>3. CASE ~node.done
    <3>1. Go(p, "cancel") /\ node' = [node EXCEPT !.done = TRUE]
      BY <1>5, <2>3 DEF SetDone
    <3>2. /\ proc' \in [Procs -> Proc] /\ Others(p) /\ Same(p) /\ proc'[p].pc = "cancel"
          /\ proc'[p].ret = proc[p].ret
      BY <1>3, <3>1, GoFacts
    <3>3. /\ node' \in Node /\ node'.done /\ node'.all_ranges_started = node.all_ranges_started
          /\ node'.active = node.active /\ node'.owned = node.owned
          /\ node'.unqueued = node.unqueued /\ node'.complete = node.complete
      BY <1>3, <3>1 DEF Node
    <3> QED BY <1>1, <1>2, <1>3, <2>1, <3>2, <3>3, <1>ends
  <2> QED BY <2>2, <2>3
<1>6. CASE ~SetDone(p) /\ CancelReader(p)
  <2>1. UNCHANGED <<node, pool, batches, seen, query, changes>> /\ Go(p, "shutdown")
        /\ issued' = [ranges |-> {}, cancelled |-> TRUE]
    BY <1>6 DEF CancelReader
  <2>2. /\ proc' \in [Procs -> Proc] /\ Others(p) /\ Same(p) /\ proc'[p].pc = "shutdown"
        /\ proc'[p].ret = proc[p].ret
    BY <1>3, <2>1, GoFacts
  <2>3. issued' \in Issued /\ issued'.ranges \subseteq issued.ranges
    BY <2>1, SMT DEF Issued
  <2> QED BY <1>1, <1>2, <1>3, <1>4, <1>6, <2>1, <2>2, <2>3, <1>ends
<1>7. CASE ~SetDone(p) /\ Shutdown(p)
  <2>1. UNCHANGED <<node, pool, issued, seen, query, changes>> /\ Start(p, proc[p].ret)
        /\ batches' = [batches EXCEPT !.shutdown = TRUE]
    BY <1>7 DEF Shutdown
  <2>2. proc' \in [Procs -> Proc] /\ Others(p) /\ Fresh(p, proc[p].ret)
    BY <1>2, <1>3, <2>1, StartFacts
  <2>3. /\ batches' \in Batches /\ batches'.queue = batches.queue
        /\ batches'.cleanup = batches.cleanup
    BY <1>3, <2>1 DEF Batches
  <2> QED BY <1>1, <1>2, <1>3, <1>4, <1>7, <2>1, <2>2, <2>3, <1>ends
<1> QED BY <1>5, <1>6, <1>7

-------------------------------------------------------------------------------
(* The threads that call back *)

\* A step of a thread that calls back, which is not counted.
LEMMA CallerStep ==
    ASSUME Inv, NEW p \in {Leaver, Mgr}, Others(p), proc' \in [Procs -> Proc],
           proc'[p].pc \in CallerPcs, proc'[p].pc = "cb" => proc'[p].ret = "unlock",
           pool' \in Pool, pool'.optional = pool.optional, changes' \in Nat,
           UNCHANGED <<node, issued, batches, seen, query>>,
           LockOK', CloseOK', ScanOK'
    PROVE  Inv'
<1>1. p \in Procs /\ p # Main /\ p \notin Scanners /\ node \in Node
  BY Types, Threads
<1>2. ProcOK(p)'
  BY <1>1 DEF ProcOK
<1>3. TokensOK'
  BY <1>1, TokensFrame DEF Inv
<1> QED BY <1>1, <1>2, <1>3, QuietStep

\* If no callback follows a look at the tokens, the node is being closed or a thread has a token.
LEMMA NoneAvailable ==
    ASSUME Inv, ~(num_available_threads > 0 /\ pool.cb)
    PROVE  ~IsOpen \/ node.active > 0 \/ \E u \in Scanners : proc[u].pc = "release"
<1>1. CASE ~pool.cb
  BY <1>1 DEF Inv, CloseOK, IsOpen
<1>2. CASE ~(num_available_threads > 0)
  <2>1. pool \in Pool
    BY Types
  <2>2. ~(pool.optional < Reserved)
    BY <1>2, <2>1, AvailableThreads
  <2>3. pool.optional > 0
    BY <2>1, <2>2, SMT DEF Reserved, Pool
  <2> QED BY <2>3, TokenHolder
<1> QED BY <1>1, <1>2

\* The second look at the tokens, with the pool's lock.
LEMMA LockedCallbackKeeps ==
    ASSUME Inv, NEW p \in {Leaver, Mgr}, At(p, "lock"), LockedCallback(p)
    PROVE  Inv'
<1>1. p \in Procs /\ p # Main /\ p \notin Scanners /\ proc[p].pc = "lock" /\ p # None
      /\ proc \in [Procs -> Proc] /\ pool \in Pool /\ changes \in Nat
      /\ "cb" \in Pcs /\ "unlock" \in Pcs /\ "off" \in Pcs
  BY Types, Threads DEF At, Pcs, ScannerPcs, CallerPcs
<1>2. UNCHANGED <<node, issued, batches, seen, query, changes>> /\ pool.lock = None
  BY DEF LockedCallback
<1>3. CASE num_available_threads > 0 /\ pool.cb
  <2>1. Call(p, "cb", "unlock") /\ pool' = [pool EXCEPT !.lock = p]
    BY <1>3 DEF LockedCallback
  <2>2. /\ proc' \in [Procs -> Proc] /\ Others(p) /\ proc'[p].pc = "cb" /\ proc'[p].ret = "unlock"
    BY <1>1, <2>1, CallFacts
  <2>3. /\ pool' \in Pool /\ pool'.optional = pool.optional /\ pool'.cb = pool.cb
        /\ pool'.lock = p /\ pool'.leavers = pool.leavers
    BY <1>1, <2>1, SMT DEF Pool
  <2>4. LockOK'
    <3> SUFFICES ASSUME NEW q \in {Leaver, Mgr}
                 PROVE  proc'[q].pc \in {"cb", "unlock"} <=> pool'.lock = q
      BY DEF LockOK
    <3>1. CASE q = p
      BY <2>2, <2>3, <3>1
    <3>2. CASE q # p
      <4>1. proc'[q] = proc[q] /\ pool.lock # q
        BY <1>2, <2>2, <3>2, Threads DEF Others
      <4> QED BY <2>3, <3>2, <4>1 DEF Inv, LockOK
    <3> QED BY <3>1, <3>2
  <2>5. CloseOK'
    <3>1. proc'[Main] = proc[Main]
      BY <1>1, <2>2, Threads DEF Others
    <3>2. proc[Main].pc \notin {"join", "cleanup", "closed"}
      BY <1>3 DEF Inv, CloseOK
    <3>3. proc[Main].pc \notin {"cleanup", "closed"} /\ proc[Main].pc # "closed"
      BY <3>2
    <3> QED BY <1>2, <1>3, <2>3, <3>1, <3>2, <3>3 DEF Inv, CloseOK
  <2>6. ScanOK'
    BY <1>1, <2>2 DEF ScanOK, Coming
  <2> QED BY <1>1, <1>2, <2>2, <2>3, <2>4, <2>5, <2>6, CallerStep DEF CallerPcs
<1>4. CASE ~(num_available_threads > 0 /\ pool.cb)
  <2>1. Go(p, "off") /\ UNCHANGED pool
    BY <1>4 DEF LockedCallback
  <2>2. proc' \in [Procs -> Proc] /\ Others(p) /\ proc'[p].pc = "off"
    BY <1>1, <2>1, GoFacts
  <2>3. LockOK'
    BY <1>1, <2>1, <2>2, LockFrame DEF Inv
  <2>4. CloseOK'
    BY <1>1, <1>2, <2>1, <2>2, CloseFrame DEF Inv
  <2>5. ScanOK'
    <3>1. ~IsOpen \/ node.active > 0 \/ \E u \in Scanners : proc[u].pc = "release"
      BY <1>4, NoneAvailable
    <3>2. ~IsOpen' \/ node'.active > 0 \/ \E u \in Scanners : proc'[u].pc = "release"
      BY <1>1, <1>2, <2>2, <3>1, Threads DEF Others, IsOpen
    <3> QED BY <3>2 DEF ScanOK, Coming
  <2> QED BY <1>1, <1>2, <2>1, <2>2, <2>3, <2>4, <2>5, CallerStep DEF CallerPcs
<1> QED BY <1>3, <1>4

\* The callback is over and the pool's lock is free.
LEMMA UnlockKeeps ==
    ASSUME Inv, NEW p \in {Leaver, Mgr}, Unlock(p)
    PROVE  Inv'
<1>1. p \in Procs /\ p # Main /\ p \notin Scanners /\ proc[p].pc = "unlock" /\ p # None
      /\ proc \in [Procs -> Proc] /\ pool \in Pool /\ changes \in Nat /\ "off" \in Pcs
  BY Types, Threads DEF Unlock, At, Pcs, CallerPcs
<1>2. UNCHANGED <<node, issued, batches, seen, query, changes>>
  BY DEF Unlock
<1>3. proc' \in [Procs -> Proc] /\ Others(p) /\ proc'[p].pc = "off"
  <2>1. Start(p, "off")
    BY DEF Unlock
  <2> QED BY <1>1, <2>1, StartFacts DEF Fresh
<1>4. /\ pool' \in Pool /\ pool'.optional = pool.optional /\ pool'.cb = pool.cb
      /\ pool'.lock = None /\ pool'.leavers = pool.leavers
  BY <1>1, SMT DEF Unlock, Pool
<1>5. pool.lock = p
  BY <1>1 DEF Inv, LockOK
<1>6. LockOK'
  <2> SUFFICES ASSUME NEW q \in {Leaver, Mgr}
               PROVE  proc'[q].pc \in {"cb", "unlock"} <=> pool'.lock = q
    BY DEF LockOK
  <2>1. pool'.lock # q
    BY <1>4, Threads
  <2>2. CASE q = p
    BY <1>3, <2>1, <2>2
  <2>3. CASE q # p
    <3>1. proc'[q] = proc[q] /\ pool.lock # q
      BY <1>3, <1>5, <2>3, Threads DEF Others
    <3> QED BY <2>1, <3>1 DEF Inv, LockOK
  <2> QED BY <2>2, <2>3
<1>7. CloseOK'
  <2>1. pool.cb /\ proc'[Main] = proc[Main]
    BY <1>1, <1>3, <1>5, Threads DEF Inv, CloseOK, Others
  <2>2. proc[Main].pc \notin {"join", "cleanup", "closed"}
    BY <2>1 DEF Inv, CloseOK
  <2>3. proc[Main].pc \notin {"cleanup", "closed"} /\ proc[Main].pc # "closed"
    BY <2>2
  <2> QED BY <1>2, <1>4, <2>1, <2>2, <2>3 DEF Inv, CloseOK
<1>8. ScanOK'
  BY <1>1, <1>2, <1>3, <1>4, ScanFrame DEF Inv
<1> QED BY <1>1, <1>2, <1>3, <1>4, <1>6, <1>7, <1>8, CallerStep DEF CallerPcs

\* A thread that saw an available token goes for the lock.
LEMMA LeaverStartsKeeps ==
    ASSUME Inv, LeaverStarts
    PROVE  Inv'
<1>1. Leaver \in Procs /\ proc[Leaver].pc = "off" /\ pool.leavers > 0
      /\ proc \in [Procs -> Proc] /\ pool \in Pool /\ changes \in Nat /\ "lock" \in Pcs
  BY Types, Threads DEF LeaverStarts, At, Pcs, CallerPcs
<1>2. UNCHANGED <<node, issued, batches, seen, query, changes>>
  BY DEF LeaverStarts
<1>3. proc' \in [Procs -> Proc] /\ Others(Leaver) /\ proc'[Leaver].pc = "lock"
  <2>1. Go(Leaver, "lock")
    BY DEF LeaverStarts
  <2> QED BY <1>1, <2>1, GoFacts
<1>4. /\ pool' \in Pool /\ pool'.optional = pool.optional /\ pool'.cb = pool.cb
      /\ pool'.lock = pool.lock /\ pool.leavers # 0
  BY <1>1, SMT DEF LeaverStarts, Pool
<1>5. LockOK'
  BY <1>1, <1>3, <1>4, LockFrame DEF Inv
<1>6. CloseOK'
  <2>1. proc'[Main] = proc[Main]
    BY <1>3, Threads DEF Others
  <2>2. proc[Main].pc \notin {"cleanup", "closed"} /\ proc[Main].pc # "closed"
    BY <1>4 DEF Inv, CloseOK
  <2> QED BY <1>2, <1>4, <2>1, <2>2 DEF Inv, CloseOK
<1>7. ScanOK'
  BY <1>1, <1>3 DEF ScanOK, Coming
<1> QED BY <1>1, <1>2, <1>3, <1>4, <1>5, <1>6, <1>7, CallerStep DEF CallerPcs

\* Another query comes or goes: the quota changes, and the pool's callback is on its way.
LEMMA QuotasKeeps ==
    ASSUME Inv, UpdatePoolQuotas
    PROVE  Inv'
<1>1. Mgr \in Procs /\ proc[Mgr].pc = "off" /\ Mgr # Main /\ Mgr \notin Scanners \cup {Leaver}
      /\ proc \in [Procs -> Proc] /\ pool \in Pool /\ changes \in Nat /\ "lock" \in Pcs
  BY Types, Threads DEF UpdatePoolQuotas, At, Pcs, CallerPcs
<1>2. UNCHANGED <<node, issued, batches, seen, query>>
  BY DEF UpdatePoolQuotas
<1>3. proc' \in [Procs -> Proc] /\ Others(Mgr) /\ proc'[Mgr].pc = "lock"
  <2>1. Go(Mgr, "lock")
    BY DEF UpdatePoolQuotas
  <2> QED BY <1>1, <2>1, GoFacts
<1>4. /\ pool' \in Pool /\ pool'.optional = pool.optional /\ pool'.cb = pool.cb
      /\ pool'.lock = pool.lock /\ pool'.leavers = pool.leavers
  <2>1. PICK q \in Quotas : pool' = [pool EXCEPT !.quota = q]
    BY DEF UpdatePoolQuotas
  <2>2. q \in Nat
    BY ScanAssumption
  <2> QED BY <1>1, <2>1, <2>2, SMT DEF Pool
<1>5. changes' \in Nat
  BY <1>1, SMT DEF UpdatePoolQuotas
<1>6. LockOK'
  BY <1>1, <1>3, <1>4, LockFrame DEF Inv
<1>7. CloseOK'
  BY <1>1, <1>2, <1>3, <1>4, CloseFrame DEF Inv
<1>8. ScanOK'
  BY <1>1, <1>3 DEF ScanOK, Coming
<1> QED BY <1>2, <1>3, <1>4, <1>5, <1>6, <1>7, <1>8, CallerStep DEF CallerPcs

-------------------------------------------------------------------------------
(* The main thread *)

\* A step of the main thread that issues nothing.
LEMMA MainGoesOn ==
    ASSUME Inv, Others(Main), proc' \in [Procs -> Proc], ProcOK(Main)', proc'[Main].pc # "mark",
           proc'[Main].todo = proc[Main].todo, node' \in Node, node'.active = node.active,
           node'.all_ranges_started = node.all_ranges_started,
           node'.unqueued = node.unqueued, node'.complete = node.complete,
           pool' \in Pool, pool'.optional = pool.optional, pool'.lock = pool.lock,
           batches' \in Batches, seen' \in Seen, UNCHANGED <<issued, query, changes>>,
           CloseOK', DoneOK', EosIsComplete', ScanOK'
    PROVE  Inv'
<1>1. Main \in Procs /\ Main \notin Scanners /\ Main \notin {Leaver, Mgr}
  BY Threads
<1>2. TypeOK'
  BY Types DEF TypeOK
<1>3. ProcsOK'
  BY <1>1, ProcsFrame DEF Inv
<1>4. LockOK' /\ TokensOK'
  BY <1>1, LockFrame, TokensFrame DEF Inv
<1>5. Exclusive' /\ Shrinks
  BY <1>1, OwnFrame DEF Inv
<1>6. Counts'
  BY <1>5, Types, CountsFrame DEF Inv
<1>7. Snapshots' /\ AllStartedIsStarted'
  BY <1>1, SnapshotsFrame DEF Inv
<1> QED BY <1>2, <1>3, <1>4, <1>5, <1>6, <1>7 DEF Inv

\* The main thread calls SetDone: because it closes the node or because all is complete.
LEMMA MainEnds ==
    ASSUME Inv, NEW ret \in {"idle", "clear_cb"}, Call(Main, "set_done", ret),
           proc[Main].pc \in {"open", "idle"}, ret = "idle" => Complete,
           UNCHANGED <<node, pool, issued, batches, seen, query, changes>>
    PROVE  Inv'
<1>1. /\ Main \in Procs /\ Main \notin Scanners /\ Main \notin {Leaver, Mgr} /\ ret \in Pcs
      /\ "set_done" \in Pcs /\ proc \in [Procs -> Proc] /\ node \in Node /\ pool \in Pool
      /\ batches \in Batches /\ seen \in Seen
  BY Types, Threads DEF Pcs, MainPcs
<1>2. /\ proc' \in [Procs -> Proc] /\ Others(Main) /\ Same(Main)
      /\ proc'[Main].pc = "set_done" /\ proc'[Main].ret = ret
  BY <1>1, CallFacts
<1>3. ProcOK(Main)'
  BY <1>1, <1>2 DEF ProcOK, MainPcs, Ending
<1>4. CloseOK'
  BY <1>1, <1>2, CloseFrame DEF Inv
<1>5. DoneOK' /\ EosIsComplete'
  <2>1. Excused' \/ Complete'
    BY <1>2 DEF Excused, MainCloses, Ending, Complete
  <2>2. ~MainCloses
    BY DEF MainCloses, Closing, Ending
  <2> QED BY <1>1, <1>2, <2>1, <2>2, DoneFrame DEF Inv, Complete
<1>6. ScanOK'
  BY <1>2 DEF ScanOK, IsOpen
<1> QED BY <1>1, <1>2, <1>3, <1>4, <1>5, <1>6, MainGoesOn DEF Same

\* Close begins with SetDone.
LEMMA CloseKeeps ==
    ASSUME Inv, Close
    PROVE  Inv'
BY MainEnds DEF Close, At

\* The end of Open: nothing to scan is complete at once.
LEMMA OpenedKeeps ==
    ASSUME Inv, Opened
    PROVE  Inv'
<1>1. /\ Main \in Procs /\ Main \notin Scanners /\ Main \notin {Leaver, Mgr}
      /\ "idle" \in Pcs /\ proc \in [Procs -> Proc] /\ node \in Node /\ pool \in Pool
      /\ batches \in Batches /\ seen \in Seen /\ node.complete \in Nat
      /\ proc[Main].pc = "open" /\ proc[Main].todo = {} /\ Cardinality(SplitsOf(Files)) \in Nat
  BY Types, Threads, Finite DEF Pcs, MainPcs, Opened, At
<1>2. UNCHANGED <<node, pool, issued, batches, seen, query, changes>>
  BY DEF Opened
<1>3. CASE Remaining = 0
  <2>1. Call(Main, "set_done", "idle")
    BY <1>3 DEF Opened
  <2>2. Complete
    BY <1>1, <1>3, SMT DEF Complete, Remaining
  <2> QED BY <1>1, <1>2, <2>1, <2>2, MainEnds
<1>4. CASE Remaining # 0
  <2>1. Go(Main, "idle")
    BY <1>4 DEF Opened
  <2>2. proc' \in [Procs -> Proc] /\ Others(Main) /\ Same(Main) /\ proc'[Main].pc = "idle"
    BY <1>1, <2>1, GoFacts
  <2>3. ProcOK(Main)'
    BY <1>1, <2>2 DEF ProcOK, MainPcs, Ending
  <2>4. CloseOK'
    BY <1>1, <1>2, <2>2, CloseFrame DEF Inv
  <2>5. DoneOK' /\ EosIsComplete'
    <3>1. ~MainCloses
      BY <1>1 DEF MainCloses, Closing, Ending
    <3> QED BY <1>1, <1>2, <2>2, <3>1, DoneFrame DEF Inv, Complete
  <2>6. ScanOK'
    <3>1. IsOpen
      BY <1>1 DEF IsOpen
    <3> QED BY <1>1, <1>2, <2>2, <3>1, ScanFrame DEF Inv
  <2> QED BY <1>1, <1>2, <2>2, <2>3, <2>4, <2>5, <2>6, MainGoesOn DEF Same
<1> QED BY <1>3, <1>4

\* SetThreadAvailableCb(NULL) waits for the callback that runs, so none runs afterwards.
LEMMA SetCallbackKeeps ==
    ASSUME Inv, SetThreadAvailableCb
    PROVE  Inv'
<1>1. /\ Main \in Procs /\ Main \notin Scanners /\ Main \notin {Leaver, Mgr}
      /\ "join" \in Pcs /\ proc \in [Procs -> Proc] /\ node \in Node /\ pool \in Pool
      /\ batches \in Batches /\ seen \in Seen /\ proc[Main].pc = "clear_cb" /\ pool.lock = None
  BY Types, Threads DEF Pcs, MainPcs, SetThreadAvailableCb, At
<1>2. UNCHANGED <<node, issued, batches, seen, query, changes>>
  BY DEF SetThreadAvailableCb
<1>3. proc' \in [Procs -> Proc] /\ Others(Main) /\ Same(Main) /\ proc'[Main].pc = "join"
  <2>1. Go(Main, "join")
    BY DEF SetThreadAvailableCb
  <2> QED BY <1>1, <2>1, GoFacts
<1>4. /\ pool' \in Pool /\ pool'.optional = pool.optional /\ pool'.lock = pool.lock
      /\ ~pool'.cb
  BY <1>1 DEF Pool, SetThreadAvailableCb
<1>5. ProcOK(Main)'
  BY <1>1, <1>3 DEF ProcOK, MainPcs, Ending
<1>6. CloseOK'
  BY <1>1, <1>2, <1>3, <1>4 DEF Inv, CloseOK
<1>7. DoneOK' /\ EosIsComplete'
  <2>1. MainCloses'
    BY <1>3 DEF MainCloses, Closing
  <2> QED BY <1>1, <1>2, <1>3, <2>1, DoneFrame DEF Inv, Complete
<1>8. ScanOK'
  BY <1>3 DEF ScanOK, IsOpen
<1> QED BY <1>1, <1>2, <1>3, <1>4, <1>5, <1>6, <1>7, <1>8, MainGoesOn DEF Same

\* JoinAll waits for every thread, the ones that still look at the tokens included.
LEMMA JoinKeeps ==
    ASSUME Inv, JoinAll
    PROVE  Inv'
<1>1. /\ Main \in Procs /\ Main \notin Scanners /\ Main \notin {Leaver, Mgr} /\ Main # Leaver
      /\ "cleanup" \in Pcs /\ proc \in [Procs -> Proc] /\ node \in Node /\ pool \in Pool
      /\ batches \in Batches /\ seen \in Seen /\ proc[Main].pc = "join" /\ pool.leavers = 0
      /\ \A p \in Scanners \cup {Leaver} : proc[p].pc = "off"
  BY Types, Threads DEF Pcs, MainPcs, JoinAll, At
<1>2. UNCHANGED <<node, pool, issued, batches, seen, query, changes>>
  BY DEF JoinAll
<1>3. proc' \in [Procs -> Proc] /\ Others(Main) /\ Same(Main) /\ proc'[Main].pc = "cleanup"
  <2>1. Go(Main, "cleanup")
    BY DEF JoinAll
  <2> QED BY <1>1, <2>1, GoFacts
<1>4. ProcOK(Main)'
  BY <1>1, <1>3 DEF ProcOK, MainPcs, Ending
<1>5. CloseOK'
  <2>1. \A p \in Scanners \cup {Leaver} : proc'[p].pc = "off"
    BY <1>1, <1>3, Threads DEF Others
  <2> QED BY <1>1, <1>2, <1>3, <2>1 DEF Inv, CloseOK
<1>6. DoneOK' /\ EosIsComplete'
  <2>1. MainCloses'
    BY <1>3 DEF MainCloses, Closing
  <2> QED BY <1>1, <1>2, <1>3, <2>1, DoneFrame DEF Inv, Complete
<1>7. ScanOK'
  BY <1>3 DEF ScanOK, IsOpen
<1> QED BY <1>1, <1>2, <1>3, <1>4, <1>5, <1>6, <1>7, MainGoesOn DEF Same

\* A step of the main thread that may change the queue or what GetNext says keeps DoneOK.
LEMMA MainDone ==
    ASSUME Inv, Others(Main), node'.done = node.done, node'.complete = node.complete,
           issued' = issued, query' = query, batches'.shutdown = batches.shutdown,
           seen'.errors = seen.errors, Excused => Excused',
           proc'[Main].pc \notin {"cancel", "shutdown"}, proc'[Main].pc = "set_done" => Excused',
           Excused' \/ seen'.made = seen'.returned + Cardinality(Rows'),
           proc'[Main].pc = "get" => ~ReachedLimit' /\ seen'.last = "more"
    PROVE  DoneOK'
<1>1. DoneOK /\ (Complete => Complete')
  BY DEF Inv, Complete
<1>2. \A t \in Scanners : proc'[t] = proc[t]
  BY Threads DEF Others
<1>3. issued'.cancelled \/ batches'.shutdown => node'.done
  BY <1>1 DEF DoneOK
<1>4. \A p \in Scanners \cup {Main} : proc'[p].pc \in {"cancel", "shutdown"} => node'.done
  BY <1>1, <1>2 DEF DoneOK
<1>5. \A t \in Scanners : proc'[t].status = "ERROR" => seen'.errors > 0
  BY <1>1, <1>2 DEF DoneOK
<1>6. \A p \in Scanners \cup {Main} : proc'[p].pc = "set_done" => Excused' \/ Complete'
  BY <1>1, <1>2 DEF DoneOK
<1>7. node'.done => Excused' \/ Complete'
  BY <1>1 DEF DoneOK
<1> QED BY <1>3, <1>4, <1>5, <1>6, <1>7 DEF DoneOK

\* Cleanup returns every batch and its buffer.
LEMMA CleanupKeeps ==
    ASSUME Inv, Cleanup
    PROVE  Inv'
<1>1. /\ Main \in Procs /\ Main \notin Scanners /\ Main \notin {Leaver, Mgr} /\ Main # Leaver
      /\ "closed" \in Pcs /\ proc \in [Procs -> Proc] /\ node \in Node /\ pool \in Pool
      /\ batches \in Batches /\ seen \in Seen /\ proc[Main].pc = "cleanup"
  BY Types, Threads DEF Pcs, MainPcs, Cleanup, At
<1>2. UNCHANGED <<pool, issued, seen, query, changes>>
  BY DEF Cleanup
<1>3. proc' \in [Procs -> Proc] /\ Others(Main) /\ Same(Main) /\ proc'[Main].pc = "closed"
  <2>1. Go(Main, "closed")
    BY DEF Cleanup
  <2> QED BY <1>1, <2>1, GoFacts
<1>4. /\ batches' \in Batches /\ batches'.queue = <<>> /\ batches'.cleanup = 0
      /\ batches'.shutdown = batches.shutdown
  <2>1. batches' = [batches EXCEPT !.queue = <<>>, !.cleanup = 0]
    BY DEF Cleanup
  <2>2. <<>> \in Seq(BOOLEAN)
    BY SMT
  <2>3. DOMAIN batches = {"queue", "cleanup", "shutdown"}
    BY <1>1, SMT DEF Batches
  <2>4. /\ batches'.queue = <<>> /\ batches'.cleanup = 0
        /\ batches'.shutdown = batches.shutdown
    BY ONLY <2>1, <2>3
  <2> QED BY <1>1, <2>1, <2>2, <2>4 DEF Batches
<1>5. /\ node' \in Node /\ node'.done = node.done /\ node'.active = node.active
      /\ node'.all_ranges_started = node.all_ranges_started
      /\ node'.unqueued = node.unqueued /\ node'.complete = node.complete
      /\ node'.owned = node.owned - (Len(batches.queue) + batches.cleanup)
  <2>1. Len(batches.queue) + batches.cleanup \in Int
    <3>1. batches.queue \in Seq(BOOLEAN) /\ batches.cleanup \in Nat
      BY <1>1 DEF Batches
    <3>2. Len(batches.queue) \in Nat
      BY <3>1, SMT
    <3> QED BY <3>1, <3>2, SMT
  <2> QED BY <1>1, <2>1, SMT DEF Node, Cleanup
<1>6. ProcOK(Main)'
  BY <1>1, <1>3 DEF ProcOK, MainPcs, Ending
<1>7. CloseOK'
  <2>1. pool'.leavers = 0 /\ \A p \in Scanners \cup {Leaver} : proc'[p].pc = "off"
    <3>1. \A p \in Scanners \cup {Leaver} : p \in Procs /\ p # Main
      BY <1>1, Threads
    <3> QED BY <1>1, <1>2, <1>3, <3>1 DEF Inv, CloseOK, Others
  <2>2. node'.owned = Len(batches'.queue) + batches'.cleanup
    <3>1. node.owned = Len(batches.queue) + batches.cleanup /\ node.owned \in Int
      BY <1>1 DEF Inv, CloseOK, Node
    <3>2. Len(batches'.queue) = 0
      BY <1>4, SMT
    <3> QED BY <1>4, <1>5, <3>1, <3>2, SMT
  <2> QED BY <1>1, <1>2, <1>3, <1>4, <2>1, <2>2 DEF Inv, CloseOK
<1>8. DoneOK'
  <2>1. Excused'
    BY <1>3 DEF Excused, MainCloses, Closing
  <2> QED BY <1>2, <1>3, <1>4, <1>5, <2>1, MainDone
<1>9. EosIsComplete'
  BY <1>2, <1>5 DEF Inv, EosIsComplete
<1>10. ScanOK'
  BY <1>3 DEF ScanOK, IsOpen
<1> QED BY <1>1, <1>2, <1>3, <1>4, <1>5, <1>6, <1>7, <1>8, <1>9, <1>10, MainGoesOn DEF Same

\* GetNext, up to the queue, keeps the invariant.
LEMMA GetNextKeeps ==
    ASSUME Inv, GetNext
    PROVE  Inv'
<1>1. /\ Main \in Procs /\ Main \notin Scanners /\ Main \notin {Leaver, Mgr}
      /\ "get" \in Pcs /\ proc \in [Procs -> Proc] /\ node \in Node /\ pool \in Pool
      /\ batches \in Batches /\ seen \in Seen /\ proc[Main].pc = "idle" /\ seen.last = "more"
  BY Types, Threads DEF Pcs, MainPcs, GetNext, At
<1>2. UNCHANGED <<node, pool, issued, batches, query, changes>>
  BY DEF GetNext
<1>3. DoneOK /\ EosIsComplete /\ ScanOK /\ CloseOK /\ ProcOK(Main)
  BY <1>1 DEF Inv, ProcsOK
<1>4. CASE ReachedLimit \/ node.status # "OK"
  <2>1. UNCHANGED proc
    BY <1>4 DEF GetNext
  <2>2. PICK last \in {"limit", "error"} : seen' = [seen EXCEPT !.last = last]
    BY <1>4 DEF GetNext
  <2>3. /\ seen' \in Seen /\ seen'.errors = seen.errors /\ seen'.returned = seen.returned
        /\ seen'.made = seen.made /\ seen'.last # "eos"
    BY <1>1, <2>2, SMT DEF Seen
  <2>4. EosIsComplete'
    BY <2>3 DEF EosIsComplete
  <2>5. /\ proc' \in [Procs -> Proc] /\ Others(Main) /\ proc'[Main] = proc[Main]
        /\ proc'[Main].pc = "idle"
    BY <1>1, <2>1 DEF Others
  <2>6. Excused' <=> Excused
    BY <1>2, <2>3, <2>5 DEF Excused, ReachedLimit, MainCloses
  <2>7. Excused \/ seen.made = seen.returned + Cardinality(Rows)
    BY <1>3 DEF DoneOK
  <2>8. Excused' \/ seen'.made = seen'.returned + Cardinality(Rows')
    BY <1>2, <2>3, <2>6, <2>7 DEF Rows
  <2>9. DoneOK'
    BY <1>2, <2>3, <2>5, <2>6, <2>8, MainDone
  <2>10. CloseOK' /\ ScanOK' /\ ProcOK(Main)'
    <3>1. CloseOK' /\ ProcOK(Main)'
      BY <1>2, <1>3, <2>1 DEF CloseOK, ProcOK
    <3>2. ScanOK'
      BY <1>2, <1>3, <2>1 DEF ScanOK, IsOpen, Coming, Remaining
    <3> QED BY <3>1, <3>2
  <2> QED BY <1>1, <1>2, <2>3, <2>4, <2>5, <2>9, <2>10, MainGoesOn
<1>5. CASE ~(ReachedLimit \/ node.status # "OK")
  <2>1. Go(Main, "get") /\ UNCHANGED seen
    BY <1>5 DEF GetNext
  <2>2. proc' \in [Procs -> Proc] /\ Others(Main) /\ Same(Main) /\ proc'[Main].pc = "get"
    BY <1>1, <2>1, GoFacts
  <2>3. ProcOK(Main)'
    BY <1>1, <2>2 DEF ProcOK, MainPcs, Ending
  <2>4. CloseOK'
    BY <1>1, <1>2, <1>3, <2>2, CloseFrame
  <2>5. ScanOK'
    <3>1. IsOpen
      BY <1>1 DEF IsOpen
    <3> QED BY <1>1, <1>2, <1>3, <2>2, <3>1, ScanFrame
  <2>6. EosIsComplete'
    BY <1>2, <1>3, <2>1 DEF EosIsComplete
  <2>7. DoneOK'
    <3>1. ~MainCloses /\ ~ReachedLimit' /\ seen'.last = "more"
      BY <1>1, <1>2, <1>5, <2>1 DEF MainCloses, Closing, Ending, ReachedLimit
    <3>2. Excused => Excused'
      BY <1>2, <2>1, <3>1 DEF Excused, ReachedLimit
    <3>3. Excused \/ seen.made = seen.returned + Cardinality(Rows)
      BY <1>3 DEF DoneOK
    <3>4. Excused' \/ seen'.made = seen'.returned + Cardinality(Rows')
      BY <1>2, <2>1, <3>2, <3>3 DEF Rows
    <3> QED BY <1>2, <2>1, <2>2, <3>1, <3>2, <3>4, MainDone
  <2> QED BY <1>1, <1>2, <2>1, <2>2, <2>3, <2>4, <2>5, <2>6, <2>7, MainGoesOn DEF Same
<1> QED BY <1>4, <1>5

\* A queue without its first batch.
LEMMA TailFacts ==
    ASSUME NEW queue \in Seq(BOOLEAN), queue # <<>>
    PROVE  /\ Tail(queue) \in Seq(BOOLEAN) /\ Len(queue) \in Nat
           /\ Len(Tail(queue)) = Len(queue) - 1
BY SMT

\* GetBatch returns a batch: what was made is still what was returned and what is queued.
LEMMA BatchReturned ==
    ASSUME Inv, GetBatch, batches.queue # <<>>
    PROVE  Inv'
<1>1. /\ Main \in Procs /\ Main \notin Scanners /\ Main \notin {Leaver, Mgr}
      /\ "idle" \in Pcs /\ "set_done" \in Pcs /\ proc \in [Procs -> Proc] /\ node \in Node
      /\ pool \in Pool /\ batches \in Batches /\ seen \in Seen /\ proc[Main].pc = "get"
      /\ query \in [limit : Limits, abort_on_error : BOOLEAN]
  BY Types, Threads DEF Pcs, MainPcs, GetBatch, At
<1>2. UNCHANGED <<pool, issued, query, changes>>
  BY DEF GetBatch
<1>3. /\ batches' = [batches EXCEPT !.queue = Tail(@)]
      /\ node' = [node EXCEPT !.owned = @ - 1]
      /\ seen' = [seen EXCEPT !.returned = IF Head(batches.queue) THEN @ + 1 ELSE @]
      /\ IF seen'.returned >= query.limit THEN Call(Main, "set_done", "idle") ELSE Go(Main, "idle")
  BY DEF GetBatch
<1>4. /\ batches.queue \in Seq(BOOLEAN) /\ batches.cleanup \in Nat /\ seen.returned \in Nat
      /\ seen.made \in Nat
  BY <1>1 DEF Batches, Seen
<1>5. Tail(batches.queue) \in Seq(BOOLEAN) /\ Len(batches.queue) \in Nat
      /\ Len(Tail(batches.queue)) = Len(batches.queue) - 1
  BY <1>4, TailFacts
<1>6. /\ batches' \in Batches /\ batches'.queue = Tail(batches.queue)
      /\ batches'.cleanup = batches.cleanup /\ batches'.shutdown = batches.shutdown
  BY <1>1, <1>3, <1>5 DEF Batches
<1>7. /\ node' \in Node /\ node'.done = node.done /\ node'.active = node.active
      /\ node'.all_ranges_started = node.all_ranges_started
      /\ node'.unqueued = node.unqueued /\ node'.complete = node.complete
      /\ node'.owned = node.owned - 1
  <2>1. node' = [node EXCEPT !.owned = @ - 1]
    BY <1>3
  <2> QED BY <1>1, <2>1, SMT DEF Node
<1>8. /\ seen' \in Seen /\ seen'.errors = seen.errors /\ seen'.made = seen.made
      /\ seen'.last = seen.last
      /\ Head(batches.queue) => seen'.returned = seen.returned + 1
      /\ ~Head(batches.queue) => seen'.returned = seen.returned
  <2>1. CASE Head(batches.queue)
    <3>1. seen' = [seen EXCEPT !.returned = @ + 1]
      BY <1>3, <2>1
    <3>2. /\ seen' \in Seen /\ seen'.errors = seen.errors /\ seen'.made = seen.made
          /\ seen'.last = seen.last /\ seen'.returned = seen.returned + 1
      BY <1>1, <3>1, SMT DEF Seen
    <3> QED BY <2>1, <3>2
  <2>2. CASE ~Head(batches.queue)
    <3>1. seen' = [seen EXCEPT !.returned = @]
      BY <1>3, <2>2
    <3>2. /\ seen' \in Seen /\ seen'.errors = seen.errors /\ seen'.made = seen.made
          /\ seen'.last = seen.last /\ seen'.returned = seen.returned
      BY <1>1, <3>1, SMT DEF Seen
    <3> QED BY <2>2, <3>2
  <2> QED BY <2>1, <2>2
<1>9. /\ proc' \in [Procs -> Proc] /\ Others(Main) /\ Same(Main)
      /\ \/ proc'[Main].pc = "set_done" /\ proc'[Main].ret = "idle" /\ ReachedLimit'
         \/ proc'[Main].pc = "idle"
  <2>1. CASE seen'.returned >= query.limit
    <3>1. Call(Main, "set_done", "idle") /\ ReachedLimit'
      BY <1>2, <1>3, <2>1 DEF ReachedLimit
    <3> QED BY <1>1, <3>1, CallFacts
  <2>2. CASE ~(seen'.returned >= query.limit)
    <3>1. Go(Main, "idle")
      BY <1>3, <2>2
    <3> QED BY <1>1, <3>1, GoFacts
  <2> QED BY <2>1, <2>2
<1>10. ProcOK(Main)'
  BY <1>1, <1>9 DEF ProcOK, MainPcs, Ending
<1>11. CloseOK'
  <2>1. node'.owned = Len(batches'.queue) + batches'.cleanup
    <3>1. node.owned = Len(batches.queue) + batches.cleanup
      BY DEF Inv, CloseOK
    <3>2. Len(batches'.queue) = Len(batches.queue) - 1 /\ batches'.cleanup = batches.cleanup
      BY <1>5, <1>6
    <3>3. node'.owned = node.owned - 1 /\ Len(batches.queue) \in Nat /\ batches.cleanup \in Nat
      BY <1>4, <1>5, <1>7
    <3> QED BY ONLY <3>1, <3>2, <3>3
  <2>2. proc'[Main].pc \notin {"join", "cleanup", "closed"} /\ proc'[Main].pc # "closed"
        /\ proc'[Main].pc \notin {"cleanup", "closed"}
    BY <1>9
  <2> QED BY <1>1, <1>2, <2>1, <2>2 DEF Inv, CloseOK
<1>12. DoneOK /\ ~ReachedLimit /\ seen.last = "more" /\ ~MainCloses
  BY <1>1 DEF Inv, DoneOK, MainCloses, Closing, Ending
<1>13. DoneOK'
  <2>1. Excused => Excused'
    BY <1>8, <1>12 DEF Excused
  <2>2. Excused' \/ seen'.made = seen'.returned + Cardinality(Rows')
    <3>1. CASE Excused
      BY <2>1, <3>1
    <3>2. CASE ~Excused
      <4> DEFINE old == Cardinality(RowsOf(batches.queue))
                 new == Cardinality(RowsOf(batches'.queue))
      <4>1. seen.made = seen.returned + old
        BY <1>12, <3>2 DEF DoneOK, Rows
      <4>2. /\ new \in Nat
            /\ \/ old = new + 1 /\ seen'.returned = seen.returned + 1
               \/ old = new /\ seen'.returned = seen.returned
        BY <1>4, <1>6, <1>8, RowsTail
      <4>3. seen'.made = seen.made
        BY <1>8
      <4> HIDE DEF old, new
      <4>4. seen'.made = seen'.returned + new
        BY <1>4, <4>1, <4>2, <4>3, SMT
      <4> QED BY <4>4 DEF new, Rows
    <3> QED BY <3>1, <3>2
  <2>3. proc'[Main].pc \notin {"cancel", "shutdown", "get"}
        /\ (proc'[Main].pc = "set_done" => Excused')
    BY <1>9 DEF Excused
  <2> QED BY <1>2, <1>6, <1>7, <1>8, <1>9, <2>1, <2>2, <2>3, MainDone
<1>14. EosIsComplete'
  BY <1>8, <1>12 DEF EosIsComplete
<1>15. ScanOK'
  <2>1. IsOpen
    BY <1>1 DEF IsOpen
  <2> QED BY <1>1, <1>2, <1>7, <1>9, <2>1, ScanFrame DEF Inv
<1> QED BY <1>1, <1>2, <1>6, <1>7, <1>8, <1>9, <1>10, <1>11, <1>13, <1>14, <1>15, MainGoesOn
       DEF Same

\* GetBatch returns nothing from an empty queue that was shut down: unless there was an error,
\* the scan is complete, since the limit was not reached and the main thread does not close.
LEMMA EosReturned ==
    ASSUME Inv, GetBatch, batches.queue = <<>>
    PROVE  Inv'
<1>1. /\ Main \in Procs /\ Main \notin Scanners /\ Main \notin {Leaver, Mgr}
      /\ "idle" \in Pcs /\ proc \in [Procs -> Proc] /\ node \in Node
      /\ pool \in Pool /\ batches \in Batches /\ seen \in Seen /\ proc[Main].pc = "get"
  BY Types, Threads DEF Pcs, MainPcs, GetBatch, At
<1>2. UNCHANGED <<pool, issued, query, changes, batches, node>> /\ batches.shutdown
      /\ seen' = [seen EXCEPT !.last = "eos"] /\ Go(Main, "idle")
  BY DEF GetBatch
<1>3. proc' \in [Procs -> Proc] /\ Others(Main) /\ Same(Main) /\ proc'[Main].pc = "idle"
  BY <1>1, <1>2, GoFacts
<1>4. /\ seen' \in Seen /\ seen'.errors = seen.errors /\ seen'.returned = seen.returned
      /\ seen'.made = seen.made /\ seen.made \in Nat /\ seen.returned \in Nat /\ seen.errors \in Nat
  BY <1>1, <1>2, SMT DEF Seen
<1>5. ProcOK(Main)'
  BY <1>1, <1>3 DEF ProcOK, MainPcs, Ending
<1>6. CloseOK'
  BY <1>1, <1>2, <1>3, CloseFrame DEF Inv
<1>7. DoneOK /\ ~ReachedLimit /\ ~MainCloses
  BY <1>1 DEF Inv, DoneOK, MainCloses, Closing, Ending
<1>8. DoneOK'
  <2>1. Excused => Excused'
    BY <1>2, <1>4, <1>7 DEF Excused
  <2>2. Excused \/ seen.made = seen.returned + Cardinality(Rows)
    BY <1>7 DEF DoneOK
  <2>3. Excused' \/ seen'.made = seen'.returned + Cardinality(Rows')
    BY <1>2, <1>4, <2>1, <2>2 DEF Rows
  <2> QED BY <1>2, <1>3, <1>4, <2>1, <2>3, MainDone
<1>9. EosIsComplete'
  <2>1. CASE seen.errors # 0
    BY <1>4, <2>1 DEF EosIsComplete
  <2>2. CASE seen.errors = 0
    <3>1. ~(seen.errors > 0)
      BY <2>2, SMT
    <3>2. ~Excused
      BY <1>7, <3>1 DEF Excused
    <3>3. Complete /\ seen.made = seen.returned + Cardinality(Rows)
      BY <1>2, <1>7, <3>2 DEF DoneOK
    <3>4. Rows = {}
      <4>1. DOMAIN batches.queue = {}
        BY SMT
      <4> QED BY <4>1 DEF Rows, RowsOf
    <3>5. Cardinality(Rows) = 0
      BY <3>4, FS_EmptySet
    <3>6. seen.made = seen.returned
      BY <1>4, <3>3, <3>5, SMT
    <3> QED BY <1>2, <1>4, <3>3, <3>6 DEF EosIsComplete, Complete
  <2> QED BY <2>1, <2>2
<1>10. ScanOK'
  <2>1. IsOpen
    BY <1>1 DEF IsOpen
  <2> QED BY <1>1, <1>2, <1>3, <2>1, ScanFrame DEF Inv
<1> QED BY <1>1, <1>2, <1>3, <1>4, <1>5, <1>6, <1>8, <1>9, <1>10, MainGoesOn DEF Same

\* The main thread takes a file off its list.
LEMMA TodoFacts ==
    ASSUME proc \in [Procs -> Proc], NEW p \in Procs, NEW f, NEW pc \in Pcs,
           proc' = [proc EXCEPT ![p].todo = @ \ {f}, ![p].ret = "open", ![p].pc = pc]
    PROVE  /\ proc' \in [Procs -> Proc] /\ Others(p) /\ proc'[p].pc = pc
           /\ proc'[p].ret = "open" /\ proc'[p].todo = proc[p].todo \ {f}
<1> DEFINE r == [[[proc[p] EXCEPT !.todo = @ \ {f}] EXCEPT !.ret = "open"] EXCEPT !.pc = pc]
<1>1. proc' = [proc EXCEPT ![p] = r]
  OBVIOUS
<1>2. proc[p] \in Proc /\ "open" \in Pcs
  BY DEF Pcs, MainPcs
<1>3. r \in Proc /\ r.pc = pc /\ r.ret = "open" /\ r.todo = proc[p].todo \ {f}
  BY <1>2 DEF Proc
<1> HIDE DEF r
<1>4. proc' \in [Procs -> Proc] /\ proc'[p] = r /\ Others(p)
  BY ONLY <1>1, <1>3, proc \in [Procs -> Proc], p \in Procs, Zenon DEF Others
<1> QED BY <1>3, <1>4

\* A step of the main thread that issues ranges while a file is left to issue.
LEMMA MainIssues ==
    ASSUME Inv, proc[Main].pc = "open", Others(Main), proc' \in [Procs -> Proc],
           proc'[Main].pc \in {"mark", "cb"}, proc'[Main].ret = "open",
           issued' \in Issued, issued'.cancelled = issued.cancelled,
           UNCHANGED <<node, pool, batches, seen, query, changes>>,
           Unissued # {} \/ issued'.ranges = issued.ranges, Exclusive', Counts'
    PROVE  Inv'
<1>1. Main \in Procs /\ Main \notin Scanners /\ Main \notin {Leaver, Mgr}
  BY Threads
<1>2. TypeOK'
  BY Types DEF TypeOK
<1>3. ProcsOK'
  <2>1. ProcOK(Main)'
    BY <1>1 DEF ProcOK, MainPcs, Ending
  <2> QED BY <1>1, <2>1, ProcsFrame DEF Inv
<1>4. LockOK' /\ TokensOK'
  BY <1>1, LockFrame, TokensFrame DEF Inv
<1>5. CloseOK'
  BY <1>1, CloseFrame DEF Inv
<1>6. Snapshots' /\ AllStartedIsStarted'
  <2>1. Snapshots /\ AllStartedIsStarted /\ Counts /\ node.unqueued \in Int /\ node.complete \in Nat
    BY Types DEF Inv, Node
  <2>2. CASE issued'.ranges = issued.ranges
    BY <1>1, <2>1, <2>2, SnapshotsFrame
  <2>3. CASE Unissued # {}
    <3>1. node.unqueued # 0
      BY <2>1, <2>3, NothingLeft
    <3>2. ASSUME NEW u \in Scanners PROVE SnapshotOK(u)'
      <4>1. proc'[u] = proc[u] /\ SnapshotOK(u)
        BY <2>1, Threads DEF Others, Snapshots
      <4> QED BY <3>1, <4>1 DEF SnapshotOK
    <3>3. AllStartedIsStarted'
      BY <2>1, <3>1 DEF AllStartedIsStarted
    <3> QED BY <3>2, <3>3 DEF Snapshots
  <2> QED BY <2>2, <2>3
<1>7. DoneOK' /\ EosIsComplete'
  <2>1. ~MainCloses
    BY DEF MainCloses, Closing, Ending
  <2> QED BY <1>1, <2>1, DoneFrame DEF Inv, Complete
<1>8. ScanOK'
  BY <1>1 DEF ScanOK, IsOpen, Coming
<1> QED BY <1>2, <1>3, <1>4, <1>5, <1>6, <1>7, <1>8 DEF Inv

\* Open issues the splits of a text file.
LEMMA IssueText ==
    ASSUME Inv, proc[Main].pc = "open", NEW f \in proc[Main].todo, f # "headers",
           issued' = [issued EXCEPT !.ranges = @ \cup Splits[f]],
           Others(Main), proc' \in [Procs -> Proc], proc'[Main].pc = "mark",
           proc'[Main].ret = "open", proc'[Main].todo = proc[Main].todo \ {f},
           UNCHANGED <<node, pool, batches, seen, query, changes>>
    PROVE  Inv'
<1>1. Main \in Procs /\ Main \notin Scanners /\ proc \in [Procs -> Proc] /\ issued \in Issued
  BY Types, Threads
<1>2. f \in TextFiles /\ f \in Files /\ f \notin SequenceFiles
  <2>1. f \in TextFiles
    BY <1>1 DEF Proc
  <2> QED BY <2>1, ScanAssumption, Names
<1>3. Splits[f] \subseteq Ranges
  BY <1>2, Names
<1>4. /\ issued' \in Issued /\ issued'.ranges = issued.ranges \cup Splits[f]
      /\ issued'.cancelled = issued.cancelled
  BY <1>1, <1>3, SMT DEF Issued
<1>5. f \in Todo /\ f \notin Todo' /\ Todo' \subseteq Todo
  BY ONLY <1>2, f \in proc[Main].todo, f # "headers",
          proc'[Main].todo = proc[Main].todo \ {f}, Zenon DEF Todo
<1>6. f \in Unissued /\ f \notin issued.ranges
  BY ONLY Inv, <1>2, <1>5, Zenon DEF Unissued, Inv, Exclusive
<1>7. ASSUME NEW u \in Scanners, Owns(u)' PROVE u # Main /\ proc[u].range # f
  <2>1. Owns(u) /\ u # Main
    BY ONLY u \in Scanners, <1>7, <1>1, Others(Main), Threads, Zenon DEF Owns, Opens, Others
  <2> QED BY ONLY Inv, u \in Scanners, <1>5, <2>1, Zenon DEF Inv, Exclusive
<1>8. Exclusive' /\ Counts'
  <2>1. Main \in Scanners \cup {Main} /\ proc[Main].pc # "mark"
        /\ node'.unqueued = node.unqueued /\ node'.complete = node.complete
    BY ONLY proc[Main].pc = "open", UNCHANGED node, Zenon
  <2> QED BY ONLY Inv, Others(Main), <1>2, <1>4, <1>5, <1>6, <1>7, <2>1, IssueFile, Zenon
<1> QED BY ONLY Inv, proc[Main].pc = "open", Others(Main), proc' \in [Procs -> Proc],
                proc'[Main].pc = "mark", proc'[Main].ret = "open",
                UNCHANGED <<node, pool, batches, seen, query, changes>>,
                <1>4, <1>6, <1>8, MainIssues, Zenon

\* Open issues the headers of the sequence files: the files stay unissued.
LEMMA IssueHeaders ==
    ASSUME Inv, proc[Main].pc = "open", proc[Main].todo = {"headers"},
           issued' = [issued EXCEPT !.ranges = @ \cup SequenceFiles],
           Others(Main), proc' \in [Procs -> Proc], proc'[Main].pc = "cb",
           proc'[Main].ret = "open", proc'[Main].todo = proc[Main].todo \ {"headers"},
           UNCHANGED <<node, pool, batches, seen, query, changes>>
    PROVE  Inv'
<1>1. Main \in Procs /\ Main \notin Scanners /\ proc \in [Procs -> Proc] /\ issued \in Issued
      /\ SequenceFiles \subseteq Ranges /\ Exclusive
  BY Types, Threads, Names DEF Inv
<1>2. /\ issued' \in Issued /\ issued'.ranges = issued.ranges \cup SequenceFiles
      /\ issued'.cancelled = issued.cancelled
  BY <1>1, SMT DEF Issued
<1>3. Todo = SequenceFiles /\ Todo' = {}
  <2>1. /\ \A g : g \in proc[Main].todo <=> g = "headers"
        /\ \A g : g \notin proc'[Main].todo
    BY ONLY proc[Main].todo = {"headers"}, proc'[Main].todo = proc[Main].todo \ {"headers"}, Zenon
  <2>2. "headers" \notin TextFiles
    BY ONLY ScanAssumption, Zenon
  <2>3. Todo = SequenceFiles
    BY ONLY <2>1, <2>2, Zenon DEF Todo
  <2>4. Todo' = {}
    BY ONLY <2>1, Zenon DEF Todo
  <2> QED BY ONLY <2>3, <2>4, Zenon
<1>4. \A u \in Scanners : proc'[u] = proc[u] /\ (Owns(u)' <=> Owns(u)) /\ (Opens(u)' <=> Opens(u))
  BY ONLY <1>1, Others(Main), Threads, Zenon DEF Owns, Opens, Others
<1>5. Unissued' = Unissued
  BY ONLY <1>2, <1>3, <1>4, Zenon DEF Unissued
<1>6. Left' \subseteq Left
  BY ONLY <1>2, <1>4, <1>5, Names, Zenon DEF Left
<1>7. Marking' \subseteq Marking
  BY ONLY <1>1, <1>4, proc'[Main].pc = "cb", Zenon DEF Marking
<1>8. Exclusive'
  <2>1. \A g \in Unissued' : Splits[g] \cap issued'.ranges = {}
    <3>1. \A g \in Unissued : Splits[g] \cap issued.ranges = {} /\ g \in Files
      BY ONLY <1>1, Zenon DEF Exclusive, Unissued
    <3> QED BY ONLY <1>2, <1>5, <3>1, Names, Zenon
  <2>2. ASSUME NEW u \in Scanners, Owns(u)'
        PROVE  /\ proc'[u].range \notin issued'.ranges /\ proc'[u].range \notin Todo'
               /\ \A v \in Scanners \ {u} : Owns(v)' => proc'[v].range # proc'[u].range
               /\ \A g \in Unissued' : proc'[u].range \notin Splits[g]
    <3>1. Owns(u) /\ proc'[u] = proc[u]
      BY ONLY u \in Scanners, <1>4, <2>2, Zenon
    <3>2. proc'[u].range \notin issued'.ranges /\ proc'[u].range \notin Todo'
      BY ONLY u \in Scanners, <1>1, <1>2, <1>3, <3>1, Zenon DEF Exclusive
    <3>3. \A v \in Scanners \ {u} : Owns(v)' => proc'[v].range # proc'[u].range
      BY ONLY u \in Scanners, <1>1, <1>4, <3>1, Zenon DEF Exclusive
    <3>4. \A g \in Unissued' : proc'[u].range \notin Splits[g]
      BY ONLY u \in Scanners, <1>1, <1>5, <3>1, Zenon DEF Exclusive
    <3> QED BY ONLY <3>2, <3>3, <3>4, Zenon
  <2> QED BY ONLY <1>3, <2>1, <2>2, Zenon DEF Exclusive
<1>9. Counts'
  BY ONLY Inv, UNCHANGED node, <1>5, <1>6, <1>7, Types, CountsFrame, Zenon DEF Inv, Shrinks
<1>10. Unissued # {} \/ issued'.ranges = issued.ranges
  BY ONLY <1>2, <1>3, Names, Zenon DEF Unissued
<1> QED BY ONLY Inv, proc[Main].pc = "open", Others(Main), proc' \in [Procs -> Proc],
                proc'[Main].pc = "cb", proc'[Main].ret = "open",
                UNCHANGED <<node, pool, batches, seen, query, changes>>,
                <1>2, <1>8, <1>9, <1>10, MainIssues, Zenon

\* Open keeps the invariant.
LEMMA IssueKeeps ==
    ASSUME Inv, Issue
    PROVE  Inv'
<1>1. /\ Main \in Procs /\ proc[Main].pc = "open" /\ proc \in [Procs -> Proc]
      /\ "mark" \in Pcs /\ "cb" \in Pcs
  BY Types, Threads DEF Issue, At, Pcs, MainPcs
<1>2. UNCHANGED <<node, pool, batches, seen, query, changes>>
  BY DEF Issue
<1>3. CASE issued.cancelled
  <2>1. Call(Main, "set_done", "clear_cb") /\ UNCHANGED issued
    BY <1>3 DEF Issue
  <2> QED BY <1>1, <1>2, <2>1, MainEnds
<1>4. ASSUME NEW f \in proc[Main].todo, f # "headers",
             issued' = [issued EXCEPT !.ranges = @ \cup Splits[f]],
             proc' = [proc EXCEPT ![Main].todo = @ \ {f}, ![Main].ret = "open",
                                  ![Main].pc = "mark"]
      PROVE  Inv'
  <2>1. /\ proc' \in [Procs -> Proc] /\ Others(Main) /\ proc'[Main].pc = "mark"
        /\ proc'[Main].ret = "open" /\ proc'[Main].todo = proc[Main].todo \ {f}
    BY <1>1, <1>4, TodoFacts
  <2> QED BY ONLY Inv, f \in proc[Main].todo, f # "headers",
                  issued' = [issued EXCEPT !.ranges = @ \cup Splits[f]],
                  <1>1, <1>2, <2>1, IssueText, Zenon
<1>5. ASSUME proc[Main].todo = {"headers"},
             issued' = [issued EXCEPT !.ranges = @ \cup SequenceFiles],
             proc' = [proc EXCEPT ![Main].todo = @ \ {"headers"}, ![Main].ret = "open",
                                  ![Main].pc = "cb"]
      PROVE  Inv'
  <2>1. /\ proc' \in [Procs -> Proc] /\ Others(Main) /\ proc'[Main].pc = "cb"
        /\ proc'[Main].ret = "open" /\ proc'[Main].todo = proc[Main].todo \ {"headers"}
    BY <1>1, <1>5, TodoFacts
  <2> QED BY ONLY Inv, proc[Main].todo = {"headers"},
                  issued' = [issued EXCEPT !.ranges = @ \cup SequenceFiles],
                  <1>1, <1>2, <2>1, IssueHeaders, Zenon
<1>6. CASE ~issued.cancelled
  <2>1. PICK f \in proc[Main].todo :
          /\ f = "headers" => proc[Main].todo = {"headers"}
          /\ issued' = [issued EXCEPT !.ranges = @ \cup
                          IF f = "headers" THEN SequenceFiles ELSE Splits[f]]
          /\ proc' = [proc EXCEPT ![Main].todo = @ \ {f}, ![Main].ret = "open",
                                  ![Main].pc = IF f = "headers" THEN "cb" ELSE "mark"]
    BY <1>6 DEF Issue
  <2>2. CASE f = "headers"
    BY <1>5, <2>1, <2>2
  <2>3. CASE f # "headers"
    BY <1>4, <2>1, <2>3
  <2> QED BY <2>2, <2>3
<1> QED BY <1>3, <1>6

-------------------------------------------------------------------------------
(* The theorems *)

\* Every step of a thread keeps the invariant.
LEMMA NextInv == Inv /\ [Next]_vars => Inv'
<1> SUFFICES ASSUME Inv, [Next]_vars PROVE Inv'
  BY SMT
<1>1. ASSUME NEW t \in Scanners, ScannerStep(t) PROVE Inv'
  <2>1. CASE Top(t)
    BY <2>1, TopKeeps
  <2>2. CASE GetNextRange(t)
    BY <2>2, GetNextRangeKeeps
  <2>3. CASE Process(t)
    BY <2>3, ProcessKeeps
  <2>4. CASE Finish(t)
    BY <2>4, FinishKeeps
  <2>5. CASE Header(t)
    BY <2>5, HeaderKeeps
  <2>6. CASE AddRanges(t)
    BY <2>6, AddRangesKeeps
  <2>7. CASE At(t, "add_batch") /\ AddBatch(t, "finish")
    BY <2>7, AddBatchKeeps DEF At
  <2>8. CASE At(t, "final") /\ AddBatch(t, "complete")
    BY <2>8, AddBatchKeeps DEF At
  <2>9. CASE RangeComplete(t)
    BY <2>9, RangeCompleteKeeps
  <2>10. CASE Status(t)
    BY <2>10, StatusKeeps
  <2>11. CASE Leave(t)
    BY <2>11, LeaveKeeps
  <2>12. CASE ReleaseThreadToken(t)
    BY <2>12, ReleaseKeeps
  <2>13. CASE Available(t)
    BY <2>13, AvailableKeeps
  <2> QED BY <1>1, <2>1, <2>2, <2>3, <2>4, <2>5, <2>6, <2>7, <2>8, <2>9, <2>10, <2>11, <2>12,
             <2>13 DEF ScannerStep
<1>2. ASSUME NEW p \in Procs, Shared(p) PROVE Inv'
  <2>1. CASE SetDone(p) \/ CancelReader(p) \/ Shutdown(p)
    BY <2>1, SetDoneKeeps
  <2>2. CASE MarkFileDescIssued(p)
    BY <2>2, MarkKeeps
  <2>3. CASE ThreadTokenAvailableCb(p)
    BY <2>3, CallbackKeeps
  <2> QED BY <1>2, <2>1, <2>2, <2>3 DEF Shared
<1>3. ASSUME NEW p \in {Leaver, Mgr}, CallbackStep(p) PROVE Inv'
  BY <1>3, LockedCallbackKeeps, UnlockKeeps DEF CallbackStep
<1>4. CASE LeaverStarts
  BY <1>4, LeaverStartsKeeps
<1>5. CASE UpdatePoolQuotas
  BY <1>5, QuotasKeeps
<1>6. CASE MainStep
  <2>1. CASE Issue
    BY <2>1, IssueKeeps
  <2>2. CASE Opened
    BY <2>2, OpenedKeeps
  <2>3. CASE GetBatch
    BY <2>3, BatchReturned, EosReturned
  <2>4. CASE SetThreadAvailableCb
    BY <2>4, SetCallbackKeeps
  <2>5. CASE JoinAll
    BY <2>5, JoinKeeps
  <2>6. CASE Cleanup
    BY <2>6, CleanupKeeps
  <2> QED BY <1>6, <2>1, <2>2, <2>3, <2>4, <2>5, <2>6 DEF MainStep
<1>7. CASE GetNext
  BY <1>7, GetNextKeeps
<1>8. CASE Close
  BY <1>8, CloseKeeps
<1>9. CASE UNCHANGED vars
  <2>1. UNCHANGED <<proc, node, pool, issued, batches, seen, query, changes>>
    BY <1>9 DEF vars
  <2>2. TypeOK' /\ ProcsOK'
    BY <2>1 DEF Inv, TypeOK, ProcsOK, ProcOK
  <2>3. LockOK' /\ CloseOK'
    BY <2>1 DEF Inv, LockOK, CloseOK
  <2>4. TokensOK'
    BY <2>1 DEF Inv, TokensOK, Active, Tokens
  <2>5. Todo' = Todo /\ \A t : (Opens(t)' <=> Opens(t)) /\ (Owns(t)' <=> Owns(t))
    BY <2>1 DEF Todo, Opens, Owns
  <2>6. Unissued' = Unissued /\ Marking' = Marking
    BY <2>1, <2>5 DEF Unissued, Marking
  <2>7. Left' = Left
    BY <2>1, <2>5, <2>6 DEF Left
  <2>8. Exclusive'
    BY <2>1, <2>5, <2>6 DEF Inv, Exclusive
  <2>9. Counts'
    BY <2>1, <2>6, <2>7 DEF Inv, Counts
  <2>10. Snapshots' /\ AllStartedIsStarted' /\ EosIsComplete'
    BY <2>1 DEF Inv, Snapshots, SnapshotOK, AllStartedIsStarted, EosIsComplete
  <2>11. DoneOK'
    BY <2>1 DEF Inv, DoneOK, Excused, Complete, Rows, ReachedLimit, MainCloses
  <2>12. ScanOK'
    BY <2>1 DEF Inv, ScanOK, IsOpen, Coming, Remaining
  <2> QED BY <2>2, <2>3, <2>4, <2>8, <2>9, <2>10, <2>11, <2>12 DEF Inv
<1>10. CASE Terminated
  BY <1>9, <1>10 DEF Terminated
<1> QED BY <1>1, <1>2, <1>3, <1>4, <1>5, <1>6, <1>7, <1>8, <1>9, <1>10 DEF Next

\* The inductive invariant of the scan node, its scanner threads and its pool.
THEOREM ScanNodeInvariant == Spec => []Inv
BY InitInv, NextInv, PTL DEF Spec

\* all_ranges_started_ is only set when every file was issued and every range handed out: a
\* thread that found num_unqueued_files_ to be 0 before GetNextRange returned nothing knows that
\* no header can add a range any more.
THEOREM AllStartedTheorem == Spec => []AllStartedIsStarted
<1>1. Inv => AllStartedIsStarted
  BY DEF Inv
<1> QED BY <1>1, ScanNodeInvariant, PTL

\* GetNext says eos without an error only when every split was processed and every batch of rows
\* that was made was returned, for every number of threads, files and splits.
THEOREM EosTheorem == Spec => []EosIsComplete
<1>1. Inv => EosIsComplete
  BY DEF Inv
<1> QED BY <1>1, ScanNodeInvariant, PTL

\* When Close returns no thread is active, has a token or calls back, and no batch is left.
THEOREM CloseTheorem == Spec => []CloseIsClean
<1>1. ASSUME Inv, proc[Main].pc = "closed"
      PROVE  /\ node.active = 0 /\ pool.optional = 0 /\ node.owned = 0
             /\ batches.queue = <<>> /\ batches.cleanup = 0
             /\ \A p \in Procs : proc[p].pc # "cb"
  <2>1. /\ ~pool.cb /\ pool.lock = None /\ \A p \in Scanners \cup {Leaver} : proc[p].pc = "off"
        /\ batches.queue = <<>> /\ batches.cleanup = 0
        /\ node.owned = Len(batches.queue) + batches.cleanup
    BY <1>1 DEF Inv, CloseOK
  <2>2. node.owned = 0
    BY <2>1, SMT
  <2>3. Active = {} /\ Tokens = {}
    BY <2>1 DEF Active, Tokens
  <2>4. node.active = 0 /\ pool.optional = 0
    BY <1>1, <2>3, FS_EmptySet DEF Inv, TokensOK
  <2>5. ASSUME NEW p \in Procs PROVE proc[p].pc # "cb"
    <3>1. proc[Mgr].pc # "cb"
      BY <1>1, <2>1, Threads DEF Inv, LockOK
    <3>2. p = Main \/ p = Mgr \/ p \in Scanners \cup {Leaver}
      BY Threads
    <3> QED BY <1>1, <2>1, <3>1, <3>2
  <2> QED BY <2>1, <2>2, <2>4, <2>5
<1>2. Inv => CloseIsClean
  BY <1>1 DEF CloseIsClean, At
<1> QED BY <1>2, ScanNodeInvariant, PTL

\* While a range waits and the node is not done, a thread is active or will be started, whatever
\* the quotas are and however the threads that leave race with the ones that call back.
THEOREM SomebodyScansTheorem == Spec => []SomebodyScans
<1>1. Inv => SomebodyScans
  BY DEF Inv, ScanOK, IsOpen, Coming, SomebodyScans, At
<1> QED BY <1>1, ScanNodeInvariant, PTL

================================================================================
