----------------------------- MODULE HdfsScanNode ------------------------------
(***************************************************************************)
(* HdfsScanNode (be/src/exec/hdfs-scan-node.cc): the main thread of the      *)
(* fragment that opens, reads and closes the node, the scanner threads that  *)
(* come and go with the thread tokens of the query's ResourcePool            *)
(* (be/src/runtime/thread-resource-mgr.{h,cc}), and the thread that changes  *)
(* the pools' quotas.  Text files are issued as their splits, sequence files *)
(* as a header whose scanner issues the splits (base-sequence-scanner.cc).   *)
(*                                                                           *)
(* The I/O manager is what it promises here: GetNextRange hands out every    *)
(* range once and returns.  Batches go through a RowBatchQueue.              *)
(***************************************************************************)
EXTENDS Integers, Sequences, FiniteSets, FiniteSetsExt

CONSTANTS
    Main,                   \* the fragment's thread
    Scanners,               \* the scanner threads
    Leaver,                 \* a scanner thread that gave its token back and calls back
    Mgr,                    \* the thread of the query that (un)registers a pool
    TextFiles, SequenceFiles,
    Splits,                 \* the splits of each file
    MaxBatches,             \* max_materialized_row_batches_
    Limits,                 \* the values of limit_, in batches
    Quotas,                 \* the values of per_pool_quota_
    MaxErrors, MaxChanges   \* bounds on failing ranges and on changes of the quota

Files == TextFiles \cup SequenceFiles
SplitsOf(fs) == UNION {Splits[f] : f \in fs}
\* A range is a split or, in SequenceFiles, the header of a file
Ranges == SplitsOf(Files) \cup SequenceFiles
Procs == Scanners \cup {Main, Leaver, Mgr}
None == "none"

Reserved == 1       \* ReserveOptionalTokens(1)
Required == 1       \* the token of the fragment's own thread

ASSUME ScanAssumption ==
    /\ IsFiniteSet(Files) /\ TextFiles \cap SequenceFiles = {} /\ "headers" \notin TextFiles
    /\ Splits \in [Files -> SUBSET SplitsOf(Files)]
    /\ \A f, g \in Files : Splits[f] # {} /\ (f # g => Splits[f] \cap Splits[g] = {})
    /\ IsFiniteSet(SplitsOf(Files)) /\ SplitsOf(Files) \cap Files = {}
    /\ None \notin Ranges \cup Procs
    /\ IsFiniteSet(Scanners) /\ Scanners \cap {Main, Leaver, Mgr} = {}
    /\ Main # Leaver /\ Main # Mgr /\ Leaver # Mgr
    /\ MaxBatches \in Nat \ {0} /\ Limits \subseteq Nat
    /\ \A q \in Quotas : q \in Nat /\ Cardinality(Scanners) >= Max({Reserved, q - Required})

VARIABLES
    proc,       \* per thread: where it is, where it returns to, and its locals
    node,       \* the node's fields
    pool,       \* the ResourcePool
    issued,     \* the ranges the I/O manager has not handed out, and whether it is cancelled
    batches,    \* the row batch queue: whether each batch has rows
    seen,       \* history: batches with rows made and returned, ranges that failed, what
                \* GetNext last said
    query,      \* the query's limit and options
    changes

vars == <<proc, node, pool, issued, batches, seen, query, changes>>

-------------------------------------------------------------------------------
(* State *)

NewProc(pc) == [pc |-> pc, ret |-> pc, range |-> None, unqueued |-> 0, status |-> "OK",
                todo |-> {}]

Init ==
    /\ proc = [p \in Procs |-> IF p = Main
                 THEN [NewProc("open") EXCEPT !.todo = TextFiles \cup
                          (IF SequenceFiles = {} THEN {} ELSE {"headers"})]
                 ELSE NewProc("off")]
    /\ node = [done |-> FALSE, all_ranges_started |-> FALSE, status |-> "OK", active |-> 0,
               unqueued |-> Cardinality(Files), complete |-> 0, owned |-> 0]
    /\ \E q \in Quotas :
         pool = [optional |-> 0, cb |-> TRUE, lock |-> None, quota |-> q, leavers |-> 0]
    /\ issued = [ranges |-> {}, cancelled |-> FALSE]
    /\ batches = [queue |-> <<>>, cleanup |-> 0, shutdown |-> FALSE]
    /\ seen = [made |-> 0, returned |-> 0, errors |-> 0, last |-> "more"]
    /\ query \in [limit : Limits, abort_on_error : BOOLEAN] /\ changes = 0

At(p, pc) == proc[p].pc = pc
Go(p, pc) == proc' = [proc EXCEPT ![p].pc = pc]
Call(p, pc, ret) == proc' = [proc EXCEPT ![p].pc = pc, ![p].ret = ret]
\* The locals are of no use any more
Start(p, pc) == proc' = [proc EXCEPT ![p] = NewProc(pc)]

Remaining == Cardinality(SplitsOf(Files)) - node.complete

-------------------------------------------------------------------------------
(* The ResourcePool: tokens *)

optional_exceeded == pool.optional > Reserved /\ pool.optional + Required > pool.quota

TryAcquireThreadToken ==
    pool.optional + 1 <= Reserved \/ pool.optional + 1 + Required <= pool.quota

num_available_threads ==
    Max({0, pool.quota - (pool.optional + Required), Reserved - pool.optional})

-------------------------------------------------------------------------------
(* SetDone, in three steps, and ThreadTokenAvailableCb, by the thread that calls it *)

SetDone(p) ==
    /\ At(p, "set_done")
    /\ IF node.done THEN Start(p, proc[p].ret) /\ UNCHANGED node
       ELSE Go(p, "cancel") /\ node' = [node EXCEPT !.done = TRUE]
    /\ UNCHANGED <<pool, issued, batches, seen, query, changes>>

CancelReader(p) ==
    /\ At(p, "cancel")
    /\ issued' = [ranges |-> {}, cancelled |-> TRUE]
    /\ Go(p, "shutdown")
    /\ UNCHANGED <<node, pool, batches, seen, query, changes>>

Shutdown(p) ==
    /\ At(p, "shutdown")
    /\ batches' = [batches EXCEPT !.shutdown = TRUE]
    /\ Start(p, proc[p].ret)
    /\ UNCHANGED <<node, pool, issued, seen, query, changes>>

StartNeeded ==
    /\ ~node.done /\ ~node.all_ranges_started /\ node.active < Remaining
    /\ TryAcquireThreadToken

\* One pass of the loop of ThreadTokenAvailableCb, under lock_
ThreadTokenAvailableCb(p) ==
    /\ At(p, "cb")
    /\ IF StartNeeded
       THEN \E t \in Scanners :
              /\ At(t, "off")
              /\ proc' = [proc EXCEPT ![t] = NewProc("top")]
              /\ node' = [node EXCEPT !.active = @ + 1]
              /\ pool' = [pool EXCEPT !.optional = @ + 1]
       ELSE Go(p, proc[p].ret) /\ UNCHANGED <<node, pool>>
    /\ UNCHANGED <<issued, batches, seen, query, changes>>

-------------------------------------------------------------------------------
(* ScannerThread *)

\* The top of the loop and the snapshot of num_unqueued_files_
Top(t) ==
    /\ At(t, "top")
    /\ IF node.done \/ optional_exceeded THEN Start(t, "leave")
       ELSE proc' = [proc EXCEPT ![t].pc = "range", ![t].unqueued = node.unqueued]
    /\ UNCHANGED <<node, pool, issued, batches, seen, query, changes>>

\* GetNextRange and the scanner for the range
GetNextRange(t) ==
    /\ At(t, "range")
    /\ \/ /\ issued.ranges = {}
          /\ proc' = [proc EXCEPT ![t].pc = "status", ![t].range = None,
                                  ![t].status = IF issued.cancelled THEN "CANCELLED" ELSE "OK"]
          /\ UNCHANGED issued
       \/ \E r \in issued.ranges :
          /\ issued' = [issued EXCEPT !.ranges = @ \ {r}]
          /\ proc' = [proc EXCEPT ![t].pc = IF r \in SequenceFiles THEN "header" ELSE "process",
                                  ![t].range = r, ![t].status = "OK"]
    /\ UNCHANGED <<node, pool, batches, seen, query, changes>>

Failing(t) == /\ seen.errors < MaxErrors
              /\ seen' = [seen EXCEPT !.errors = @ + 1]

\* A range of a file that is not a header: ProcessSplit goes on with a full batch, or ends
Process(t) ==
    /\ At(t, "process")
    /\ \/ /\ Call(t, "add_batch", "finish") /\ UNCHANGED seen
       \/ /\ \E s \in {"OK"} \cup {x \in {"CANCELLED"} : issued.cancelled} :
                proc' = [proc EXCEPT ![t].pc = "final", ![t].status = s]
          /\ UNCHANGED seen
       \/ /\ Failing(t)
          /\ proc' = [proc EXCEPT ![t].pc = "final", ![t].status = "ERROR"]
    /\ UNCHANGED <<node, pool, issued, batches, query, changes>>

\* After a batch was added, the scanner sees whether the node is done (CommitRows)
Finish(t) ==
    /\ At(t, "finish")
    /\ proc' = [proc EXCEPT ![t].pc = "final",
                            ![t].status = IF node.done THEN "CANCELLED" ELSE "OK"]
    /\ UNCHANGED <<node, pool, issued, batches, seen, query, changes>>

\* A header: the file's ranges are added; or it cannot be read, because of an error or
\* because the reader was cancelled, and the file is skipped or the scan fails
Header(t) ==
    /\ At(t, "header")
    /\ \/ Go(t, "add_ranges") /\ UNCHANGED <<node, seen>>
       \/ \E s \in {"ERROR", "CANCELLED"} :
          /\ IF s = "ERROR" THEN Failing(t) ELSE issued.cancelled /\ UNCHANGED seen
          /\ IF query.abort_on_error
             THEN /\ proc' = [proc EXCEPT ![t].pc = "final", ![t].status = s]
                  /\ UNCHANGED node
             ELSE /\ Go(t, "final")
                  /\ node' = [node EXCEPT !.complete = @ + Cardinality(Splits[proc[t].range])]
    /\ UNCHANGED <<pool, issued, batches, query, changes>>

\* AddDiskIoRanges of a file: AddScanRanges, then MarkFileDescIssued, then the callback.
\* The scanner ignores that the reader was cancelled.
AddRanges(t) ==
    /\ At(t, "add_ranges")
    /\ IF issued.cancelled THEN Go(t, "final") /\ UNCHANGED issued
       ELSE /\ Call(t, "mark", "final")
            /\ issued' = [issued EXCEPT !.ranges = @ \cup Splits[proc[t].range]]
    /\ UNCHANGED <<node, pool, batches, seen, query, changes>>

MarkFileDescIssued(p) ==
    /\ At(p, "mark")
    /\ node' = [node EXCEPT !.unqueued = @ - 1]
    /\ Go(p, "cb")
    /\ UNCHANGED <<pool, issued, batches, seen, query, changes>>

\* The batch of a header has no rows
HasRows(t) == proc[t].range \notin SequenceFiles

\* AddMaterializedRowBatch: waits while the queue is full; a queue that was shut down keeps
\* the batch for Cleanup.  Every batch holds an io buffer.
AddBatch(t, ret) ==
    /\ Len(batches.queue) < MaxBatches \/ batches.shutdown
    /\ batches' = IF batches.shutdown THEN [batches EXCEPT !.cleanup = @ + 1]
                  ELSE [batches EXCEPT !.queue = Append(@, HasRows(t))]
    /\ node' = [node EXCEPT !.owned = @ + 1]
    /\ seen' = [seen EXCEPT !.made = IF HasRows(t) THEN @ + 1 ELSE @]
    /\ Go(t, ret)
    /\ UNCHANGED <<pool, issued, query, changes>>

\* RangeComplete, at the end of the scanner's Close
RangeComplete(t) ==
    /\ At(t, "complete")
    /\ node' = [node EXCEPT !.complete = IF proc[t].range \in SequenceFiles THEN @ ELSE @ + 1]
    /\ Go(t, "status")
    /\ UNCHANGED <<pool, issued, batches, seen, query, changes>>

\* as Status would be if num_unqueued_files_ were read after GetNextRange
StatusReadsLate(t) ==
    /\ At(t, "status")
    /\ IF proc[t].status # "OK"
       THEN /\ IF node.status # "OK" \/ proc[t].status = "CANCELLED"
               THEN Start(t, "leave") /\ UNCHANGED node
               ELSE /\ Call(t, "set_done", "leave")
                    /\ node' = [node EXCEPT !.status = proc[t].status]
       ELSE IF Remaining = 0
       THEN Call(t, "set_done", "leave") /\ UNCHANGED node
       ELSE IF proc[t].range = None /\ node.unqueued = 0
       THEN Start(t, "leave") /\ node' = [node EXCEPT !.all_ranges_started = TRUE]
       ELSE Start(t, "top") /\ UNCHANGED node
    /\ UNCHANGED <<pool, issued, batches, seen, query, changes>>

\* The end of a pass of the loop.  The first error is the node's status.
Status(t) ==
    /\ At(t, "status")
    /\ IF proc[t].status # "OK"
       THEN /\ IF node.status # "OK" \/ proc[t].status = "CANCELLED"
               THEN Start(t, "leave") /\ UNCHANGED node
               ELSE /\ Call(t, "set_done", "leave")
                    /\ node' = [node EXCEPT !.status = proc[t].status]
       ELSE IF Remaining = 0
       THEN Call(t, "set_done", "leave") /\ UNCHANGED node
       ELSE IF proc[t].range = None /\ proc[t].unqueued = 0
       THEN Start(t, "leave") /\ node' = [node EXCEPT !.all_ranges_started = TRUE]
       ELSE Start(t, "top") /\ UNCHANGED node
    /\ UNCHANGED <<pool, issued, batches, seen, query, changes>>

\* The thread no longer counts as active, then gives its token back
Leave(t) ==
    /\ At(t, "leave")
    /\ node' = [node EXCEPT !.active = @ - 1]
    /\ Go(t, "release")
    /\ UNCHANGED <<pool, issued, batches, seen, query, changes>>

\* as ReleaseThreadToken would be if it called nobody back
ReleaseSilently(t) ==
    /\ At(t, "release")
    /\ pool' = [pool EXCEPT !.optional = @ - 1]
    /\ Go(t, "off")
    /\ UNCHANGED <<node, issued, batches, seen, query, changes>>

\* ReleaseThreadToken: the token, then a first look at the tokens without the lock
ReleaseThreadToken(t) ==
    /\ At(t, "release")
    /\ pool' = [pool EXCEPT !.optional = @ - 1]
    /\ Go(t, "available")
    /\ UNCHANGED <<node, issued, batches, seen, query, changes>>

Available(t) ==
    /\ At(t, "available")
    /\ pool' = IF num_available_threads > 0 /\ pool.cb THEN [pool EXCEPT !.leavers = @ + 1]
               ELSE pool
    /\ Go(t, "off")
    /\ UNCHANGED <<node, issued, batches, seen, query, changes>>

\* The second look, with the pool's lock_, which is held during the callback
LockedCallback(p) ==
    /\ pool.lock = None
    /\ IF num_available_threads > 0 /\ pool.cb
       THEN Call(p, "cb", "unlock") /\ pool' = [pool EXCEPT !.lock = p]
       ELSE Go(p, "off") /\ UNCHANGED pool
    /\ UNCHANGED <<node, issued, batches, seen, query, changes>>

\* One of the threads that saw an available token takes the lock
LeaverStarts ==
    /\ At(Leaver, "off") /\ pool.leavers > 0
    /\ Go(Leaver, "lock")
    /\ pool' = [pool EXCEPT !.leavers = @ - 1]
    /\ UNCHANGED <<node, issued, batches, seen, query, changes>>

Unlock(p) ==
    /\ At(p, "unlock")
    /\ pool' = [pool EXCEPT !.lock = None]
    /\ Start(p, "off")
    /\ UNCHANGED <<node, issued, batches, seen, query, changes>>

\* RegisterPool or UnregisterPool of another query: UpdatePoolQuotas
UpdatePoolQuotas ==
    /\ At(Mgr, "off") /\ changes < MaxChanges
    /\ \E q \in Quotas \ {pool.quota} : pool' = [pool EXCEPT !.quota = q]
    /\ changes' = changes + 1
    /\ Go(Mgr, "lock")
    /\ UNCHANGED <<node, issued, batches, seen, query>>

-------------------------------------------------------------------------------
(* The main thread *)

\* Open issues the splits of each text file, then the headers of the sequence files
Issue ==
    /\ At(Main, "open") /\ proc[Main].todo # {}
    /\ IF issued.cancelled THEN Call(Main, "set_done", "clear_cb") /\ UNCHANGED issued
       ELSE \E f \in proc[Main].todo :
              /\ f = "headers" => proc[Main].todo = {"headers"}
              /\ issued' = [issued EXCEPT !.ranges = @ \cup
                              IF f = "headers" THEN SequenceFiles ELSE Splits[f]]
              /\ proc' = [proc EXCEPT ![Main].todo = @ \ {f}, ![Main].ret = "open",
                                      ![Main].pc = IF f = "headers" THEN "cb" ELSE "mark"]
    /\ UNCHANGED <<node, pool, batches, seen, query, changes>>

Opened ==
    /\ At(Main, "open") /\ proc[Main].todo = {}
    /\ IF Remaining = 0 THEN Call(Main, "set_done", "idle") ELSE Go(Main, "idle")
    /\ UNCHANGED <<node, pool, issued, batches, seen, query, changes>>

ReachedLimit == seen.returned >= query.limit

\* GetNext, up to the queue
GetNext ==
    /\ At(Main, "idle") /\ seen.last = "more"
    /\ IF ReachedLimit \/ node.status # "OK"
       THEN UNCHANGED proc /\ seen' = [seen EXCEPT !.last = IF node.status = "OK" THEN "limit"
                                                          ELSE "error"]
       ELSE Go(Main, "get") /\ UNCHANGED seen
    /\ UNCHANGED <<node, pool, issued, batches, query, changes>>

\* as GetBatch would be if it returned nothing from a queue that was shut down
GetBatchUntilShutdown ==
    /\ At(Main, "get")
    /\ \/ /\ batches.queue # <<>> /\ ~batches.shutdown
          /\ batches' = [batches EXCEPT !.queue = Tail(@)]
          /\ node' = [node EXCEPT !.owned = @ - 1]
          /\ seen' = [seen EXCEPT !.returned = IF Head(batches.queue) THEN @ + 1 ELSE @]
          /\ IF seen'.returned >= query.limit THEN Call(Main, "set_done", "idle")
             ELSE Go(Main, "idle")
       \/ /\ batches.shutdown
          /\ seen' = [seen EXCEPT !.last = "eos"]
          /\ Go(Main, "idle")
          /\ UNCHANGED <<batches, node>>
    /\ UNCHANGED <<pool, issued, query, changes>>

\* GetBatch: the queue's batches are returned even after it was shut down.  GetNext returns
\* OK with eos when there are none left.
GetBatch ==
    /\ At(Main, "get")
    /\ \/ /\ batches.queue # <<>>
          /\ batches' = [batches EXCEPT !.queue = Tail(@)]
          /\ node' = [node EXCEPT !.owned = @ - 1]
          /\ seen' = [seen EXCEPT !.returned = IF Head(batches.queue) THEN @ + 1 ELSE @]
          /\ IF seen'.returned >= query.limit THEN Call(Main, "set_done", "idle")
             ELSE Go(Main, "idle")
       \/ /\ batches.queue = <<>> /\ batches.shutdown
          /\ seen' = [seen EXCEPT !.last = "eos"]
          /\ Go(Main, "idle")
          /\ UNCHANGED <<batches, node>>
    /\ UNCHANGED <<pool, issued, query, changes>>

\* Close, after the last GetNext or because the fragment was cancelled
Close ==
    /\ At(Main, "idle")
    /\ Call(Main, "set_done", "clear_cb")
    /\ UNCHANGED <<node, pool, issued, batches, seen, query, changes>>

\* as SetThreadAvailableCb would be if it did not wait for a callback
ClearUnlocked ==
    /\ At(Main, "clear_cb")
    /\ pool' = [pool EXCEPT !.cb = FALSE]
    /\ Go(Main, "join")
    /\ UNCHANGED <<node, issued, batches, seen, query, changes>>

SetThreadAvailableCb ==
    /\ At(Main, "clear_cb") /\ pool.lock = None
    /\ pool' = [pool EXCEPT !.cb = FALSE]
    /\ Go(Main, "join")
    /\ UNCHANGED <<node, issued, batches, seen, query, changes>>

JoinAll ==
    /\ At(Main, "join")
    /\ \A p \in Scanners \cup {Leaver} : At(p, "off")
    /\ pool.leavers = 0
    /\ Go(Main, "cleanup")
    /\ UNCHANGED <<node, pool, issued, batches, seen, query, changes>>

\* Cleanup reads the queue until GetBatch returns NULL, which it does of a queue shut down
Cleanup ==
    /\ At(Main, "cleanup") /\ batches.shutdown
    /\ node' = [node EXCEPT !.owned = @ - (Len(batches.queue) + batches.cleanup)]
    /\ batches' = [batches EXCEPT !.queue = <<>>, !.cleanup = 0]
    /\ Go(Main, "closed")
    /\ UNCHANGED <<pool, issued, seen, query, changes>>

-------------------------------------------------------------------------------
ScannerStep(t) ==
    \/ Top(t) \/ GetNextRange(t) \/ Process(t) \/ Finish(t) \/ Header(t) \/ AddRanges(t)
    \/ At(t, "add_batch") /\ AddBatch(t, "finish")
    \/ At(t, "final") /\ AddBatch(t, "complete")
    \/ RangeComplete(t) \/ Status(t) \/ Leave(t) \/ ReleaseThreadToken(t) \/ Available(t)

Shared(p) ==
    \/ SetDone(p) \/ CancelReader(p) \/ Shutdown(p)
    \/ MarkFileDescIssued(p) \/ ThreadTokenAvailableCb(p)

MainStep ==
    \/ Issue \/ Opened \/ GetBatch \/ SetThreadAvailableCb \/ JoinAll \/ Cleanup

CallbackStep(p) == (At(p, "lock") /\ LockedCallback(p)) \/ Unlock(p)

\* The node was closed and nothing is left to do
Terminated == At(Main, "closed") /\ UNCHANGED vars

Next ==
    \/ Terminated
    \/ \E t \in Scanners : ScannerStep(t)
    \/ \E p \in Procs : Shared(p)
    \/ \E p \in {Leaver, Mgr} : CallbackStep(p)
    \/ LeaverStarts
    \/ UpdatePoolQuotas
    \/ MainStep \/ GetNext \/ Close

Spec == Init /\ [][Next]_vars

-------------------------------------------------------------------------------
(* Properties *)

\* all_ranges_started_ is only ever set when no range is left for another thread to take
\* (the comment of ScannerThreadHelper): every file was issued and every range handed out,
\* although headers add ranges while other threads find the I/O manager empty.
AllStartedIsStarted == node.all_ranges_started => node.unqueued = 0 /\ issued.ranges = {}

\* GetNext says eos without a limit, an error or a Close only when every split was processed
\* and every batch of rows that was made has been returned, however the threads came and went.
EosIsComplete ==
    (seen.last = "eos" /\ seen.errors = 0)
    => node.complete = Cardinality(SplitsOf(Files)) /\ seen.returned = seen.made

\* An error of a scanner is returned by GetNext: it never says OK with eos once an error was
\* met (hdfs-scan-node.h, status_: "Returned in GetNext() if an error occurred").
ErrorReturned == seen.last = "eos" => node.status = "OK"

\* When Close returns no thread holds a token, is active or calls back into the node, and no
\* batch or io buffer is left, whatever the threads were doing when SetDone was called.
CloseIsClean ==
    At(Main, "closed") =>
        /\ node.active = 0 /\ pool.optional = 0 /\ node.owned = 0
        /\ batches.queue = <<>> /\ batches.cleanup = 0
        /\ \A p \in Procs : proc[p].pc # "cb"

\* While a range waits to be taken and the node is not done, a thread will take it: one is
\* active, or a callback that starts one is on its way.
SomebodyScans ==
    (~node.done /\ (issued.ranges # {} \/ node.unqueued > 0) /\ At(Main, "get") /\ Remaining > 0)
    => \/ node.active > 0
       \/ \E t \in Scanners : proc[t].pc \in {"release", "available"}
       \/ pool.leavers > 0
       \/ \E p \in Procs : proc[p].pc \in {"lock", "cb"}
================================================================================
