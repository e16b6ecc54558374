------------------------------- MODULE DiskIoMgr -------------------------------
(***************************************************************************)
(* The disk I/O manager (be/src/runtime/disk-io-mgr.cc, -internal.h,         *)
(* -reader-context.cc, -scan-range.cc) serving one reader, and the scanner   *)
(* threads of the scan node that owns the reader.                            *)
(*                                                                           *)
(* A step is a critical section: of the reader's lock_, of a scan range's    *)
(* lock_ or of a disk queue's lock.  HandleReadFinished is two steps under   *)
(* one hold of the reader's lock, because the descriptor it still reads      *)
(* after EnqueueBuffer may belong to another disk thread by then; the model  *)
(* follows the program up to that point (Reused).                            *)
(***************************************************************************)
EXTENDS Integers, Sequences, FiniteSets, SequencesExt, FiniteSetsExt

CONSTANTS
    Disks,
    Threads,                \* the disk threads
    DiskOf,                 \* the disk of each disk thread and of each range
    Scanners,               \* the scanner threads of the scan node
    Ranges,                 \* the scan ranges the node adds
    PastRanges,             \* the ranges scanners read synchronously, past their own
    Length,                 \* how many buffers a range fills, at most
    DEFAULT_QUEUE_CAPACITY, MIN_QUEUE_CAPACITY, MAX_QUEUE_CAPACITY,
    MaxErrors,              \* bound on the reads that fail
    MaxReaders              \* bound on the times the reader context is used

AllRanges == Ranges \cup PastRanges
None == "none"

ASSUME IoAssumption ==
    /\ DiskOf \in [Threads \cup AllRanges -> Disks]
    /\ Length \in [AllRanges -> Nat \ {0}]
    /\ \A r \in PastRanges : Length[r] = 1
    /\ MIN_QUEUE_CAPACITY <= DEFAULT_QUEUE_CAPACITY
    /\ DEFAULT_QUEUE_CAPACITY <= MAX_QUEUE_CAPACITY
    /\ MIN_QUEUE_CAPACITY \in Nat \ {0} /\ MAX_QUEUE_CAPACITY \in Nat

VARIABLES
    io,         \* the ReaderContext with its disks, ranges and queues
    thread,     \* per disk thread, where it is in ReadLoop and its buffer descriptor
    scanner,    \* per scanner thread, where it is and the ranges it reads
    node,       \* the scan node: closed, open, closing or unregister
    lock,       \* the disk thread inside HandleReadFinished, or None
    errors, readers     \* the failed reads and the uses of the reader, for the bounds

vars == <<io, thread, scanner, node, lock, errors, readers>>

-------------------------------------------------------------------------------
(* State *)

NewDisk == [done |-> TRUE, on_queue |-> FALSE, queued |-> 0, remaining |-> 0,
            unstarted |-> <<>>, in_flight |-> <<>>, next |-> None, threads |-> 0]

\* A ready buffer is its number in the range and its eosr_.  read and taken count the
\* buffers read from disk and taken by GetNext; waiting is set while GetNext waits on
\* buffer_ready_cv_.
NewRange == [init |-> FALSE, cancelled |-> FALSE, status |-> "OK", open |-> FALSE,
             eosr_queued |-> FALSE, eosr_returned |-> FALSE, blocked |-> FALSE,
             capacity |-> 0, ready |-> <<>>, read |-> 0, taken |-> 0, waiting |-> FALSE]

\* wait_range are the scanners in ready_to_start_ranges_cv_; buffers are those given out
\* by GetFreeBuffer and not returned.
Reset(state) ==
    [state |-> state, status |-> "OK", num_disks |-> 0, num_unstarted |-> 0,
     num_used |-> 0, num_in_reader |-> 0, num_ready |-> 0, total_capacity |-> 0,
     num_finished |-> 0, ready_to_start |-> <<>>, blocked |-> <<>>,
     disk |-> [d \in Disks |-> NewDisk], range |-> [r \in AllRanges |-> NewRange],
     wait_range |-> {}, wait_disks |-> FALSE, buffers |-> 0]

IdleThread == [pc |-> "idle", range |-> None, n |-> 0, eosr |-> FALSE, status |-> "OK",
               full |-> FALSE, returned |-> FALSE, desc |-> None]
IdleScanner == [pc |-> "off", main |-> None, range |-> None, ok |-> TRUE]

Init ==
    /\ io = Reset("Inactive")
    /\ thread = [t \in Threads |-> IdleThread]
    /\ scanner = [c \in Scanners |-> IdleScanner]
    /\ node = "closed" /\ lock = None /\ errors = 0 /\ readers = 0

-------------------------------------------------------------------------------
(* What the critical sections do to the reader, as functions of its state s *)

\* PerDiskState::ScheduleReader with DiskQueue::EnqueueReader
ScheduleReader(s, d) ==
    IF s.disk[d].on_queue \/ s.disk[d].done THEN s
    ELSE [s EXCEPT !.disk[d].on_queue = TRUE, !.disk[d].queued = @ + 1]

ScheduleScanRange(s, r) ==
    ScheduleReader([s EXCEPT !.disk[DiskOf[r]].in_flight = Append(@, r)], DiskOf[r])

\* ScanRange::Cancel with CleanupQueuedBuffers and CloseScanRange
CancelRange(s, r, status) ==
    LET n == Len(s.range[r].ready) IN
    IF ~s.range[r].init \/ s.range[r].cancelled THEN s
    ELSE [s EXCEPT !.range[r].cancelled = TRUE, !.range[r].status = status,
                   !.range[r].ready = <<>>, !.range[r].open = FALSE,
                   !.range[r].waiting = FALSE,
                   !.num_used = @ - n, !.num_ready = @ - n, !.buffers = @ - n]

OnAQueue(s) == ToSet(s.ready_to_start) \cup ToSet(s.blocked)
    \cup UNION {ToSet(s.disk[d].unstarted) \cup ToSet(s.disk[d].in_flight) : d \in Disks}

\* as Cancel would be if it left the ranges blocked on a full queue alone
CancelKeepsBlocked(s, status) ==
    LET cancelled == FoldSet(LAMBDA r, t : CancelRange(t, r, status), s,
                             OnAQueue(s) \ ToSet(s.blocked))
        emptied == [cancelled EXCEPT !.state = "Cancelled", !.status = status,
                        !.ready_to_start = <<>>, !.wait_range = {},
                        !.disk = [d \in Disks |-> [s.disk[d] EXCEPT !.unstarted = <<>>,
                                                                    !.in_flight = <<>>]]]
    IN  IF s.state = "Cancelled" THEN s
        ELSE FoldSet(LAMBDA d, t : ScheduleReader(t, d), emptied, Disks)

\* as Cancel would be if it did not put the reader back on the disks' queues
CancelUnscheduled(s, status) ==
    LET cancelled == FoldSet(LAMBDA r, t : CancelRange(t, r, status), s, OnAQueue(s))
    IN  IF s.state = "Cancelled" THEN s
        ELSE [cancelled EXCEPT !.state = "Cancelled", !.status = status,
                  !.ready_to_start = <<>>, !.blocked = <<>>, !.wait_range = {},
                  !.disk = [d \in Disks |-> [s.disk[d] EXCEPT !.unstarted = <<>>,
                                                              !.in_flight = <<>>]]]

\* ReaderContext::Cancel
Cancel(s, status) ==
    LET cancelled == FoldSet(LAMBDA r, t : CancelRange(t, r, status), s, OnAQueue(s))
        emptied == [cancelled EXCEPT !.state = "Cancelled", !.status = status,
                        !.ready_to_start = <<>>, !.blocked = <<>>, !.wait_range = {},
                        !.disk = [d \in Disks |-> [s.disk[d] EXCEPT !.unstarted = <<>>,
                                                                    !.in_flight = <<>>]]]
    IN  IF s.state = "Cancelled" THEN s
        ELSE FoldSet(LAMBDA d, t : ScheduleReader(t, d), emptied, Disks)

DecrementReadThread(s, d) == [s EXCEPT !.disk[d].threads = @ - 1]

\* With DecrementDiskRefCount
DecrementReadThreadAndCheckDone(s, d) ==
    LET after == DecrementReadThread(s, d)
        last == ~after.disk[d].on_queue /\ after.disk[d].threads = 0 /\ ~after.disk[d].done
    IN  IF ~last THEN after
        ELSE [after EXCEPT !.disk[d].done = TRUE, !.num_disks = @ - 1,
                           !.wait_disks = @ /\ s.num_disks # 1]

\* as EnqueueBuffer would be if it put the buffer first
EnqueueBufferFirst(s, r, n, eosr, has_buffer) ==
    LET ready == <<<<n, eosr>>>> \o s.range[r].ready
        full == Len(ready) >= s.range[r].capacity
    IN  IF s.range[r].cancelled
        THEN [s EXCEPT !.num_used = @ - 1, !.buffers = IF has_buffer THEN @ - 1 ELSE @]
        ELSE [s EXCEPT !.range[r].ready = ready, !.range[r].eosr_queued = eosr,
                       !.range[r].blocked = full, !.range[r].waiting = FALSE,
                       !.range[r].capacity =
                           IF full /\ @ > MIN_QUEUE_CAPACITY THEN @ - 1 ELSE @,
                       !.num_ready = @ + 1]

\* ScanRange::EnqueueBuffer of buffer number n; has_buffer is buffer_ # NULL
EnqueueBuffer(s, r, n, eosr, has_buffer) ==
    LET ready == Append(s.range[r].ready, <<n, eosr>>)
        full == Len(ready) >= s.range[r].capacity
    IN  IF s.range[r].cancelled
        THEN [s EXCEPT !.num_used = @ - 1, !.buffers = IF has_buffer THEN @ - 1 ELSE @]
        ELSE [s EXCEPT !.range[r].ready = ready, !.range[r].eosr_queued = eosr,
                       !.range[r].blocked = full, !.range[r].waiting = FALSE,
                       !.range[r].capacity =
                           IF full /\ @ > MIN_QUEUE_CAPACITY THEN @ - 1 ELSE @,
                       !.num_ready = @ + 1]

initial_scan_range_queue_capacity(s) ==
    IF s.num_finished > 0 THEN s.total_capacity \div s.num_finished
    ELSE DEFAULT_QUEUE_CAPACITY

\* AddScanRanges of one range, InitInternal included
AddScanRange(s, r, schedule_immediately) ==
    LET d == DiskOf[r]
        inited == [s EXCEPT !.range[r].init = TRUE,
                            !.range[r].capacity = initial_scan_range_queue_capacity(s)]
        counted == [inited EXCEPT !.disk[d].remaining = @ + 1, !.disk[d].done = FALSE,
                                  !.num_disks = IF s.disk[d].done THEN @ + 1 ELSE @]
        queued == IF schedule_immediately THEN ScheduleScanRange(counted, r)
                  ELSE [counted EXCEPT !.disk[d].unstarted = Append(@, r),
                                       !.num_unstarted = @ + 1]
    IN  IF s.state = "Cancelled" THEN inited
        ELSE IF s.disk[d].next = None THEN ScheduleReader(queued, d) ELSE queued

-------------------------------------------------------------------------------
(* The disk threads: GetNextScanRange *)

InReadLoop(t, from, to) == thread[t].pc = from /\ thread' = [thread EXCEPT ![t].pc = to]

\* The reader at the front of the disk's queue is removed and the thread counted; the
\* queue's lock is held until is_on_queue_ is cleared.
Pick(t) ==
    LET d == DiskOf[t] IN
    /\ InReadLoop(t, "idle", "counted")
    /\ \A u \in Threads : DiskOf[u] = d => thread[u].pc # "counted"
    /\ io.disk[d].queued > 0
    /\ io' = [io EXCEPT !.disk[d].queued = @ - 1, !.disk[d].threads = @ + 1]
    /\ UNCHANGED <<scanner, node, lock, errors, readers>>

Dequeued(t) ==
    /\ InReadLoop(t, "counted", "picked")
    /\ io' = [io EXCEPT !.disk[DiskOf[t]].on_queue = FALSE]
    /\ UNCHANGED <<scanner, node, lock, errors, readers>>

\* The process or the reader is over its memory limit
LimitExceeded(t) ==
    /\ lock = None
    /\ InReadLoop(t, "picked", "checked")
    /\ io' = Cancel(io, "MEM_LIMIT_EXCEEDED")
    /\ UNCHANGED <<scanner, node, lock, errors, readers>>

\* A range is prepared for GetNextRange; woken are the scanners the cv wakes
Prepare(s, d, woken) ==
    LET r == Head(s.disk[d].unstarted) IN
    [s EXCEPT !.disk[d].unstarted = Tail(@), !.disk[d].next = r, !.num_unstarted = @ - 1,
              !.ready_to_start = Append(@, r), !.wait_range = @ \ woken]

\* as the notification would be if it always woke one scanner
WokenOne(s) ==
    IF s.wait_range = {} THEN {{}} ELSE {{c} : c \in s.wait_range}

\* notify_all when the last range was prepared, notify_one otherwise
Woken(s) ==
    IF s.num_unstarted = 1 \/ s.wait_range = {} THEN {s.wait_range}
    ELSE {{c} : c \in s.wait_range}

ReadNext(s, t) ==
    LET d == DiskOf[t] IN
    IF s.disk[d].in_flight = <<>>
    THEN /\ io' = DecrementReadThread(s, d)
         /\ thread' = [thread EXCEPT ![t] = IdleThread]
    ELSE /\ io' = ScheduleReader([s EXCEPT !.disk[d].in_flight = Tail(@)], d)
         /\ thread' = [thread EXCEPT ![t].pc = "chosen",
                                     ![t].range = Head(s.disk[d].in_flight)]

\* The rest of GetNextScanRange, under the reader's lock
Choose(t) ==
    LET d == DiskOf[t] IN
    /\ lock = None
    /\ thread[t].pc \in {"picked", "checked"}
    /\ IF io.state = "Cancelled"
       THEN /\ io' = DecrementReadThreadAndCheckDone(io, d)
            /\ thread' = [thread EXCEPT ![t] = IdleThread]
       ELSE IF io.disk[d].next = None /\ io.disk[d].unstarted # <<>>
       THEN \E woken \in Woken(io) : ReadNext(Prepare(io, d, woken), t)
       ELSE ReadNext(io, t)
    /\ UNCHANGED <<scanner, node, lock, errors, readers>>

-------------------------------------------------------------------------------
(* The disk threads: the rest of ReadLoop *)

\* A free buffer and a descriptor.  The descriptor may be one that a thread inside
\* HandleReadFinished has returned and will still read.
Allocate(t) ==
    /\ thread[t].pc = "chosen"
    /\ io' = [io EXCEPT !.num_used = @ + 1, !.buffers = @ + 1]
    /\ \/ thread' = [thread EXCEPT ![t].pc = "allocated"]
       \/ \E u \in Threads :
            /\ thread[u].returned
            /\ thread' = [thread EXCEPT ![t].pc = "allocated", ![u].returned = FALSE,
                                        ![u].desc = t]
    /\ UNCHANGED <<scanner, node, lock, errors, readers>>

\* A thread would go on in HandleReadFinished by what another read made of its descriptor
Reused == \E t \in Threads : thread[t].desc \notin {None, t}

\* OpenScanRange and ReadFromScanRange.  A file that is shorter than the range ends the
\* range early.
Read(t) ==
    LET r == thread[t].range
        n == io.range[r].read + 1
        failed == [thread EXCEPT ![t].pc = "read", ![t].status = "CANCELLED"]
    IN
    /\ thread[t].pc = "allocated"
    /\ IF io.range[r].cancelled
       THEN thread' = failed /\ UNCHANGED <<io, errors>>
       ELSE \/ /\ errors < MaxErrors
               /\ thread' = [failed EXCEPT ![t].status = "ERROR"]
               /\ io' = [io EXCEPT !.range[r].open = TRUE]
               /\ errors' = errors + 1
            \/ \E eosr \in {n = Length[r], TRUE} :
               /\ thread' = [thread EXCEPT ![t].pc = "read", ![t].n = n, ![t].eosr = eosr]
               /\ io' = [io EXCEPT !.range[r].open = TRUE, !.range[r].read = n]
               /\ UNCHANGED errors
    /\ UNCHANGED <<scanner, node, lock, readers>>

\* HandleReadFinished for a cancelled reader
FinishCancelled(t) ==
    LET r == thread[t].range
        freed == [DecrementReadThreadAndCheckDone(io, DiskOf[t]) EXCEPT !.buffers = @ - 1]
    IN
    /\ thread[t].pc = "read" /\ lock = None /\ io.state = "Cancelled"
    /\ io' = EnqueueBuffer(CancelRange(freed, r, io.status), r, thread[t].n, FALSE, FALSE)
    /\ thread' = [thread EXCEPT ![t] = IdleThread]
    /\ UNCHANGED <<scanner, node, lock, errors, readers>>

\* HandleReadFinished up to the return of EnqueueBuffer.  When the range is cancelled,
\* EnqueueBuffer has returned the descriptor to the free list.
Finish(t) ==
    LET r == thread[t].range
        d == DiskOf[t]
        failed == thread[t].status # "OK"
        eosr == failed \/ thread[t].eosr
        counted == IF eosr THEN [io EXCEPT !.disk[d].remaining = @ - 1] ELSE io
        updated == IF failed THEN CancelRange([counted EXCEPT !.buffers = @ - 1], r,
                                              thread[t].status)
                   ELSE IF eosr THEN [counted EXCEPT !.range[r].open = FALSE]
                   ELSE counted
    IN
    /\ thread[t].pc = "read" /\ lock = None /\ io.state # "Cancelled"
    /\ io' = EnqueueBuffer(updated, r, thread[t].n, eosr, ~failed)
    /\ thread' = [thread EXCEPT
           ![t].pc = "enqueued", ![t].eosr = eosr, ![t].desc = t,
           ![t].returned = updated.range[r].cancelled,
           ![t].full = ~updated.range[r].cancelled /\ io'.range[r].blocked]
    /\ lock' = t
    /\ UNCHANGED <<scanner, node, errors, readers>>

\* The end of HandleReadFinished, by what the descriptor says
Finished(t) ==
    LET r == thread[t].range IN
    /\ thread[t].pc = "enqueued"
    /\ io' = DecrementReadThread(
                 IF thread[t].eosr THEN io
                 ELSE IF thread[t].full THEN [io EXCEPT !.blocked = Append(@, r)]
                 ELSE ScheduleScanRange(io, r), DiskOf[t])
    /\ thread' = [thread EXCEPT ![t] = IdleThread]
    /\ lock' = None
    /\ UNCHANGED <<scanner, node, errors, readers>>

-------------------------------------------------------------------------------
(* The scanner threads: GetNextRange, ScanRange::GetNext and Read *)

Scanning == UNCHANGED <<thread, node, lock, errors, readers>>

TakeRange(s, r) ==
    ScheduleScanRange([s EXCEPT !.ready_to_start = Tail(@),
                                !.disk[DiskOf[r]].next = None], r)

GetNextRange(c) ==
    LET r == Head(io.ready_to_start) IN
    /\ scanner[c].pc = "range" /\ c \notin io.wait_range /\ lock = None
    /\ \/ /\ \/ io.state = "Cancelled"
             \/ io.num_unstarted = 0 /\ io.ready_to_start = <<>>
          /\ scanner' = [scanner EXCEPT ![c] = IdleScanner]
          /\ UNCHANGED io
       \/ /\ io.state # "Cancelled" /\ io.num_unstarted # 0 /\ io.ready_to_start = <<>>
          /\ io' = [io EXCEPT !.wait_range = @ \cup {c}]
          /\ UNCHANGED scanner
       \/ /\ io.state # "Cancelled" /\ io.ready_to_start # <<>>
          /\ io' = TakeRange(io, r)
          /\ scanner' = [scanner EXCEPT ![c].pc = "next", ![c].main = r, ![c].range = r]
    /\ Scanning

\* as taking a buffer would be if it did not look for a cancelled range before waiting
TakeBufferWaits(s, c) ==
    LET r == scanner[c].range
        q == s.range[r]
        eosr == q.ready[1][2]
    IN
    \/ /\ q.ready = <<>>
       /\ io' = [s EXCEPT !.range[r].waiting = TRUE]
       /\ scanner' = [scanner EXCEPT ![c].pc = "waiting"]
    \/ /\ q.ready # <<>>
       /\ io' = [s EXCEPT !.range[r].ready = Tail(@), !.range[r].eosr_returned = eosr,
                          !.range[r].taken = @ + 1,
                          !.total_capacity = IF eosr THEN @ + q.capacity ELSE @,
                          !.num_finished = IF eosr THEN @ + 1 ELSE @,
                          !.num_in_reader = @ + 1, !.num_ready = @ - 1, !.num_used = @ - 1]
       /\ scanner' = [scanner EXCEPT ![c].pc = "taken"]

\* The wait for a buffer and the removal of the first, with the counters
TakeBuffer(s, c) ==
    LET r == scanner[c].range
        q == s.range[r]
        eosr == q.ready[1][2]
    IN
    \/ /\ q.cancelled
       /\ scanner' = [scanner EXCEPT ![c].pc = "close", ![c].ok = FALSE]
       /\ io' = s
    \/ /\ ~q.cancelled /\ q.ready = <<>>
       /\ io' = [s EXCEPT !.range[r].waiting = TRUE]
       /\ scanner' = [scanner EXCEPT ![c].pc = "waiting"]
    \/ /\ ~q.cancelled /\ q.ready # <<>>
       /\ io' = [s EXCEPT !.range[r].ready = Tail(@), !.range[r].eosr_returned = eosr,
                          !.range[r].taken = @ + 1,
                          !.total_capacity = IF eosr THEN @ + q.capacity ELSE @,
                          !.num_finished = IF eosr THEN @ + 1 ELSE @,
                          !.num_in_reader = @ + 1, !.num_ready = @ - 1, !.num_used = @ - 1]
       /\ scanner' = [scanner EXCEPT ![c].pc = "taken"]

\* GetNext's first part, under the range's lock: an empty queue doubles the capacity
GetNext(c) ==
    LET r == scanner[c].range
        doubled == [io EXCEPT !.range[r].capacity = Min({2 * @, MAX_QUEUE_CAPACITY})]
    IN
    /\ scanner[c].pc = "next"
    /\ TakeBuffer(IF io.range[r].ready = <<>> THEN doubled ELSE io, c)
    /\ Scanning

GetNextWoken(c) ==
    /\ scanner[c].pc = "waiting" /\ ~io.range[scanner[c].range].waiting
    /\ TakeBuffer(io, c)
    /\ Scanning

\* ReturnBuffer of the buffer that a scanner holds
ReturnBuffer(s) == [s EXCEPT !.buffers = @ - 1, !.num_in_reader = @ - 1]

\* A range that was blocked and no longer is goes back to the in flight ranges
Unblock(s, r) ==
    LET full == Len(s.range[r].ready) >= s.range[r].capacity
        updated == [s EXCEPT !.range[r].blocked = full]
    IN  IF s.range[r].blocked /\ ~full /\ ~s.range[r].eosr_queued
        THEN ScheduleScanRange([updated EXCEPT !.blocked = Remove(@, r)], r)
        ELSE updated

\* GetNext's second part, under the reader's lock
GetNextDone(c) ==
    LET r == scanner[c].range IN
    /\ scanner[c].pc = "taken" /\ lock = None
    /\ IF io.state = "Cancelled"
       THEN /\ io' = ReturnBuffer(CancelRange([io EXCEPT !.blocked = Remove(@, r)], r,
                                              io.status))
            /\ scanner' = [scanner EXCEPT ![c].pc = "close", ![c].ok = FALSE]
       ELSE /\ io' = Unblock(io, r)
            /\ scanner' = [scanner EXCEPT ![c].pc = "has"]
    /\ Scanning

\* The scanner is done with the buffer.  It goes on, or it ends its range: with the last
\* buffer, early, or with an error of its own.
Process(c) ==
    /\ scanner[c].pc = "has"
    /\ io' = ReturnBuffer(io)
    /\ \/ /\ ~io.range[scanner[c].range].eosr_returned
          /\ scanner' = [scanner EXCEPT ![c].pc = "next"]
       \/ \E ok \in BOOLEAN :
            scanner' = [scanner EXCEPT ![c].pc = "close", ![c].ok = ok]
    /\ Scanning

\* DiskIoMgr::Read of a range past the scanner's own, up to its GetNext
ReadPast(c, p) ==
    /\ lock = None
    /\ scanner[c].pc = "has" /\ scanner[c].range = scanner[c].main
    /\ io.range[scanner[c].main].eosr_returned /\ ~io.range[p].init
    /\ io' = AddScanRange(ReturnBuffer(io), p, TRUE)
    /\ scanner' = [scanner EXCEPT
           ![c].pc = IF io.state = "Cancelled" THEN "close" ELSE "next",
           ![c].ok = io.state # "Cancelled", ![c].range = p]
    /\ Scanning

\* AttachCompletedResources at the end of a range cancels it
CloseRange(c) ==
    /\ scanner[c].pc = "close"
    /\ io' = CancelRange(io, scanner[c].main, "CANCELLED")
    /\ scanner' = [scanner EXCEPT
           ![c] = [IdleScanner EXCEPT !.pc = IF scanner[c].ok THEN "range" ELSE "failed"]]
    /\ Scanning

\* A scanner that failed calls SetDone, which cancels the reader, and ends
SetDone(c) ==
    /\ scanner[c].pc = "failed" /\ lock = None
    /\ io' = Cancel(io, "CANCELLED")
    /\ scanner' = [scanner EXCEPT ![c] = IdleScanner]
    /\ Scanning

-------------------------------------------------------------------------------
(* The scan node *)

\* RegisterReader and GetNewReader
RegisterReader ==
    /\ node = "closed" /\ readers < MaxReaders
    /\ io' = [Reset("Active") EXCEPT !.buffers = io.buffers]
    /\ node' = "open" /\ readers' = readers + 1
    /\ UNCHANGED <<thread, scanner, lock, errors>>

AddScanRanges(r) ==
    /\ node = "open" /\ lock = None /\ ~io.range[r].init
    /\ io' = AddScanRange(io, r, FALSE)
    /\ UNCHANGED <<thread, scanner, node, lock, errors, readers>>

StartScanner(c) ==
    /\ node = "open" /\ io.state = "Active"
    /\ \E r \in Ranges : io.range[r].init
    /\ scanner[c].pc = "off"
    /\ scanner' = [scanner EXCEPT ![c].pc = "range"]
    /\ UNCHANGED <<io, thread, node, lock, errors, readers>>

\* HdfsScanNode::Close: SetDone, which cancels the reader unless that was done before
CloseNode ==
    /\ node = "open" /\ lock = None
    /\ io' = Cancel(io, "CANCELLED")
    /\ node' = "closing"
    /\ UNCHANGED <<thread, scanner, lock, errors, readers>>

\* After the scanner threads were joined: UnregisterReader, whose Cancel finds the reader
\* cancelled, and ReturnReader
UnregisterReader ==
    /\ node = "closing" /\ lock = None /\ ~io.wait_disks
    /\ \A c \in Scanners : scanner[c].pc = "off"
    /\ IF io.num_disks > 0
       THEN io' = [io EXCEPT !.wait_disks = TRUE] /\ UNCHANGED node
       ELSE io' = [io EXCEPT !.state = "Inactive"] /\ node' = "closed"
    /\ UNCHANGED <<thread, scanner, lock, errors, readers>>

-------------------------------------------------------------------------------

ReadStep(t) ==
    \/ Pick(t) \/ Dequeued(t) \/ Choose(t) \/ Allocate(t) \/ Read(t)
    \/ FinishCancelled(t) \/ Finish(t) \/ Finished(t)

ScanStep(c) ==
    \/ GetNextRange(c) \/ GetNext(c) \/ GetNextWoken(c) \/ GetNextDone(c)
    \/ Process(c) \/ CloseRange(c) \/ SetDone(c)

Next ==
    /\ ~Reused
    /\ \/ \E t \in Threads : ReadStep(t) \/ LimitExceeded(t)
       \/ \E c \in Scanners : ScanStep(c) \/ StartScanner(c) \/ \E p \in PastRanges : ReadPast(c, p)
       \/ RegisterReader \/ \E r \in Ranges : AddScanRanges(r)
       \/ CloseNode \/ UnregisterReader

Spec == Init /\ [][Next]_vars

-------------------------------------------------------------------------------
(* Properties *)

\* What ReaderContext::Validate and ScanRange::Validate check, whenever the reader's lock
\* is free: the counters are those of the queues, a reader with a range in flight is on
\* the disk's queue or has a thread, a disk that is done has neither, a cancelled reader
\* has no range on any queue and a cancelled range no buffer.
Validates ==
    lock = None /\ io.state # "Inactive" =>
      /\ io.num_used >= 0 /\ io.num_ready >= 0 /\ io.num_in_reader >= 0
      /\ \A d \in Disks : LET k == io.disk[d] IN
           /\ k.threads >= 0
           /\ k.in_flight # <<>> => k.on_queue \/ k.threads > 0
           /\ k.done => ~k.on_queue
           /\ io.state = "Active" =>
                /\ k.done => k.threads = 0
                /\ Len(k.unstarted) + Len(k.in_flight) <= k.remaining
      /\ io.state = "Active" =>
           io.num_unstarted = MapThenSumSet(LAMBDA d : Len(io.disk[d].unstarted), Disks)
      /\ io.state = "Cancelled" => OnAQueue(io) = {}
      /\ \A r \in AllRanges : LET q == io.range[r] IN
           /\ q.eosr_returned => q.eosr_queued
           /\ q.cancelled => q.ready = <<>>

ReadersOf(r) == {t \in Threads : thread[t].range = r}

\* The buffers GetNext returns are those of the range in file order, none missing and
\* none twice: what is ready continues what was taken.
FileOrder ==
    \A r \in AllRanges : LET q == io.range[r] IN
        \A i \in DOMAIN q.ready : q.ready[i][1] = q.taken + i

\* A scanner that waits in GetNext waits for a range that is still read: it is neither
\* finished, nor cancelled, nor blocked on its own full queue.
WaiterIsServed ==
    \A c \in Scanners : LET r == scanner[c].range IN
        scanner[c].pc = "waiting" /\ io.range[r].waiting =>
            /\ io.range[r].ready = <<>> /\ ~io.range[r].cancelled
            /\ ReadersOf(r) # {} \/ r \in ToSet(io.disk[DiskOf[r]].in_flight)

\* A scanner that waits in GetNextRange waits for a range that is coming: another scanner
\* was woken for the ranges that are ready, or a disk with unstarted ranges is about to
\* prepare one.
RangeIsComing ==
    io.wait_range # {} =>
        /\ io.state = "Active"
        /\ \/ /\ io.ready_to_start # <<>>
              /\ \E c \in Scanners \ io.wait_range : scanner[c].pc = "range"
           \/ \E d \in Disks :
              /\ io.disk[d].unstarted # <<>> /\ io.disk[d].next = None
              /\ \/ io.disk[d].on_queue
                 \/ \E t \in Threads : /\ DiskOf[t] = d
                                      /\ thread[t].pc \in {"counted", "picked", "checked"}

\* UnregisterReader, while it waits for the disks, waits for somebody: each disk that still
\* counts the reader has it on its queue, or a thread that will notice that it is the last.
UnregisterIsServed ==
    io.wait_disks /\ lock = None =>
        LET busy == {d \in Disks : ~io.disk[d].done} IN
        /\ busy # {} /\ io.num_disks = Cardinality(busy)
        /\ \A d \in busy : io.disk[d].queued > 0 \/ io.disk[d].threads > 0

===============================================================================
