------------------------------ MODULE ThreadPool ------------------------------
(***************************************************************************)
(* ThreadPool (be/src/util/thread-pool.h) on its BlockingQueue               *)
(* (be/src/util/blocking-queue.h): threads that offer work items, the        *)
(* workers, and one thread that closes the pool, by DrainAndShutdown or by   *)
(* Shutdown and Join.                                                        *)
(*                                                                           *)
(* The queue's lock_ is never held across a step.  A thread notifies after   *)
(* it has released it, in a step of its own.  The pool's lock_ is held       *)
(* across a step only between DrainAndShutdown's test and its wait.          *)
(***************************************************************************)
EXTENDS Integers, Sequences, FiniteSets

CONSTANTS
    Workers,
    Offerers,     \* threads that call Offer
    QueueSize,    \* queue_size, max_elements_
    MaxOffers     \* bound on the items each of them offers

ASSUME PoolAssumption ==
    /\ IsFiniteSet(Workers)
    /\ IsFiniteSet(Offerers)
    /\ QueueSize \in Nat \ {0}
    /\ MaxOffers \in Nat

VARIABLES
    list,            \* list_
    queue_shutdown,  \* shutdown_ of the queue
    pool_shutdown,   \* shutdown_ of the pool
    worker,          \* per worker, where it is and the item it has
    offerer,         \* per offering thread, where it is and how many it offered
    closer,          \* where the closing thread is
    accepted,        \* the items for which Offer returned, or will return, true
    processed,       \* the items for which work_function_ has returned
    owed             \* what had been accepted when DrainAndShutdown was called

vars == <<list, queue_shutdown, pool_shutdown, worker, offerer, closer,
          accepted, processed, owed>>

-------------------------------------------------------------------------------

Items == Offerers \X (1 .. MaxOffers)
NoItem == <<>>

\* The pool's lock_ can be taken.
LockFree == closer # "locked"

Waiting(f, pc) == {x \in DOMAIN f : f[x].pc = pc}

\* notify_one: one of the threads of f that wait at pc, if any, goes on at next.
NotifyOne(f, g, pc, next) ==
    \/ Waiting(f, pc) = {} /\ g = f
    \/ \E x \in Waiting(f, pc) : g = [f EXCEPT ![x].pc = next]

NotifyAll(f, pc, next) ==
    [x \in DOMAIN f |-> IF f[x].pc = pc THEN [f[x] EXCEPT !.pc = next] ELSE f[x]]

-------------------------------------------------------------------------------
(* BlockingPut, on an offering thread *)

OfferStart(o) ==
    /\ offerer[o].pc = "idle"
    /\ offerer[o].count < MaxOffers
    /\ offerer' = [offerer EXCEPT ![o] = [pc |-> "put", count |-> @.count + 1]]
    /\ UNCHANGED <<list, queue_shutdown, pool_shutdown, worker, closer, accepted,
                   processed, owed>>

\* Mutant: the consumer is notified only when the queue was empty.
PutNotifiesWhenEmpty(o) ==
    LET item == <<o, offerer[o].count>>
    IN  /\ offerer[o].pc = "put"
        /\ \/ /\ queue_shutdown
              /\ offerer' = [offerer EXCEPT ![o].pc = "idle"]
              /\ UNCHANGED <<list, accepted>>
           \/ /\ ~ queue_shutdown
              /\ Len(list) >= QueueSize
              /\ offerer' = [offerer EXCEPT ![o].pc = "putwait"]
              /\ UNCHANGED <<list, accepted>>
           \/ /\ ~ queue_shutdown
              /\ Len(list) < QueueSize
              /\ list' = Append(list, item)
              /\ accepted' = accepted \cup {item}
              /\ offerer' = [offerer EXCEPT ![o].pc = IF list = <<>> THEN "notify" ELSE "idle"]
        /\ UNCHANGED <<queue_shutdown, pool_shutdown, worker, closer, processed, owed>>

\* One turn of the loop of BlockingPut, with lock_ held: wait, refuse or add.
Put(o) ==
    LET item == <<o, offerer[o].count>>
    IN  /\ offerer[o].pc = "put"
        /\ \/ /\ queue_shutdown
              /\ offerer' = [offerer EXCEPT ![o].pc = "idle"]
              /\ UNCHANGED <<list, accepted>>
           \/ /\ ~ queue_shutdown
              /\ Len(list) >= QueueSize
              /\ offerer' = [offerer EXCEPT ![o].pc = "putwait"]
              /\ UNCHANGED <<list, accepted>>
           \/ /\ ~ queue_shutdown
              /\ Len(list) < QueueSize
              /\ list' = Append(list, item)
              /\ accepted' = accepted \cup {item}
              /\ offerer' = [offerer EXCEPT ![o].pc = "notify"]
        /\ UNCHANGED <<queue_shutdown, pool_shutdown, worker, closer, processed, owed>>

\* get_cv_.notify_one()
PutNotify(o) ==
    /\ offerer[o].pc = "notify"
    /\ NotifyOne(worker, worker', "getwait", "get")
    /\ offerer' = [offerer EXCEPT ![o].pc = "idle"]
    /\ UNCHANGED <<list, queue_shutdown, pool_shutdown, closer, accepted, processed, owed>>

\* A wait on a condition variable may return without a notification.
PutSpurious(o) ==
    /\ offerer[o].pc = "putwait"
    /\ offerer' = [offerer EXCEPT ![o].pc = "put"]
    /\ UNCHANGED <<list, queue_shutdown, pool_shutdown, worker, closer, accepted,
                   processed, owed>>

-------------------------------------------------------------------------------
(* WorkerThread *)

IsShutdown(w) ==
    /\ worker[w].pc = "check"
    /\ LockFree
    /\ worker' = [worker EXCEPT ![w].pc = IF pool_shutdown THEN "exit" ELSE "get"]
    /\ UNCHANGED <<list, queue_shutdown, pool_shutdown, offerer, closer, accepted,
                   processed, owed>>

\* Mutant: the item is not popped.
GetWithoutPop(w) ==
    /\ worker[w].pc = "get"
    /\ \/ /\ list # <<>>
          /\ worker' = [worker EXCEPT ![w] = [pc |-> "notify", item |-> Head(list)]]
          /\ UNCHANGED list
       \/ /\ list = <<>>
          /\ worker' = [worker EXCEPT ![w].pc = IF queue_shutdown THEN "size"
                                                ELSE "getwait"]
          /\ UNCHANGED list
    /\ UNCHANGED <<queue_shutdown, pool_shutdown, offerer, closer, accepted,
                   processed, owed>>

\* One turn of the loop of BlockingGet: take an item, give up or wait.
Get(w) ==
    /\ worker[w].pc = "get"
    /\ \/ /\ list # <<>>
          /\ worker' = [worker EXCEPT ![w] = [pc |-> "notify", item |-> Head(list)]]
          /\ list' = Tail(list)
       \/ /\ list = <<>>
          /\ worker' = [worker EXCEPT ![w].pc = IF queue_shutdown THEN "size"
                                                ELSE "getwait"]
          /\ UNCHANGED list
    /\ UNCHANGED <<queue_shutdown, pool_shutdown, offerer, closer, accepted,
                   processed, owed>>

\* put_cv_.notify_one()
GetNotify(w) ==
    /\ worker[w].pc = "notify"
    /\ NotifyOne(offerer, offerer', "putwait", "put")
    /\ worker' = [worker EXCEPT ![w].pc = "work"]
    /\ UNCHANGED <<list, queue_shutdown, pool_shutdown, closer, accepted, processed, owed>>

GetSpurious(w) ==
    /\ worker[w].pc = "getwait"
    /\ worker' = [worker EXCEPT ![w].pc = "get"]
    /\ UNCHANGED <<list, queue_shutdown, pool_shutdown, offerer, closer, accepted,
                   processed, owed>>

\* work_function_ returns.
Work(w) ==
    /\ worker[w].pc = "work"
    /\ processed' = processed \cup {worker[w].item}
    /\ worker' = [worker EXCEPT ![w] = [pc |-> "size", item |-> NoItem]]
    /\ UNCHANGED <<list, queue_shutdown, pool_shutdown, offerer, closer, accepted, owed>>

CheckSize(w) ==
    /\ worker[w].pc = "size"
    /\ worker' = [worker EXCEPT ![w].pc = IF list = <<>> THEN "empty" ELSE "check"]
    /\ UNCHANGED <<list, queue_shutdown, pool_shutdown, offerer, closer, accepted,
                   processed, owed>>

\* Mutant: the drainer is notified without the lock.
NotifyEmptyUnlocked(w) ==
    /\ worker[w].pc = "empty"
    /\ closer' = IF closer = "drainwait" THEN "drain" ELSE closer
    /\ worker' = [worker EXCEPT ![w].pc = "check"]
    /\ UNCHANGED <<list, queue_shutdown, pool_shutdown, offerer, accepted, processed, owed>>

\* empty_cv_.notify_all(), with the pool's lock_ held.
NotifyEmpty(w) ==
    /\ worker[w].pc = "empty"
    /\ LockFree
    /\ closer' = IF closer = "drainwait" THEN "drain" ELSE closer
    /\ worker' = [worker EXCEPT ![w].pc = "check"]
    /\ UNCHANGED <<list, queue_shutdown, pool_shutdown, offerer, accepted, processed, owed>>

-------------------------------------------------------------------------------
(* DrainAndShutdown, Shutdown and Join, on the closing thread *)

CloserMoves(from, to) == closer = from /\ closer' = to

DrainStart ==
    /\ CloserMoves("idle", "drain")
    /\ owed' = accepted
    /\ UNCHANGED <<list, queue_shutdown, pool_shutdown, worker, offerer, accepted,
                   processed>>

\* The destructor, or Statestore::SetExitFlag: nothing is drained.
ShutdownStart ==
    /\ CloserMoves("idle", "shutdown")
    /\ UNCHANGED <<list, queue_shutdown, pool_shutdown, worker, offerer, accepted,
                   processed, owed>>

\* GetSize() != 0 is tested with the pool's lock_ held, ...
DrainCheck ==
    /\ CloserMoves("drain", IF list = <<>> THEN "shutdown" ELSE "locked")
    /\ UNCHANGED <<list, queue_shutdown, pool_shutdown, worker, offerer, accepted,
                   processed, owed>>

\* ... which empty_cv_.wait releases.
DrainWait ==
    /\ CloserMoves("locked", "drainwait")
    /\ UNCHANGED <<list, queue_shutdown, pool_shutdown, worker, offerer, accepted,
                   processed, owed>>

DrainSpurious ==
    /\ CloserMoves("drainwait", "drain")
    /\ UNCHANGED <<list, queue_shutdown, pool_shutdown, worker, offerer, accepted,
                   processed, owed>>

ShutdownPool ==
    /\ CloserMoves("shutdown", "queue")
    /\ pool_shutdown' = TRUE
    /\ UNCHANGED <<list, queue_shutdown, worker, offerer, accepted, processed, owed>>

\* BlockingQueue::Shutdown: the flag, then both notify_all.
ShutdownQueue ==
    /\ CloserMoves("queue", "wakeget")
    /\ queue_shutdown' = TRUE
    /\ UNCHANGED <<list, pool_shutdown, worker, offerer, accepted, processed, owed>>

WakeGetters ==
    /\ CloserMoves("wakeget", "wakeput")
    /\ worker' = NotifyAll(worker, "getwait", "get")
    /\ UNCHANGED <<list, queue_shutdown, pool_shutdown, offerer, accepted, processed, owed>>

WakePutters ==
    /\ CloserMoves("wakeput", "join")
    /\ offerer' = NotifyAll(offerer, "putwait", "put")
    /\ UNCHANGED <<list, queue_shutdown, pool_shutdown, worker, accepted, processed, owed>>

\* Mutant: the workers are not joined.
JoinNobody ==
    /\ CloserMoves("join", "done")
    /\ UNCHANGED <<list, queue_shutdown, pool_shutdown, worker, offerer, accepted,
                   processed, owed>>

Join ==
    /\ \A w \in Workers : worker[w].pc = "exit"
    /\ CloserMoves("join", "done")
    /\ UNCHANGED <<list, queue_shutdown, pool_shutdown, worker, offerer, accepted,
                   processed, owed>>

-------------------------------------------------------------------------------

Init ==
    /\ list = <<>>
    /\ queue_shutdown = FALSE
    /\ pool_shutdown = FALSE
    /\ worker = [w \in Workers |-> [pc |-> "check", item |-> NoItem]]
    /\ offerer = [o \in Offerers |-> [pc |-> "idle", count |-> 0]]
    /\ closer = "idle"
    /\ accepted = {}
    /\ processed = {}
    /\ owed = {}

OffererStep(o) == Put(o) \/ PutNotify(o)
WorkerStep(w) == \/ IsShutdown(w) \/ Get(w) \/ GetNotify(w) \/ Work(w)
                 \/ CheckSize(w) \/ NotifyEmpty(w)
CloserStep == \/ DrainCheck \/ DrainWait \/ ShutdownPool \/ ShutdownQueue
              \/ WakeGetters \/ WakePutters \/ Join

Next ==
    \/ \E o \in Offerers : OfferStart(o) \/ OffererStep(o) \/ PutSpurious(o)
    \/ \E w \in Workers : WorkerStep(w) \/ GetSpurious(w)
    \/ DrainStart \/ ShutdownStart \/ DrainSpurious \/ CloserStep

Spec == Init /\ [][Next]_vars

\* Threads that can run do run, a mutex that is released again and again is given
\* to a worker that waits for it, and work_function_ returns.  Nothing is assumed
\* of spurious wakeups, nor that the pool is ever used or closed.
Fairness == /\ \A o \in Offerers : WF_vars(OffererStep(o))
            /\ \A w \in Workers : SF_vars(WorkerStep(w))
            /\ WF_vars(CloserStep)

FairSpec == Spec /\ Fairness

-------------------------------------------------------------------------------

WorkerPcs == {"check", "get", "getwait", "notify", "work", "size", "empty", "exit"}
OffererPcs == {"idle", "put", "putwait", "notify"}
CloserPcs == {"idle", "drain", "locked", "drainwait", "shutdown", "queue", "wakeget",
              "wakeput", "join", "done"}

\* Every variable has its type, and the queue is never longer than its capacity
\* (DCHECK_LT, blocking-queue.h:78).
TypeOK ==
    /\ list \in Seq(Items)
    /\ Len(list) <= QueueSize
    /\ queue_shutdown \in BOOLEAN /\ pool_shutdown \in BOOLEAN
    /\ worker \in [Workers -> [pc : WorkerPcs, item : Items \cup {NoItem}]]
    /\ \A w \in Workers : IF worker[w].pc \in {"notify", "work"} THEN worker[w].item \in Items
                                                                 ELSE worker[w].item = NoItem
    /\ offerer \in [Offerers -> [pc : OffererPcs, count : 0 .. MaxOffers]]
    /\ \A o \in Offerers : offerer[o].pc # "idle" => offerer[o].count > 0
    /\ closer \in CloserPcs
    /\ accepted \subseteq Items /\ processed \subseteq Items /\ owed \subseteq Items

InHand == {worker[w].item : w \in {x \in Workers : worker[x].pc \in {"notify", "work"}}}
Queued == {list[i] : i \in 1 .. Len(list)}

\* An item for which Offer returns true is queued, in the hands of one worker or
\* processed, in one of these places only and there once.
EveryItemOnce ==
    /\ accepted = Queued \cup InHand \cup processed
    /\ Queued \cap (InHand \cup processed) = {} /\ InHand \cap processed = {}
    /\ \A i, j \in 1 .. Len(list) : list[i] = list[j] => i = j
    /\ \A v, w \in Workers : worker[v].item = worker[w].item /\ worker[w].item # NoItem
                             => v = w

\* No wakeup of a getter is lost, although notify_one is called after the lock
\* has been released: while workers wait, every queued item has a notification
\* on its way or a worker that is about to look.
GettersWoken ==
    Waiting(worker, "getwait") # {} =>
        Len(list) <= Cardinality(Waiting(offerer, "notify"))
                     + Cardinality(Waiting(worker, "get"))

\* Nor is one of a putter: while threads wait for space, every free slot has a
\* notification on its way or a thread that is about to look.
PuttersWoken ==
    ~ queue_shutdown /\ Waiting(offerer, "putwait") # {} =>
        QueueSize - Len(list) <= Cardinality(Waiting(worker, "notify"))
                                 + Cardinality(Waiting(offerer, "put"))

\* Once the queue's Shutdown has returned nobody waits in it, "Wakes up all
\* threads waiting on BlockingGet or BlockingPut" (blocking-queue.h:85), those
\* that were about to wait included.
NobodyLeftWaiting ==
    closer \in {"join", "done"} => /\ Waiting(worker, "getwait") = {}
                                   /\ Waiting(offerer, "putwait") = {}

\* When DrainAndShutdown returns, all work accepted before it was called has
\* been processed (the promise of thread-pool.h:69-70, on which callers rely to
\* free what the items refer to).
DrainedIsProcessed == closer = "done" => owed \subseteq processed

\* A thread that closes the pool, draining it or not, gets done once the others
\* have stopped offering: no interleaving of the worker's GetSize() == 0 and its
\* notify_all with DrainAndShutdown's test and wait (the comment of
\* thread-pool.h:128-130) makes it hang.
CloseReturns == closer # "idle" ~> closer = "done"

===============================================================================
