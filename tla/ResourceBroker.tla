---------------------------- MODULE ResourceBroker -----------------------------
(***************************************************************************)
(* Reserving resources for queries from Llama (be/src/resourcebroker/        *)
(* resource-broker.cc) and the scheduler's use of them                       *)
(* (be/src/statestore/simple-scheduler.cc, Schedule and Release).            *)
(*                                                                           *)
(* The thread of each query reserves, waits for the asynchronous             *)
(* notification or a timeout, runs the query and releases; any of them may   *)
(* find that Llama was restarted and register again.  Llama is external: it  *)
(* grants, rejects and preempts reservations, forgets them in a restart, and *)
(* gives this client one handle per start.                                   *)
(***************************************************************************)
EXTENDS Integers, Sequences, FiniteSets

CONSTANTS
    Queries,
    LLAMA_MAX_REQUEST_ATTEMPTS,
    MaxFaults       \* bound on lost answers, failed connections, restarts of Llama and
                    \* preempted reservations

ASSUME BrokerAssumption ==
    /\ LLAMA_MAX_REQUEST_ATTEMPTS \in Nat \ {0}
    /\ MaxFaults \in Nat

None == "none"

VARIABLES
    llama,          \* its start, and the reservations it accepted, by id
    notes,          \* AMNotifications on their way
    llama_handle,
    pending,        \* pending_requests_: the query whose promise an id points to, or None
    active,         \* active_reservations_: the query of each id
    thread,         \* the thread of each query
    coord,          \* the query's Coordinator: alive, cancelled or gone
    handling,       \* the coordinator AMNotification is about to cancel, with requests_lock_
    faults

vars == <<llama, notes, llama_handle, pending, active, thread, coord, handling, faults>>

-------------------------------------------------------------------------------
(* State *)

\* id is the reservation's id of the last answer and reservation_id that of the schedule's
\* reservation, 0 while not set; am_handle is the request's and current the one remembered
\* by RegisterWithLlama; excused is history: why a reservation may be left in Llama.
NewThread == [pc |-> "new", attempts |-> 0, id |-> 0, reservation_id |-> 0,
              am_handle |-> 0, current |-> 0, request |-> None,
              promise |-> None, timed_out |-> FALSE, excused |-> FALSE]

Init ==
    /\ llama = [start |-> 1, reservations |-> <<>>]
    /\ notes = {} /\ llama_handle = 1
    /\ pending = <<>> /\ active = <<>>
    /\ thread = [q \in Queries |-> NewThread]
    /\ coord = [q \in Queries |-> "alive"]
    /\ handling = None /\ faults = 0

Ids == 1..Len(llama.reservations)
Step(q, from) == thread[q].pc = from
Fault == faults < MaxFaults /\ faults' = faults + 1
Known(q) == thread[q].am_handle = llama.start
Without(f, id) == [x \in DOMAIN f \ {id} |-> f[x]]
With(f, id, v) == [x \in DOMAIN f \cup {id} |-> IF x = id THEN v ELSE f[x]]

\* Llama accepts n reservations of q; the last one is answered
Accept(q, n) ==
    llama' = [llama EXCEPT !.reservations =
                @ \o [k \in 1..n |-> [q |-> q, state |-> "pending", start |-> llama.start]]]

-------------------------------------------------------------------------------
(* Reserve *)

Schedule(q) ==
    /\ Step(q, "new")
    /\ thread' = [thread EXCEPT ![q] = [@ EXCEPT !.pc = "send", !.request = "reserve",
                                                !.am_handle = llama_handle]]
    /\ UNCHANGED <<llama, notes, llama_handle, pending, active, coord, handling, faults>>

\* The answer of attempt number attempts + 1: the last attempt counts as failed
Answered(t, id) ==
    IF t.attempts + 1 >= LLAMA_MAX_REQUEST_ATTEMPTS
    THEN [t EXCEPT !.pc = "finish", !.excused = TRUE]
    ELSE [t EXCEPT !.pc = "add", !.id = id]

\* A transport exception whose Reopen fails: the loop's next attempt
Again(t) ==
    IF t.attempts + 1 >= LLAMA_MAX_REQUEST_ATTEMPTS
    THEN [t EXCEPT !.pc = IF t.request = "reserve" THEN "finish" ELSE "remove",
                   !.attempts = 0, !.excused = TRUE]
    ELSE [t EXCEPT !.attempts = t.attempts + 1, !.excused = TRUE]

\* One attempt of Reserve's RPC
SendReserve(q) ==
    /\ Step(q, "send") /\ thread[q].request = "reserve" /\ Known(q)
    /\ \/ /\ Accept(q, 1) /\ UNCHANGED faults
          /\ thread' = [thread EXCEPT ![q] = Answered(@, Len(llama.reservations) + 1)]
       \/ /\ Fault /\ Accept(q, 2)       \* an answer is lost and the request sent again
          /\ thread' = [thread EXCEPT ![q] = [Answered(@, Len(llama.reservations) + 2)
                                              EXCEPT !.excused = TRUE]]
       \/ /\ Fault /\ Accept(q, 1)       \* and the connection cannot be reopened
          /\ thread' = [thread EXCEPT ![q] = Again(@)]
       \/ /\ Fault /\ thread' = [thread EXCEPT ![q].pc = "finish"] /\ UNCHANGED llama
    /\ UNCHANGED <<notes, llama_handle, pending, active, coord, handling>>

\* LlamaHasRestarted: RegisterWithLlama remembers the handle before it takes the lock
Restarted(q) ==
    /\ Step(q, "send") /\ ~Known(q)
    /\ thread' = [thread EXCEPT ![q] = [@ EXCEPT !.pc = "register", !.current = llama_handle]]
    /\ UNCHANGED <<llama, notes, llama_handle, pending, active, coord, handling, faults>>

\* as RegisterWithLlama would be if only the request got the new handle
RegisterForRequest(q) ==
    /\ Step(q, "register")
    /\ thread' = [thread EXCEPT ![q] = [@ EXCEPT !.pc = "send", !.attempts = @ + 1,
                                                !.am_handle = llama.start]]
    /\ UNCHANGED <<llama, notes, llama_handle, pending, active, coord, handling, faults>>

\* Under llama_registration_lock_, unless another thread has registered; then the loop's
\* next attempt, which there may be none of.  A registration that fails, or a refresh of
\* the nodes after it, fails the request.
RegisterWithLlama(q) ==
    LET t == thread[q]
        h == IF llama_handle = t.current THEN llama.start ELSE llama_handle
        last == t.attempts + 1 >= LLAMA_MAX_REQUEST_ATTEMPTS
        failed == [t EXCEPT !.pc = IF t.request = "reserve" THEN "finish" ELSE "remove",
                            !.attempts = 0, !.excused = t.excused \/ t.request = "release"]
    IN
    /\ Step(q, "register")
    /\ \/ /\ llama_handle' = h /\ UNCHANGED faults
          /\ thread' = [thread EXCEPT ![q] =
                IF last THEN failed
                ELSE [t EXCEPT !.pc = "send", !.attempts = t.attempts + 1, !.am_handle = h]]
       \/ /\ llama_handle' \in {llama_handle, h} /\ Fault
          /\ thread' = [thread EXCEPT ![q] = failed]
    /\ UNCHANGED <<llama, notes, pending, active, coord, handling>>

\* The promise is entered once the answer is there, with requests_lock_
AddPending(q) ==
    /\ Step(q, "add") /\ handling = None
    /\ pending' = With(pending, thread[q].id, q)
    /\ thread' = [thread EXCEPT ![q].pc = "wait"]
    /\ UNCHANGED <<llama, notes, llama_handle, active, coord, handling, faults>>

\* Promise::Get returns the value, or times out while it is not set
Get(q) ==
    /\ Step(q, "wait")
    /\ thread' = [thread EXCEPT ![q] = [@ EXCEPT !.pc = "erase",
                                                !.timed_out = thread[q].promise = None]]
    /\ UNCHANGED <<llama, notes, llama_handle, pending, active, coord, handling, faults>>

\* as the end of Reserve would be if a request that timed out stayed pending
ReserveReturnsPending(q) ==
    LET t == thread[q] IN
    /\ Step(q, "erase") /\ handling = None
    /\ pending' = IF t.timed_out THEN pending ELSE Without(pending, t.id)
    /\ thread' = [thread EXCEPT ![q] =
         IF t.timed_out THEN [t EXCEPT !.reservation_id = t.id, !.pc = "finish"]
         ELSE [t EXCEPT !.pc = IF t.promise = "rejected" THEN "finish" ELSE "validate"]]
    /\ UNCHANGED <<llama, notes, llama_handle, active, coord, handling, faults>>

\* as the end of Reserve would be if it did not give the id of a request that timed out
ReserveReturnsNoId(q) ==
    LET t == thread[q] IN
    /\ Step(q, "erase") /\ handling = None
    /\ pending' = Without(pending, t.id)
    /\ thread' = [thread EXCEPT ![q].pc =
         IF t.promise = "granted" /\ ~t.timed_out THEN "validate" ELSE "finish"]
    /\ UNCHANGED <<llama, notes, llama_handle, active, coord, handling, faults>>

\* The promise is removed, and the id of a request that timed out returned to be released
ReserveReturns(q) ==
    LET t == thread[q] IN
    /\ Step(q, "erase") /\ handling = None
    /\ pending' = Without(pending, t.id)
    /\ thread' = [thread EXCEPT ![q] =
         IF t.timed_out THEN [t EXCEPT !.reservation_id = t.id, !.pc = "finish"]
         ELSE [t EXCEPT !.pc = IF t.promise = "rejected" THEN "finish" ELSE "validate"]]
    /\ UNCHANGED <<llama, notes, llama_handle, active, coord, handling, faults>>

\* ValidateReservation and AddToActiveResourceMaps, then the query runs
Activate(q) ==
    /\ Step(q, "validate")
    /\ \/ /\ active' = With(active, thread[q].reservation_id, q)
          /\ thread' = [thread EXCEPT ![q].pc = "run"]
       \/ thread' = [thread EXCEPT ![q].pc = "finish"] /\ UNCHANGED active
    /\ UNCHANGED <<llama, notes, llama_handle, pending, coord, handling, faults>>

-------------------------------------------------------------------------------
(* Release *)

\* The query ends; Done calls Release, which needs a reservation_id
Finish(q) ==
    /\ thread[q].pc \in {"run", "finish"}
    /\ thread' = [thread EXCEPT ![q] =
         IF @.reservation_id = 0 THEN [@ EXCEPT !.pc = "remove"]
         ELSE [@ EXCEPT !.pc = "send", !.request = "release", !.attempts = 0,
                        !.am_handle = llama_handle]]
    /\ UNCHANGED <<llama, notes, llama_handle, pending, active, coord, handling, faults>>

SendRelease(q) ==
    LET released == [llama EXCEPT !.reservations[thread[q].reservation_id].state =
                       IF @ = "lost" THEN @ ELSE "released"] IN
    /\ Step(q, "send") /\ thread[q].request = "release" /\ Known(q)
    /\ \/ /\ llama' = released /\ UNCHANGED faults
          /\ thread' = [thread EXCEPT ![q].pc = "remove"]
       \/ /\ Fault /\ llama' \in {llama, released}   \* and no connection can be opened
          /\ \/ thread' = [thread EXCEPT ![q] = Again(@)]
             \/ thread' = [thread EXCEPT ![q] = [@ EXCEPT !.pc = "remove", !.excused = TRUE]]
    /\ UNCHANGED <<notes, llama_handle, pending, active, coord, handling>>

\* RemoveFromActiveResourceMaps whatever Release returned, and the end of the query's state
Remove(q) ==
    /\ Step(q, "remove")
    /\ active' = Without(active, thread[q].reservation_id)
    /\ coord' = [coord EXCEPT ![q] = "gone"]
    /\ thread' = [thread EXCEPT ![q].pc = "gone"]
    /\ UNCHANGED <<llama, notes, llama_handle, pending, handling, faults>>

-------------------------------------------------------------------------------
(* Llama and its notifications *)

Note(id, kind) == [id |-> id, kind |-> kind, handle |-> llama.start, checked |-> FALSE]

Decide(id) ==
    /\ llama.reservations[id].state = "pending"
    /\ \E kind \in {"granted", "rejected"} :
         /\ llama' = [llama EXCEPT !.reservations[id].state = kind]
         /\ notes' = notes \cup {Note(id, kind)}
    /\ UNCHANGED <<llama_handle, pending, active, thread, coord, handling, faults>>

Preempt(id) ==
    /\ llama.reservations[id].state = "granted"
    /\ Fault
    /\ llama' = [llama EXCEPT !.reservations[id].state = "preempted"]
    /\ notes' = notes \cup {Note(id, "preempted")}
    /\ UNCHANGED <<llama_handle, pending, active, thread, coord, handling>>

LlamaRestarts ==
    /\ Fault
    /\ llama' = [start |-> llama.start + 1,
                 reservations |-> [id \in Ids |-> [llama.reservations[id] EXCEPT !.state = "lost"]]]
    /\ UNCHANGED <<notes, llama_handle, pending, active, thread, coord, handling>>

\* The promise is set, with the resources if they were granted
Notified(t, n) ==
    [t EXCEPT !.promise = n.kind,
              !.reservation_id = IF n.kind = "granted" THEN n.id ELSE t.reservation_id]

\* AMNotification ignores a handle that is not its own, under llama_registration_lock_
CheckHandle(n) ==
    /\ ~n.checked
    /\ notes' = (notes \ {n}) \cup
                IF n.handle = llama_handle THEN {[n EXCEPT !.checked = TRUE]} ELSE {}
    /\ UNCHANGED <<llama, llama_handle, pending, active, thread, coord, handling, faults>>

\* Then, with requests_lock_, sets the promise or finds the coordinator of a preempted query
\* to cancel.  pending_requests_[] enters a NULL for an id that is not there.
AMNotification(n) ==
    /\ n.checked /\ notes' = notes \ {n} /\ handling = None
    /\ IF n.kind = "preempted"
       THEN /\ handling' = IF n.id \in DOMAIN active THEN active[n.id] ELSE None
            /\ UNCHANGED <<pending, thread>>
       ELSE LET q == IF n.id \in DOMAIN pending THEN pending[n.id] ELSE None IN
            /\ pending' = With(pending, n.id, q)
            /\ thread' = IF q = None THEN thread
                         ELSE [thread EXCEPT ![q] = Notified(@, n)]
            /\ UNCHANGED handling
    /\ UNCHANGED <<llama, llama_handle, active, coord, faults>>

CancelPreempted ==
    /\ handling # None /\ handling' = None
    /\ coord' = [coord EXCEPT ![handling] = IF @ = "alive" THEN "cancelled" ELSE @]
    /\ UNCHANGED <<llama, notes, llama_handle, pending, active, thread, faults>>

-------------------------------------------------------------------------------
(* The system *)

ThreadStep(q) ==
    \/ Schedule(q) \/ SendReserve(q) \/ Restarted(q) \/ RegisterWithLlama(q) \/ AddPending(q)
    \/ Get(q) \/ ReserveReturns(q) \/ Activate(q) \/ Finish(q) \/ SendRelease(q) \/ Remove(q)

Next ==
    \/ \E q \in Queries : ThreadStep(q)
    \/ \E id \in Ids : Decide(id) \/ Preempt(id)
    \/ LlamaRestarts
    \/ \E n \in notes : CheckHandle(n) \/ AMNotification(n)
    \/ CancelPreempted

Spec == Init /\ [][Next]_vars

-------------------------------------------------------------------------------
(* Properties *)

\* The promise that AMNotification sets belongs to a Reserve that has not returned: it is on
\* the stack of a thread that still has to take requests_lock_ to remove it
PromiseIsAlive ==
    \A id \in DOMAIN pending : pending[id] # None =>
        Step(pending[id], "wait") \/ Step(pending[id], "erase")

\* When a query is gone Llama holds no reservation for it: one that was rejected, forgotten
\* in a restart or released.  A grant that comes after the timeout, or before the promise is
\* entered, is released with the id of the request that timed out.  Excused is a query
\* with a lost answer, a failed Release or an answer to the last attempt.
ReservationsReturned ==
    \A q \in Queries : Step(q, "gone") /\ ~thread[q].excused =>
        \A id \in Ids : llama.reservations[id].q = q =>
            llama.reservations[id].state \in {"rejected", "released", "lost"}

\* AMNotification does not ignore what the current Llama says about a reservation that a
\* thread waits for, though any of the threads may register again at any time: the handle
\* that it compares with is the one the reservation was made with
NotificationsHeard ==
    \A q \in Queries : thread[q].pc \in {"add", "wait"} =>
        LET r == llama.reservations[thread[q].id] IN
        r.start = llama.start => llama_handle = llama.start
================================================================================
