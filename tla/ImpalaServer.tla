----------------------------- MODULE ImpalaServer ------------------------------
(***************************************************************************)
(* The life of queries in an ImpalaServer (be/src/service/impala-server.cc,  *)
(* query-exec-state.cc, child-query.cc and the Beeswax and HiveServer2       *)
(* front ends): Execute, Wait, Fetch, Cancel and Close of a query, the       *)
(* child queries of COMPUTE STATS, closing and expiring their session,       *)
(* expiring queries, and cancelling the queries of a failed backend.         *)
(*                                                                           *)
(* Process x is the client's thread of query x, or the child queries' thread *)
(* of its parent while it runs child x.  A thread is a stack of calls: the   *)
(* head is what it does now.  query_exec_state_map_lock_ and each lock_ of a *)
(* QueryExecState are explicit; a step that needs one waits until it is      *)
(* free.  The Coordinator is what it shows its callers: a status and whether *)
(* its fragments run.                                                        *)
(***************************************************************************)
EXTENDS Integers, Sequences, FiniteSets, Functions

CONSTANTS
    Queries,
    Statements,         \* the client's queries; the others are child queries
    Plans,              \* the child queries a plan may give each query, in order
    Dml,                \* the queries that return no result set
    Hosts,              \* the backends that run fragments
    Other, Closer, Worker,  \* another client, the thread that closes the session, the
                            \* cancellation thread pool's thread
    MaxQueue,           \* MAX_CANCELLATION_QUEUE_SIZE
    MaxEvents           \* bound on failed calls, another client's Cancels and Closes, closing
                        \* and expiring the session, expired queries and failed backends

None == "none"
Procs == Queries \cup {Other, Closer, Worker}

ASSUME ServerAssumption ==
    /\ Queries \cap {Other, Closer, Worker} = {} /\ None \notin Procs
    /\ Other # Closer /\ Closer # Worker /\ Worker # Other
    /\ Dml \subseteq Queries /\ Statements \subseteq Queries
    /\ \A plan \in Plans : plan \in [Queries -> Seq(Queries \ Statements)]
    /\ MaxQueue \in Nat /\ MaxEvents \in Nat

VARIABLES
    map,            \* query_exec_state_map_
    map_lock,       \* who holds query_exec_state_map_lock_
    q,              \* the QueryExecState of each query
    session,        \* the SessionState
    up,             \* known_backends_
    locations,      \* query_locations_
    expirations,    \* the queries of queries_by_timestamp_
    work,           \* the queue of the cancellation thread pool
    stack,          \* the calls of each thread
    events          \* bounds the failures, cancellations and expiries

vars == <<map, map_lock, q, session, up, locations, expirations, work, stack, events>>

-------------------------------------------------------------------------------
(* State *)

NewQuery(cs) ==
    [state |-> "CREATED", status |-> "OK", eos |-> FALSE, lock |-> None,
     ref_count |-> 0, wait |-> "off",
     coord |-> None,            \* None, or the coordinator's query_status_
     fragments |-> "none",      \* none, running or cancelled
     child_queries |-> cs,
     children |-> FALSE,        \* ExecChildQueriesAsync was called
     is_running |-> FALSE,      \* of the ChildQuery that runs it
     result |-> None,           \* of ExecAndFetch
     released |-> 0]            \* history: Done with a coordinator

Call(at, x, cause) == [at |-> at, x |-> x, cause |-> cause]

\* UnregisterQuery calls CancelInternal first
CancelInternal(x, cause) == <<Call("find", x, cause)>>
UnregisterQuery(x, cause) == CancelInternal(x, cause) \o <<Call("erase", x, cause)>>

Init ==
    /\ map = {} /\ map_lock = None
    /\ \E plan \in Plans : q = [x \in Queries |-> NewQuery(plan[x])]
    /\ session = [closed |-> FALSE, expired |-> FALSE, inflight |-> {}, todo |-> {}]
    /\ up = Hosts /\ locations = [h \in Hosts |-> {}]
    /\ expirations = {} /\ work = {}
    /\ stack = [i \in Procs |->
                  IF i \in Queries
                  THEN <<Call(IF i \in Statements THEN "new" ELSE "check_new", i, None)>>
                  ELSE <<Call("idle", None, None)>>]
    /\ events = 0

ChildrenOf(x) == Range(q[x].child_queries)
IsParent(x) == q[x].child_queries # <<>>
IsChild(x) == x \notin Statements
Parents(c) == {x \in Queries : c \in ChildrenOf(x)}
ParentOf(c) == CHOOSE x \in Parents(c) : TRUE

Top(i) == Head(stack[i])
At(i, l) == Top(i).at = l
Free(x) == q[x].lock = None

\* The thread's calls after the current one goes on at l, and after it calls cs first
Goto(i, l) == [stack EXCEPT ![i] = <<[Top(i) EXCEPT !.at = l]>> \o Tail(@)]
Calls(i, l, cs) == [stack EXCEPT ![i] = cs \o <<[Top(i) EXCEPT !.at = l]>> \o Tail(@)]
Return(i) == [stack EXCEPT ![i] = Tail(@)]

Rejected == session.closed \/ session.expired

\* UpdateQueryStatus of an error: the first one is kept
Failed(r) == IF r.status = "OK" THEN [r EXCEPT !.status = "ERROR", !.state = "EXCEPTION"] ELSE r

\* Coordinator::Cancel
CoordCancelled(r) ==
    IF r.coord # "OK" THEN r
    ELSE [r EXCEPT !.coord = "BAD",
                   !.fragments = IF @ = "running" THEN "cancelled" ELSE @]

Event == events < MaxEvents /\ events' = events + 1

-------------------------------------------------------------------------------
(* CancelInternal and UnregisterQuery, by any thread *)

\* GetQueryExecState(x, true) waits for the query's lock_ with the map's lock
Find(i) ==
    /\ At(i, "find") /\ map_lock = None
    /\ IF Top(i).x \in map THEN map_lock' = i /\ stack' = Goto(i, "lock")
       ELSE UNCHANGED map_lock /\ stack' = Return(i)
    /\ UNCHANGED <<map, q, session, up, locations, expirations, work, events>>

Lock(i) ==
    /\ At(i, "lock") /\ Free(Top(i).x)
    /\ q' = [q EXCEPT ![Top(i).x].lock = i]
    /\ map_lock' = None
    /\ stack' = Goto(i, "cancel")
    /\ UNCHANGED <<map, session, up, locations, expirations, work, events>>

\* The body of QueryExecState::Cancel once no child runs, and the release of lock_
Cancelled(r, cause) ==
    [IF r.eos \/ r.state = "EXCEPTION" THEN r
     ELSE CoordCancelled([IF cause = None THEN r ELSE Failed(r) EXCEPT !.state = "EXCEPTION"])
     EXCEPT !.lock = None]

\* QueryExecState::Cancel: a running child is cancelled (CancelOperation) and closed
\* (CloseOperation) first, with the parent's lock_ held; an RPC on a closed session is refused
Cancel(i) ==
    /\ At(i, "cancel")
    /\ LET x == Top(i).x IN
       \/ \E c \in ChildrenOf(x) :
            /\ q[c].is_running
            /\ q' = [q EXCEPT ![c].is_running = FALSE]
            /\ stack' = Calls(i, "cancel", IF Rejected THEN <<>>
                                ELSE CancelInternal(c, None) \o UnregisterQuery(c, None))
       \/ /\ \A c \in ChildrenOf(x) : ~q[c].is_running
          /\ q' = [q EXCEPT ![x] = Cancelled(@, Top(i).cause)]
          /\ stack' = Return(i)
    /\ UNCHANGED <<map, map_lock, session, up, locations, expirations, work, events>>

\* as Erase would be if a query that is not registered were unregistered again
EraseAgain(i) ==
    /\ At(i, "erase") /\ map_lock = None
    /\ map' = map \ {Top(i).x}
    /\ stack' = Goto(i, "done")
    /\ UNCHANGED <<map_lock, q, session, up, locations, expirations, work, events>>

\* Only one thread finds the query in the map; to the others UnregisterQuery returns false,
\* which for a child's own thread is the result of ExecAndFetch
Erase(i) ==
    /\ At(i, "erase") /\ map_lock = None
    /\ LET x == Top(i).x IN
       IF x \in map THEN map' = map \ {x} /\ stack' = Goto(i, "done") /\ UNCHANGED q
       ELSE /\ q' = [q EXCEPT ![x].result = IF i = x THEN "BAD" ELSE @]
            /\ stack' = Return(i) /\ UNCHANGED map
    /\ UNCHANGED <<map_lock, session, up, locations, expirations, work, events>>

\* QueryExecState::Done, which releases the schedule's resources, the session's list and
\* query_locations_
Done(i) ==
    /\ At(i, "done") /\ Free(Top(i).x)
    /\ LET x == Top(i).x IN
         /\ q' = [q EXCEPT ![x].ref_count = @ + 1,
                           ![x].released = IF q[x].coord = None THEN @ ELSE @ + 1]
         /\ session' = [session EXCEPT !.inflight = @ \ {x}]
         /\ locations' = [h \in Hosts |-> locations[h] \ {x}]
    /\ stack' = Return(i)
    /\ UNCHANGED <<map, map_lock, up, expirations, work, events>>

-------------------------------------------------------------------------------
(* Execute *)

\* as RegisterQuery would be if it did not look at closed and expired
RegisterUnchecked(x) ==
    /\ At(x, "new") /\ map_lock = None
    /\ map' = map \cup {x}
    /\ q' = [q EXCEPT ![x].lock = x]
    /\ session' = [session EXCEPT !.inflight = @ \cup {x}]
    /\ expirations' = expirations \cup {x}
    /\ stack' = Goto(x, "plan")
    /\ UNCHANGED <<map_lock, up, locations, work, events>>

\* RegisterQuery, with the new query's lock_ held
RegisterQuery(x) ==
    /\ At(x, "new") /\ map_lock = None
    /\ IF Rejected
       THEN /\ stack' = Goto(x, "failed")
            /\ UNCHANGED <<map, q, session, expirations>>
       ELSE /\ map' = map \cup {x}
            /\ q' = [q EXCEPT ![x].lock = x]
            /\ session' = [session EXCEPT !.inflight = @ \cup {x}]
            /\ expirations' = expirations \cup {x}
            /\ stack' = Goto(x, "plan")
    /\ UNCHANGED <<map_lock, up, locations, work, events>>

\* The end of an Execute that failed with the query registered
ExecuteFails(x, r) ==
    /\ Event
    /\ q' = [q EXCEPT ![x] = Failed(r)]
    /\ stack' = Calls(x, "failed", UnregisterQuery(x, "ERROR"))

\* Planning, then lock_ is released
Plan(x) ==
    /\ At(x, "plan")
    /\ \/ ExecuteFails(x, [q[x] EXCEPT !.lock = None])
       \/ /\ q' = [q EXCEPT ![x].lock = None]
          /\ stack' = Goto(x, "exec") /\ UNCHANGED events
    /\ UNCHANGED <<map, map_lock, session, up, locations, expirations, work>>

\* QueryExecState::Exec: a coordinator, or the thread of the child queries
Exec(x) ==
    /\ At(x, "exec")
    /\ q' = [q EXCEPT ![x] = IF IsParent(x)
               THEN [@ EXCEPT !.ref_count = q[x].ref_count + 1, !.children = TRUE]
               ELSE [@ EXCEPT !.ref_count = q[x].ref_count + 1, !.coord = "OK"]]
    /\ stack' = Goto(x, IF IsParent(x) THEN "started" ELSE "launch")
    /\ UNCHANGED <<map, map_lock, session, up, locations, expirations, work, events>>

\* Schedule, which may fail, and Coordinator::Exec: the fragments start even if the query
\* was cancelled meanwhile
Launch(x) ==
    /\ At(x, "launch")
    /\ \/ /\ Free(x)
          /\ \E r \in {q[x], CoordCancelled(q[x])} : ExecuteFails(x, r)
       \/ /\ q' = [q EXCEPT ![x].fragments = "running"]
          /\ stack' = Goto(x, "locate") /\ UNCHANGED events
    /\ UNCHANGED <<map, map_lock, session, up, locations, expirations, work>>

\* The lock_ that Exec takes last, then query_locations_
Locate(x) ==
    /\ At(x, "locate") /\ Free(x)
    /\ locations' = [h \in Hosts |-> locations[h] \cup {x}]
    /\ stack' = Goto(x, "started")
    /\ UNCHANGED <<map, map_lock, q, session, up, expirations, work, events>>

\* UpdateQueryState(RUNNING), the thread that waits for results, and a child's is_running_
Started(x) ==
    /\ At(x, "started") /\ Free(x)
    /\ q' = [q EXCEPT ![x].state = IF @ = "CREATED" THEN "RUNNING" ELSE @,
                      ![x].wait = IF IsParent(x) THEN "children" ELSE "coord",
                      ![x].is_running = IsChild(x)]
    /\ stack' = Goto(x, IF IsChild(x) THEN "check_fetch" ELSE "idle")
    /\ UNCHANGED <<map, map_lock, session, up, locations, expirations, work, events>>

\* Execute returns an error: ExecAndFetch sets is_running_ all the same
ExecuteReturns(x) ==
    /\ At(x, "failed")
    /\ q' = [q EXCEPT ![x] = [@ EXCEPT !.is_running = IsChild(x), !.result = "BAD"]]
    /\ stack' = Goto(x, "end")
    /\ UNCHANGED <<map, map_lock, session, up, locations, expirations, work, events>>

-------------------------------------------------------------------------------
(* Wait, in a thread of its own *)

\* ExecChildQueries has run every child, or stopped at one that failed
Joined(x) ==
    \/ \E c \in ChildrenOf(x) : q[c].result = "BAD"
    \/ \A c \in ChildrenOf(x) : q[c].result = "OK"

\* The thread ends with an error that UpdateQueryStatus records.  MarkInactive is not called.
WaitFails(x) == q' = [q EXCEPT ![x] = [Failed(@) EXCEPT !.wait = "failed"]]

WaitForChildQueries(x) ==
    /\ q[x].wait = "children" /\ Joined(x) /\ Free(x)
    /\ IF q[x].status # "OK" \/ \E c \in ChildrenOf(x) : q[c].result = "BAD"
       THEN WaitFails(x)
       ELSE q' = [q EXCEPT ![x].wait = "update"]
    /\ UNCHANGED <<map, map_lock, session, up, locations, expirations, work, stack, events>>

\* The end of QueryExecState::Wait: eos_ without lock_, and MarkInactive
WaitReady(x) ==
    q' = [q EXCEPT ![x].eos = @ \/ x \in Dml, ![x].ref_count = @ - 1, ![x].wait = "finish"]

\* Coordinator::Wait: the first rows are there, all fragments are done, or the status is bad
CoordWait(x) ==
    /\ q[x].wait = "coord"
    /\ \/ q[x].coord = "BAD" /\ Free(x) /\ WaitFails(x)
       \/ q[x].coord = "OK" /\ x \in Dml /\ q' = [q EXCEPT ![x].wait = "update"]
       \/ q[x].coord = "OK" /\ x \notin Dml /\ WaitReady(x)
    /\ UNCHANGED <<map, map_lock, session, up, locations, expirations, work, stack, events>>

\* UpdateCatalog and UpdateTableAndColumnStats: a call of the catalog server
UpdateCatalog(x) ==
    /\ q[x].wait = "update" /\ Free(x)
    /\ \/ Event /\ WaitFails(x)
       \/ WaitReady(x) /\ UNCHANGED events
    /\ UNCHANGED <<map, map_lock, session, up, locations, expirations, work, stack>>

\* as WaitFinish would be if it set FINISHED unconditionally
WaitFinishAlways(x) ==
    /\ q[x].wait = "finish" /\ Free(x)
    /\ q' = [q EXCEPT ![x] = [@ EXCEPT !.state = "FINISHED", !.wait = "done"]]
    /\ UNCHANGED <<map, map_lock, session, up, locations, expirations, work, stack, events>>

\* UpdateQueryState(FINISHED) only moves the state forward
WaitFinish(x) ==
    /\ q[x].wait = "finish" /\ Free(x)
    /\ q' = [q EXCEPT ![x].state = IF @ = "EXCEPTION" THEN @ ELSE "FINISHED",
                      ![x].wait = "done"]
    /\ UNCHANGED <<map, map_lock, session, up, locations, expirations, work, stack, events>>

-------------------------------------------------------------------------------
(* Fetch *)

\* What the fetching thread does with an error: UnregisterQuery, and a child goes on to
\* close; and with an answer
FetchFails(x) ==
    stack' = Calls(x, IF IsChild(x) THEN "check_close" ELSE "end", UnregisterQuery(x, None))
FetchReturns(x, more) ==
    stack' = Goto(x, IF ~IsChild(x) THEN "idle" ELSE IF more THEN "check_fetch" ELSE "check_close")

\* A query in state EXCEPTION: the answer is its status, which is OK after a client's Cancel
FetchException(x) == IF q[x].status = "OK" THEN FetchReturns(x, FALSE) ELSE FetchFails(x)

\* FetchInternal up to Coordinator::Wait, before which lock_ is released
Fetch(x) ==
    /\ At(x, "fetch") /\ map_lock = None
    /\ \/ (Rejected \/ x \notin map) /\ FetchFails(x) /\ UNCHANGED q
       \/ /\ ~Rejected /\ x \in map /\ Free(x)
          /\ IF q[x].state = "EXCEPTION" THEN FetchException(x) /\ UNCHANGED q
             ELSE IF q[x].eos THEN FetchReturns(x, FALSE) /\ UNCHANGED q
             ELSE q' = [q EXCEPT ![x].ref_count = @ + 1] /\ stack' = Goto(x, "fetch_wait")
    /\ UNCHANGED <<map, map_lock, session, up, locations, expirations, work, events>>

\* FetchRows fails with the coordinator's status, with lock_ taken again
FetchError(x) ==
    /\ q[x].coord = "BAD"
    /\ q' = [q EXCEPT ![x] = [Failed(@) EXCEPT !.ref_count = q[x].ref_count - 1]]
    /\ FetchFails(x)

FetchCancelled(x) ==
    /\ q[x].coord = "OK" /\ q[x].state = "EXCEPTION"
    /\ q' = [q EXCEPT ![x].ref_count = @ - 1]
    /\ FetchException(x)

\* Coordinator::Wait returns; lock_ is released again for Coordinator::GetNext
FetchWait(x) ==
    /\ At(x, "fetch_wait") /\ Free(x)
    /\ \/ FetchError(x)
       \/ FetchCancelled(x)
       \/ /\ q[x].coord = "OK" /\ q[x].state # "EXCEPTION"
          /\ q' = [q EXCEPT ![x].state = "FINISHED"]
          /\ stack' = Goto(x, "fetch_next")
    /\ UNCHANGED <<map, map_lock, session, up, locations, expirations, work, events>>

\* Coordinator::GetNext returns; a query without rows ends at once
FetchNext(x) ==
    /\ At(x, "fetch_next") /\ Free(x)
    /\ \/ FetchError(x)
       \/ FetchCancelled(x)
       \/ /\ q[x].coord = "OK" /\ q[x].state # "EXCEPTION"
          /\ \E eos \in IF x \in Dml THEN {TRUE} ELSE BOOLEAN :
               /\ q' = [q EXCEPT ![x].eos = eos, ![x].ref_count = @ - 1]
               /\ FetchReturns(x, ~eos)
    /\ UNCHANGED <<map, map_lock, session, up, locations, expirations, work, events>>

-------------------------------------------------------------------------------
(* The clients: a session's client, and the thread of the child queries *)

\* The client fetches, or closes its query
ClientCalls(x) ==
    /\ At(x, "idle") /\ ~Rejected
    /\ \/ ~IsParent(x) /\ stack' = Goto(x, "fetch")
       \/ stack' = Calls(x, "end", UnregisterQuery(x, None))
    /\ UNCHANGED <<map, map_lock, q, session, up, locations, expirations, work, events>>

\* The children before c have succeeded
Turn(c) ==
    LET cs == q[ParentOf(c)].child_queries
        k == CHOOSE n \in 1..Len(cs) : cs[n] = c IN
    q[ParentOf(c)].children /\ \A n \in 1..(k - 1) : q[cs[n]].result = "OK"

After(l) == CASE l = "check_new" -> "new" [] l = "check_fetch" -> "fetch" [] OTHER -> "close"

\* CheckParentStatus: the child cancels and closes itself when its parent has a bad status
CheckParentStatus(c) ==
    /\ Top(c).at \in {"check_new", "check_fetch", "check_close"}
    /\ Turn(c) /\ Free(ParentOf(c))
    /\ IF q[ParentOf(c)].status = "OK" THEN stack' = Goto(c, After(Top(c).at)) /\ UNCHANGED q
       ELSE /\ q' = [q EXCEPT ![c] = [@ EXCEPT !.is_running = FALSE, !.result = "BAD"]]
            /\ stack' = Calls(c, "end", IF ~q[c].is_running \/ Rejected THEN <<>>
                                 ELSE CancelInternal(c, None) \o UnregisterQuery(c, None))
    /\ UNCHANGED <<map, map_lock, session, up, locations, expirations, work, events>>

\* CloseOperation, and the end of ExecAndFetch
CloseOperation(c) ==
    /\ At(c, "close")
    /\ \/ Rejected /\ q' = [q EXCEPT ![c].result = "BAD"] /\ stack' = Goto(c, "closed")
       \/ ~Rejected /\ stack' = Calls(c, "closed", UnregisterQuery(c, None)) /\ UNCHANGED q
    /\ UNCHANGED <<map, map_lock, session, up, locations, expirations, work, events>>

ExecAndFetchReturns(c) ==
    /\ At(c, "closed")
    /\ q' = [q EXCEPT ![c].is_running = FALSE, ![c].result = IF @ = None THEN "OK" ELSE @]
    /\ stack' = Goto(c, "end")
    /\ UNCHANGED <<map, map_lock, session, up, locations, expirations, work, events>>

\* Another connection of the user cancels or closes a query of the session
OtherCalls ==
    /\ At(Other, "idle") /\ Event
    /\ ~Rejected
    /\ \E x \in map : \E calls \in {CancelInternal(x, None), UnregisterQuery(x, None)} :
         stack' = Calls(Other, "idle", calls)
    /\ UNCHANGED <<map, map_lock, q, session, up, locations, expirations, work>>

\* CloseSessionInternal: closed, then UnregisterQuery of each query that was in flight
CloseSession ==
    /\ At(Closer, "idle") /\ Event
    /\ session' = [session EXCEPT !.closed = TRUE, !.todo = session.inflight]
    /\ stack' = Goto(Closer, "closing")
    /\ UNCHANGED <<map, map_lock, q, up, locations, expirations, work>>

CancelSessionQueries ==
    /\ At(Closer, "closing")
    /\ IF session.todo = {} THEN stack' = Goto(Closer, "end") /\ UNCHANGED session
       ELSE LET x == CHOOSE y \in session.todo : TRUE IN
            /\ session' = [session EXCEPT !.todo = @ \ {x}]
            /\ stack' = Calls(Closer, "closing", UnregisterQuery(x, "ERROR"))
    /\ UNCHANGED <<map, map_lock, q, up, locations, expirations, work, events>>

\* ref_count of the session: a client's RPC is executing
InRpc(x) ==
    ~(Len(stack[x]) = 1 /\ Top(x).at \in {"new", "idle", "end", "check_new", "check_fetch", "check_close"})

\* ExpireSessions, for an idle session
ExpireSession ==
    /\ Event /\ ~Rejected /\ ~\E x \in Queries : InRpc(x)
    /\ session' = [session EXCEPT !.expired = TRUE]
    /\ work' = work \cup {[x |-> x, unregister |-> TRUE] : x \in session.inflight}
    /\ UNCHANGED <<map, map_lock, q, up, locations, expirations, stack>>

\* ExpireQueries, for an inactive query, once; the event of a query that is gone is dropped,
\* which nobody sees.  Before Exec the time of last
\* activity is the largest integer, to which the timeout is added
ExpireQuery(x) ==
    /\ x \in expirations /\ map_lock = None
    /\ x \in map /\ q[x].ref_count = 0 /\ Event
    /\ expirations' = expirations \ {x}
    /\ work' = work \cup {[x |-> x, unregister |-> FALSE]}
    /\ UNCHANGED <<map, map_lock, q, session, up, locations, stack>>

\* CancelFromThreadPool
CancelFromThreadPool ==
    /\ At(Worker, "idle")
    /\ \E w \in work :
         /\ work' = work \ {w}
         /\ stack' = Calls(Worker, "idle", IF w.unregister THEN UnregisterQuery(w.x, "ERROR")
                                           ELSE CancelInternal(w.x, "ERROR"))
    /\ UNCHANGED <<map, map_lock, q, session, up, locations, expirations, events>>

\* A backend leaves the membership topic
BackendFails(h) ==
    /\ h \in up /\ Event /\ up' = up \ {h}
    /\ UNCHANGED <<map, map_lock, q, session, locations, expirations, work, stack>>

\* as MembershipCallback would be if it gave up whenever the pool had work
MembershipCallbackDrops ==
    /\ \E h \in Hosts \ up : locations[h] # {}
    /\ LET lost == UNION {locations[h] : h \in Hosts \ up} IN
         /\ locations' = [h \in Hosts |-> IF h \in up THEN locations[h] ELSE {}]
         /\ work' = IF work # {} THEN work
                    ELSE work \cup {[x |-> x, unregister |-> FALSE] : x \in lost}
    /\ UNCHANGED <<map, map_lock, q, session, up, expirations, stack, events>>

\* MembershipCallback, with each heartbeat: the queries located at failed backends are
\* forgotten there and, if the queue has room, cancelled
MembershipCallback ==
    /\ \E h \in Hosts \ up : locations[h] # {}
    /\ LET lost == UNION {locations[h] : h \in Hosts \ up} IN
         /\ locations' = [h \in Hosts |-> IF h \in up THEN locations[h] ELSE {}]
         /\ work' = IF Cardinality(work) + Cardinality(lost) > MaxQueue THEN work
                    ELSE work \cup {[x |-> x, unregister |-> FALSE] : x \in lost}
    /\ UNCHANGED <<map, map_lock, q, session, up, expirations, stack, events>>

-------------------------------------------------------------------------------
(* The system *)

Unregistering(i) ==
    Find(i) \/ Lock(i) \/ Cancel(i) \/ Erase(i) \/ Done(i)

Executing(x) ==
    \/ RegisterQuery(x) \/ Plan(x) \/ Exec(x) \/ Launch(x) \/ Locate(x) \/ Started(x)
    \/ ExecuteReturns(x)
    \/ Fetch(x) \/ FetchWait(x) \/ FetchNext(x)

Child(x) ==
    Parents(x) # {} /\ (CheckParentStatus(x) \/ CloseOperation(x) \/ ExecAndFetchReturns(x))

WaitStep(x) ==
    WaitForChildQueries(x) \/ CoordWait(x) \/ UpdateCatalog(x) \/ WaitFinish(x)

Next ==
    \/ \E i \in Procs : Unregistering(i)
    \/ \E x \in Queries : Executing(x) \/ Child(x) \/ WaitStep(x) \/ ClientCalls(x) \/ ExpireQuery(x)
    \/ OtherCalls \/ CloseSession \/ CancelSessionQueries \/ ExpireSession
    \/ CancelFromThreadPool \/ MembershipCallback
    \/ \E h \in Hosts : BackendFails(h)

Spec == Init /\ [][Next]_vars

-------------------------------------------------------------------------------
(* Properties *)

\* A thread in QueryExecState::Cancel of a parent, with its lock_, waits for
\* query_exec_state_map_lock_ to cancel a child, and a thread in GetQueryExecState with the
\* map's lock waits for the parent's lock_
CircularWait ==
    \E i, j \in Procs, x \in Queries :
        /\ q[x].lock = i /\ Top(i).at \in {"find", "erase"}
        /\ map_lock = j /\ At(j, "lock") /\ Top(j).x = x

\* No two threads wait for each other's locks when a query with child queries is cancelled
\* (child-query.cc: "It is important not to hold any locks (in particular the parent
\* query's lock_) while invoking HS2 functions to avoid deadlock."; query-exec-state.h: "the
\* caller must *not* acquire query_exec_state_map_lock_ while holding the exec state's lock")
NoCircularWait == ~CircularWait

\* UnregisterQuery finishes a query once: of the client's Close, a failed fetch, the session's
\* closing, its expiry and a parent's Cancel only one calls Done, which returns the
\* resources reserved for the query
ReleasedOnce ==
    \A x \in Queries : q[x].released <= 1 /\ (q[x].released = 1 => x \notin map)

\* When CloseSessionInternal returns no query of the session is left, and none can be added
\* (RegisterQuery looks at closed under the session's lock before the in-flight set is read).
ClosedSessionEmpty == At(Closer, "end") => map = {} /\ \A x \in Queries : ~At(x, "plan")

\* Once a query has failed or was cancelled it stays so, though Wait, Fetch and Execute
\* release lock_ between looking at the state and setting it
ExceptionIsFinal ==
    [][\A x \in Queries : q[x].state = "EXCEPTION" => q'[x].state = "EXCEPTION"]_vars

\* A running query with fragments at a failed backend is not forgotten: MembershipCallback
\* will still find it at that backend, its cancellation is queued, or the pool's thread is at
\* work on it, although MembershipCallback erases the location before the cancellation is
\* offered and Execute enters it long after the query was registered.
FailedHostsNoticed ==
    \A x \in map : \A h \in Hosts \ up :
        (/\ q[x].fragments = "running" /\ q[x].state # "EXCEPTION" /\ ~q[x].eos
         /\ \A k \in 1..Len(stack[x]) : stack[x][k].at # "locate")
        => \/ x \in locations[h]
           \/ \E w \in work : w.x = x
           \/ \E k \in 1..Len(stack[Worker]) : stack[Worker][k].x = x
================================================================================
