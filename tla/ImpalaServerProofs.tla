-------------------------- MODULE ImpalaServerProofs ---------------------------
(***************************************************************************)
(* Proofs about ImpalaServer: a query that failed stays failed, its          *)
(* resources are returned once, a closed session leaves no query behind and  *)
(* a backend's failure is noticed by the queries that run there, for any     *)
(* number of queries, child queries and backends and any interleaving of the *)
(* threads.                                                                  *)
(***************************************************************************)
EXTENDS ImpalaServer, TLAPS

CallAts == {"find", "lock", "cancel", "erase", "done"}
NewAts == {"new", "check_new"}
BaseAts == {"plan", "exec", "launch", "locate", "started", "failed", "idle", "check_fetch",
            "check_close", "fetch", "fetch_wait", "fetch_next", "close", "closed", "end",
            "closing"}
Causes == {None, "ERROR"}

Frame == [at : CallAts \cup NewAts \cup BaseAts, x : Queries \cup {None}, cause : Causes]

QES == [state : {"CREATED", "RUNNING", "FINISHED", "EXCEPTION"}, status : {"OK", "ERROR"},
        eos : BOOLEAN, lock : Procs \cup {None}, ref_count : Int,
        wait : {"off", "children", "coord", "update", "finish", "failed", "done"},
        coord : {None, "OK", "BAD"}, fragments : {"none", "running", "cancelled"},
        child_queries : Seq(Queries), children : BOOLEAN, is_running : BOOLEAN,
        result : {None, "OK", "BAD"}, released : Nat]

Session == [closed : BOOLEAN, expired : BOOLEAN, inflight : SUBSET Queries,
            todo : SUBSET Queries]

CancellationWork == [x : Queries, unregister : BOOLEAN]

\* A thread's calls are of CancelInternal and UnregisterQuery on top of what it is there for;
\* only the one it executes is about to call Done or has not registered its query yet
StackOK(s) ==
    /\ s \in Seq(Frame) /\ s # <<>>
    /\ s[Len(s)].at \notin CallAts
    /\ \A k \in 1..Len(s) : s[k].at \in CallAts => s[k].x \in Queries
    /\ \A k \in 2..Len(s) : s[k].at \notin NewAts /\ s[k].at # "done"

TypeInv ==
    /\ q \in [Queries -> QES]
    /\ map \subseteq Queries
    /\ session \in Session
    /\ work \subseteq CancellationWork
    /\ locations \in [Hosts -> SUBSET Queries]
    /\ stack \in [Procs -> Seq(Frame)]
    /\ \A i \in Procs : StackOK(stack[i])

Finishing(i, x) == At(i, "done") /\ Top(i).x = x

\* A query in the map has been registered by its thread; one thread finishes it, once, after
\* it has left the map
Inv ==
    /\ TypeInv
    /\ \A x \in map : Top(x).at \notin NewAts
    /\ \A i \in Procs, x \in Queries : Finishing(i, x) =>
         x \notin map /\ Top(x).at \notin NewAts /\ q[x].released = 0
    /\ \A i, j \in Procs, x \in Queries : Finishing(i, x) /\ Finishing(j, x) => i = j
    /\ \A x \in Queries : q[x].released # 0 =>
         x \notin map /\ Top(x).at \notin NewAts /\ q[x].released = 1

-------------------------------------------------------------------------------
(* Stacks of calls *)

\* The calls that a thread may be given: CancelInternal and UnregisterQuery
CallsOK(cs) ==
    /\ cs \in Seq(Frame)
    /\ \A k \in 1..Len(cs) : cs[k].at \in {"find", "erase"} /\ cs[k].x \in Queries

\* One list of calls after another
LEMMA CallsJoin ==
    ASSUME NEW a, NEW b, CallsOK(a), CallsOK(b)
    PROVE  CallsOK(a \o b)
<1> DEFINE u == a \o b
<1>1. a \in Seq(Frame) /\ b \in Seq(Frame) /\ Len(a) \in Nat /\ Len(b) \in Nat
  BY DEF CallsOK
<1>2. /\ u \in Seq(Frame) /\ Len(u) = Len(a) + Len(b)
      /\ \A k \in 1..Len(a) : u[k] = a[k]
      /\ \A k \in (Len(a) + 1)..Len(u) : u[k] = b[k - Len(a)]
  BY <1>1
<1> HIDE DEF u
<1>3. ASSUME NEW k \in 1..Len(u) PROVE u[k].at \in {"find", "erase"} /\ u[k].x \in Queries
  <2>1. CASE k \in 1..Len(a)
    BY <1>2, <2>1, Zenon DEF CallsOK
  <2>2. CASE k \notin 1..Len(a)
    <3>1. k \in (Len(a) + 1)..Len(u) /\ k - Len(a) \in 1..Len(b)
      BY <1>1, <1>2, <2>2
    <3> QED BY <1>2, <3>1, Zenon DEF CallsOK
  <2> QED BY <2>1, <2>2, Zenon
<1> QED BY <1>2, <1>3, Zenon DEF CallsOK, u

\* UnregisterQuery and CancelInternal of a query are such calls
LEMMA CallsAreOK ==
    ASSUME NEW x \in Queries, NEW cause \in Causes
    PROVE  /\ CallsOK(<<>>) /\ CallsOK(CancelInternal(x, cause))
           /\ CallsOK(UnregisterQuery(x, cause))
           /\ CallsOK(CancelInternal(x, cause) \o UnregisterQuery(x, cause))
<1> DEFINE f == Call("find", x, cause)
           e == Call("erase", x, cause)
<1>1. f \in Frame /\ f.at = "find" /\ f.x = x /\ e \in Frame /\ e.at = "erase" /\ e.x = x
  BY Zenon DEF Call, Frame, CallAts
<1>2. CancelInternal(x, cause) = <<f>> /\ UnregisterQuery(x, cause) = <<f>> \o <<e>>
  BY Zenon DEF CancelInternal, UnregisterQuery
<1> HIDE DEF f, e
<1>3. CallsOK(<<>>) /\ CallsOK(<<f>>) /\ CallsOK(<<e>>)
  BY <1>1 DEF CallsOK
<1>4. CallsOK(<<f>> \o <<e>>)
  BY <1>3, CallsJoin, Zenon
<1> QED BY <1>2, <1>3, <1>4, CallsJoin, Zenon

-------------------------------------------------------------------------------
(* Steps that finish and register no query *)

\* What every step does to the QueryExecStates, but for Done
KeepsQueries ==
    /\ q' \in [Queries -> QES]
    /\ \A x \in Queries : /\ q'[x].released = q[x].released
                          /\ q[x].state = "EXCEPTION" => q'[x].state = "EXCEPTION"

MovesTo(i, s) ==
    /\ StackOK(s) /\ stack' = [stack EXCEPT ![i] = s]
    /\ Head(s).at \in NewAts => Top(i).at \in NewAts
    /\ Head(s).at = "done" => Head(s) = Top(i)

Moves == \E i \in Procs : \E s \in Seq(Frame) : MovesTo(i, s)

Rest ==
    /\ map' \subseteq map /\ session' \in Session
    /\ work' \subseteq CancellationWork
    /\ locations' \in [Hosts -> SUBSET Queries]

\* The frame a thread is in
LEMMA TopOK ==
    ASSUME TypeInv, NEW i \in Procs
    PROVE  /\ StackOK(stack[i]) /\ Top(i) = Head(stack[i]) /\ Top(i) \in Frame
           /\ Top(i).at \in CallAts => Top(i).x \in Queries
<1>1. StackOK(stack[i])
  BY Zenon DEF TypeInv
<1>2. stack[i] \in Seq(Frame) /\ stack[i] # <<>> /\ 1 \in 1..Len(stack[i])
      /\ Head(stack[i]) = stack[i][1]
  BY <1>1 DEF StackOK
<1> QED BY <1>1, <1>2 DEF StackOK, Top

-------------------------------------------------------------------------------
(* The steps of Execute, Wait and Fetch, and the calls of other threads *)

Quiet == KeepsQueries /\ Moves /\ Rest

\* r may take the place of the QueryExecState r0
Follows(r, r0) ==
    /\ r \in QES /\ r.released = r0.released
    /\ r0.state = "EXCEPTION" => r.state = "EXCEPTION"

\* UpdateQueryStatus, Coordinator::Cancel and QueryExecState::Cancel never undo a failure
LEMMA RecordSteps ==
    ASSUME NEW r \in QES, NEW cause \in Causes
    PROVE  Follows(Failed(r), r) /\ Follows(CoordCancelled(r), r) /\ Follows(Cancelled(r, cause), r)
<1>1. ASSUME NEW r1 \in QES PROVE Follows(Failed(r1), r1)
  <2>1. CASE r1.status = "OK"
    <3> DEFINE f == [r1 EXCEPT !.status = "ERROR", !.state = "EXCEPTION"]
    <3>1. f \in QES /\ f.released = r1.released /\ f.state = "EXCEPTION"
      BY Zenon DEF QES
    <3> QED BY <2>1, <3>1, Zenon DEF Failed, Follows
  <2>2. CASE r1.status # "OK"
    BY <2>2, Zenon DEF Failed, Follows
  <2> QED BY <2>1, <2>2, Zenon
<1>2. ASSUME NEW r1 \in QES PROVE Follows(CoordCancelled(r1), r1)
  <2>1. CASE r1.coord = "OK"
    <3> DEFINE fr == IF r1.fragments = "running" THEN "cancelled" ELSE r1.fragments
               f == [r1 EXCEPT !.coord = "BAD", !.fragments = fr]
    <3>1. fr \in {"none", "running", "cancelled"}
      BY Zenon DEF QES
    <3> HIDE DEF fr
    <3>2. f \in QES
      BY <3>1, ZenonT(60) DEF QES
    <3>3. f.released = r1.released /\ f.state = r1.state
      BY Zenon DEF QES
    <3>4. CoordCancelled(r1) = f
      BY <2>1, Zenon DEF CoordCancelled, fr
    <3> QED BY <3>2, <3>3, <3>4, Zenon DEF Follows
  <2>2. CASE r1.coord # "OK"
    BY <2>2, Zenon DEF CoordCancelled, Follows
  <2> QED BY <2>1, <2>2, Zenon
<1>3. Follows(Cancelled(r, cause), r)
  <2> DEFINE a == IF cause = None THEN r ELSE Failed(r)
             b == [a EXCEPT !.state = "EXCEPTION"]
             c == IF r.eos \/ r.state = "EXCEPTION" THEN r ELSE CoordCancelled(b)
             d == [c EXCEPT !.lock = None]
  <2>1. Follows(a, r)
    BY <1>1, Zenon DEF Follows
  <2> HIDE DEF a
  <2>2. Follows(b, r)
    BY <2>1, ZenonT(60) DEF Follows, QES
  <2> HIDE DEF b
  <2>3. Follows(CoordCancelled(b), r)
    <3>1. Follows(CoordCancelled(b), b)
      BY <1>2, <2>2, Zenon DEF Follows
    <3> QED BY <2>2, <3>1, Zenon DEF Follows
  <2>4. Follows(c, r)
    BY <2>3, Zenon DEF Follows
  <2> HIDE DEF c
  <2>5. Follows(d, r)
    BY <2>4, Zenon DEF Follows, QES
  <2> QED BY <2>5, Zenon DEF Cancelled, a, b, c, d
<1> QED BY <1>1, <1>2, <1>3, Zenon

-------------------------------------------------------------------------------
(* Registering and finishing a query *)

-------------------------------------------------------------------------------
(* The theorems *)

\* No query has come: every client's thread is about to register its own
LEMMA InitInv == Init => Inv
<1> SUFFICES ASSUME Init PROVE Inv
  BY Zenon
<1>1. PICK plan \in Plans : q = [x \in Queries |-> NewQuery(plan[x])]
  BY Zenon DEF Init
<1>2. plan \in [Queries -> Seq(Queries \ Statements)]
  BY ServerAssumption, Zenon
<1>3. ASSUME NEW x \in Queries PROVE q[x] \in QES /\ q[x].released = 0
  <2>1. plan[x] \in Seq(Queries)
    BY <1>2
  <2> QED BY <1>1, <2>1 DEF NewQuery, QES
<1>4. ASSUME NEW i \in Procs
      PROVE  stack[i] \in Seq(Frame) /\ StackOK(stack[i]) /\ Top(i).at # "done"
  <2>1. PICK f \in Frame : stack[i] = <<f>> /\ f.at \in NewAts \cup {"idle"}
    <3>1. CASE i \in Queries
      <4>1. PICK l \in NewAts : stack[i] = <<Call(l, i, None)>>
        BY <3>1, Zenon DEF Init, NewAts
      <4>2. Call(l, i, None) \in Frame /\ Call(l, i, None).at = l
        BY <3>1, Zenon DEF Call, Frame, Causes
      <4> QED BY <4>1, <4>2, Zenon
    <3>2. CASE i \notin Queries
      <4>1. stack[i] = <<Call("idle", None, None)>>
        BY <3>2, Zenon DEF Init
      <4>2. Call("idle", None, None) \in Frame /\ Call("idle", None, None).at = "idle"
        BY Zenon DEF Call, Frame, Causes, BaseAts
      <4> QED BY <4>1, <4>2, Zenon
    <3> QED BY <3>1, <3>2, Zenon
  <2>2. f.at \notin CallAts /\ f.at # "done"
    BY <2>1, Zenon DEF CallAts, NewAts
  <2>3. stack[i] \in Seq(Frame) /\ stack[i] # <<>> /\ Len(stack[i]) = 1 /\ stack[i][1] = f
        /\ Top(i) = f
    BY <2>1 DEF Top
  <2> QED BY <2>2, <2>3 DEF StackOK
<1>5. stack \in [Procs -> Seq(Frame)]
  <2>1. stack = [i \in Procs |-> stack[i]]
    BY Zenon DEF Init
  <2> QED BY <1>4, <2>1, Zenon
<1>6. q \in [Queries -> QES]
  BY <1>1, <1>3, Zenon
<1>7. session \in Session /\ map = {} /\ work = {} /\ locations \in [Hosts -> SUBSET Queries]
  BY Zenon DEF Init, Session
<1>8. TypeInv
  BY <1>4, <1>5, <1>6, <1>7, Zenon DEF TypeInv
<1> QED BY <1>3, <1>4, <1>7, <1>8, Zenon DEF Inv, Finishing, At

\* Every step of every thread keeps the invariant, and no query leaves EXCEPTION
LEMMA NextInv ==
    Inv /\ [Next]_vars =>
        /\ Inv'
        /\ \A x \in Queries : q[x].state = "EXCEPTION" => q'[x].state = "EXCEPTION"
\* The call that a thread executes moves on
<1>Replaced.
  ASSUME NEW s, StackOK(s), NEW f \in Frame,
         f.at \in CallAts => f.x \in Queries /\ Head(s).at \in CallAts
  PROVE  StackOK(<<f>> \o Tail(s)) /\ Head(<<f>> \o Tail(s)) = f
  <2> USE <1>Replaced
  <2> DEFINE u == <<f>> \o Tail(s)
  <2>1. s \in Seq(Frame) /\ s # <<>> /\ Len(s) \in Nat /\ Len(s) >= 1 /\ Head(s) = s[1]
    BY DEF StackOK
  <2>2. Tail(s) \in Seq(Frame) /\ Len(Tail(s)) = Len(s) - 1
        /\ \A k \in 1..(Len(s) - 1) : Tail(s)[k] = s[k + 1]
    BY <2>1
  <2>3. u \in Seq(Frame) /\ Len(u) = Len(s) /\ u[1] = f
    BY <2>1, <2>2
  <2>4. ASSUME NEW k \in 2..Len(s) PROVE u[k] = s[k]
    <3>1. k - 1 \in 1..(Len(s) - 1) /\ u[k] = Tail(s)[k - 1]
      BY <2>1, <2>2
    <3> QED BY <2>2, <3>1
  <2> HIDE DEF u
  <2>5. u # <<>> /\ Head(u) = f
    BY <2>1, <2>3
  <2>6. u[Len(u)].at \notin CallAts
    <3>1. CASE Len(s) = 1
      BY <2>1, <2>3, <3>1, Zenon DEF StackOK
    <3>2. CASE Len(s) # 1
      <4>1. \A n \in Nat : n >= 1 /\ n # 1 => n \in 2..n
        OBVIOUS
      <4>2. Len(s) \in 2..Len(s)
        BY <2>1, <3>2, <4>1, Zenon
      <4> QED BY <2>3, <2>4, <4>2, Zenon DEF StackOK
    <3> QED BY <3>1, <3>2, Zenon
  <2>7. \A k \in 1..Len(u) : u[k].at \in CallAts => u[k].x \in Queries
    <3> SUFFICES ASSUME NEW k \in 1..Len(u), u[k].at \in CallAts PROVE u[k].x \in Queries
      BY Zenon
    <3>1. CASE k = 1
      BY <2>3, <3>1, Zenon
    <3>2. CASE k # 1
      BY <2>1, <2>3, <2>4, <3>2 DEF StackOK
    <3> QED BY <3>1, <3>2, Zenon
  <2>8. \A k \in 2..Len(u) : u[k].at \notin NewAts /\ u[k].at # "done"
    BY <2>3, <2>4, Zenon DEF StackOK
  <2> QED BY <2>3, <2>5, <2>6, <2>7, <2>8, Zenon DEF StackOK, u
\* A call returns to one that neither finishes nor registers a query
<1>Dropped.
  ASSUME NEW s, StackOK(s), Head(s).at \in CallAts
  PROVE  /\ StackOK(Tail(s))
         /\ Head(Tail(s)).at \notin NewAts /\ Head(Tail(s)).at # "done"
  <2> USE <1>Dropped
  <2>1. s \in Seq(Frame) /\ s # <<>> /\ Len(s) \in Nat /\ Len(s) >= 1 /\ Head(s) = s[1]
    BY DEF StackOK
  <2>2. Len(s) >= 2
    BY <2>1 DEF StackOK
  <2> DEFINE u == Tail(s)
  <2>3. u \in Seq(Frame) /\ Len(u) = Len(s) - 1 /\ \A k \in 1..Len(u) : u[k] = s[k + 1]
    BY <2>1
  <2> HIDE DEF u
  <2>4. u # <<>> /\ Head(u) = s[2] /\ u[Len(u)] = s[Len(s)]
    BY <2>1, <2>2, <2>3
  <2>5. \A k \in 1..Len(u) : k + 1 \in 1..Len(s) /\ k + 1 \in 2..Len(s)
    BY <2>1, <2>3
  <2>6. \A k \in 1..Len(u) : u[k].at \in CallAts => u[k].x \in Queries
    BY <2>3, <2>5, Zenon DEF StackOK
  <2>7. \A k \in 1..Len(u) : u[k].at \notin NewAts /\ u[k].at # "done"
    BY <2>3, <2>5, Zenon DEF StackOK
  <2>8. StackOK(u)
    BY <2>1, <2>3, <2>4, <2>6, <2>7 DEF StackOK
  <2>9. 1 \in 1..Len(u) /\ u[1] = Head(u)
    BY <2>1, <2>2, <2>3, <2>4
  <2> QED BY <2>7, <2>8, <2>9, Zenon DEF u
\* The thread makes calls before it goes on
<1>Called.
  ASSUME NEW s, StackOK(s), NEW cs, CallsOK(cs), NEW g \in Frame,
         g.at \notin NewAts, g.at # "done",
         g.at \in CallAts => g.x \in Queries /\ Head(s).at \in CallAts
  PROVE  LET u == cs \o <<g>> \o Tail(s) IN
         StackOK(u) /\ Head(u).at \notin NewAts /\ Head(u).at # "done"
  <2> USE <1>Called
  <2> DEFINE v == <<g>> \o Tail(s)
             u == cs \o v
             n == Len(cs)
  <2>1. StackOK(v) /\ Head(v) = g
    BY <1>Replaced, Zenon
  <2>2. s \in Seq(Frame) /\ s # <<>> /\ Tail(s) \in Seq(Frame) /\ cs \in Seq(Frame) /\ n \in Nat
    BY DEF StackOK, CallsOK
  <2>3. cs \o <<g>> \o Tail(s) = u
    BY <2>2
  <2> HIDE DEF v
  <2>4. v \in Seq(Frame) /\ v # <<>> /\ Len(v) \in Nat /\ Len(v) >= 1 /\ v[1] = g
    BY <2>1 DEF StackOK
  <2>5. /\ u \in Seq(Frame) /\ Len(u) = n + Len(v)
        /\ \A k \in 1..n : u[k] = cs[k]
        /\ \A k \in (n + 1)..Len(u) : u[k] = v[k - n]
    BY <2>2, <2>4
  <2> HIDE DEF u
  <2>6. u # <<>> /\ Head(u) = u[1] /\ u[Len(u)] = v[Len(v)]
    BY <2>2, <2>4, <2>5
  <2>7. \A k \in 1..n : cs[k].at \in {"find", "erase"} /\ cs[k].x \in Queries
    BY Zenon DEF CallsOK
  <2>8. \A k \in 1..Len(v) : v[k].at \notin NewAts /\ v[k].at # "done"
    <3> TAKE k \in 1..Len(v)
    <3>1. k = 1 \/ k \in 2..Len(v)
      BY <2>4
    <3> QED BY <2>1, <2>4, <3>1, Zenon DEF StackOK
  <2>9. \A k \in 1..Len(u) :
          /\ u[k].at \in CallAts => u[k].x \in Queries
          /\ u[k].at \notin NewAts /\ u[k].at # "done"
    <3> TAKE k \in 1..Len(u)
    <3>1. CASE k \in 1..n
      BY <2>5, <2>7, <3>1, Zenon DEF NewAts
    <3>2. CASE k \in (n + 1)..Len(u)
      <4>1. k - n \in 1..Len(v) /\ u[k] = v[k - n]
        BY <2>2, <2>4, <2>5, <3>2
      <4> QED BY <2>1, <2>8, <4>1, Zenon DEF StackOK
    <3> QED BY <2>2, <2>4, <2>5, <3>1, <3>2
  <2>10. 1 \in 1..Len(u) /\ \A k \in 2..Len(u) : k \in 1..Len(u)
    BY <2>2, <2>4, <2>5
  <2>11. StackOK(u)
    BY <2>1, <2>5, <2>6, <2>9, <2>10, Zenon DEF StackOK
  <2> QED BY <2>3, <2>6, <2>9, <2>10, <2>11, Zenon
\* An assignment to fields of one QueryExecState
<1>OneQuery.
  ASSUME TypeInv, NEW y \in Queries, NEW r \in QES, q' = [q EXCEPT ![y] = r],
         r.released = q[y].released, q[y].state = "EXCEPTION" => r.state = "EXCEPTION"
  PROVE  KeepsQueries
  <2> USE <1>OneQuery
  <2>1. q' \in [Queries -> QES]
    BY Zenon DEF TypeInv
  <2>2. \A x \in Queries : q'[x] = IF x = y THEN r ELSE q[x]
    BY Zenon DEF TypeInv
  <2> QED BY <2>1, <2>2, Zenon DEF KeepsQueries
\* A step that leaves the QueryExecStates alone
<1>NoQuery.
  ASSUME TypeInv, q' = q
  PROVE  KeepsQueries
  BY <1>NoQuery, Zenon DEF TypeInv, KeepsQueries
\* A thread goes on in its call
<1>GotoMoves.
  ASSUME TypeInv, NEW i \in Procs, NEW l \in CallAts \cup NewAts \cup BaseAts, l # "done",
         l \in CallAts => Top(i).at \in CallAts, l \in NewAts => Top(i).at \in NewAts,
         stack' = Goto(i, l)
  PROVE  Moves
  <2> USE <1>GotoMoves
  <2> DEFINE f == [Top(i) EXCEPT !.at = l]
             s == <<f>> \o Tail(stack[i])
  <2>1. stack' = [stack EXCEPT ![i] = s]
    BY Zenon DEF Goto
  <2>2. f \in Frame /\ f.at = l /\ f.x = Top(i).x
    BY TopOK, Zenon DEF Frame
  <2> HIDE DEF f
  <2>3. StackOK(s) /\ Head(s) = f
    BY <2>2, TopOK, <1>Replaced, Zenon
  <2> HIDE DEF s
  <2>4. s \in Seq(Frame)
    BY <2>3, Zenon DEF StackOK
  <2>5. MovesTo(i, s)
    BY <2>1, <2>2, <2>3, Zenon DEF MovesTo
  <2> QED BY <2>4, <2>5, Zenon DEF Moves
\* A thread makes calls and then goes on
<1>CallsMoves.
  ASSUME TypeInv, NEW i \in Procs, NEW l \in CallAts \cup BaseAts, l # "done",
         l \in CallAts => Top(i).at \in CallAts, NEW cs, CallsOK(cs),
         stack' = Calls(i, l, cs)
  PROVE  Moves
  <2> USE <1>CallsMoves
  <2> DEFINE f == [Top(i) EXCEPT !.at = l]
             s == cs \o <<f>> \o Tail(stack[i])
  <2>1. stack' = [stack EXCEPT ![i] = s]
    BY Zenon DEF Calls
  <2>2. f \in Frame /\ f.at = l /\ f.x = Top(i).x
    BY TopOK, Zenon DEF Frame
  <2>3. l \notin NewAts
    BY Zenon DEF CallAts, BaseAts, NewAts
  <2> HIDE DEF f
  <2>4. StackOK(s) /\ Head(s).at \notin NewAts /\ Head(s).at # "done"
    BY <2>2, <2>3, TopOK, <1>Called, Zenon
  <2> HIDE DEF s
  <2>5. s \in Seq(Frame)
    BY <2>4, Zenon DEF StackOK
  <2>6. MovesTo(i, s)
    BY <2>1, <2>4, Zenon DEF MovesTo
  <2> QED BY <2>5, <2>6, Zenon DEF Moves
\* A call of CancelInternal or UnregisterQuery returns
<1>ReturnMoves.
  ASSUME TypeInv, NEW i \in Procs, Top(i).at \in CallAts, stack' = Return(i)
  PROVE  Moves
  <2> USE <1>ReturnMoves
  <2> DEFINE s == Tail(stack[i])
  <2>1. stack' = [stack EXCEPT ![i] = s]
    BY Zenon DEF Return
  <2>2. StackOK(s) /\ Head(s).at \notin NewAts /\ Head(s).at # "done"
    BY TopOK, <1>Dropped, Zenon
  <2> HIDE DEF s
  <2>3. s \in Seq(Frame)
    BY <2>2, Zenon DEF StackOK
  <2>4. MovesTo(i, s)
    BY <2>1, <2>2, Zenon DEF MovesTo
  <2> QED BY <2>3, <2>4, Zenon DEF Moves
\* A step of the threads that the model keeps no stack for
<1>StayMoves.
  ASSUME TypeInv, stack' = stack
  PROVE  Moves
  <2> USE <1>StayMoves
  <2>1. Worker \in Procs
    BY Zenon DEF Procs
  <2>2. stack' = [stack EXCEPT ![Worker] = stack[Worker]] /\ stack[Worker] \in Seq(Frame)
    BY <2>1, Zenon DEF TypeInv
  <2>3. MovesTo(Worker, stack[Worker])
    BY <2>1, <2>2, TopOK, Zenon DEF MovesTo
  <2> QED BY <2>1, <2>2, <2>3, Zenon DEF Moves
\* Where each thread is after such a step
<1>TopsAfter.
  ASSUME TypeInv, NEW i \in Procs, NEW s \in Seq(Frame), StackOK(s),
         stack' = [stack EXCEPT ![i] = s]
  PROVE  /\ stack' \in [Procs -> Seq(Frame)]
         /\ \A j \in Procs : StackOK(stack'[j])
         /\ \A j \in Procs : Top(j)' = IF j = i THEN Head(s) ELSE Top(j)
  <2> USE <1>TopsAfter
  <2>1. \A j \in Procs : stack'[j] = IF j = i THEN s ELSE stack[j]
    BY Zenon DEF TypeInv
  <2>2. stack' \in [Procs -> Seq(Frame)]
    BY Zenon DEF TypeInv
  <2> QED BY <2>1, <2>2, Zenon DEF TypeInv, Top
\* Such a step keeps the invariant
<1>QuietStep.
  ASSUME Inv, KeepsQueries, Moves, Rest
  PROVE  Inv'
  <2> USE <1>QuietStep
  <2>1. PICK i \in Procs : \E s \in Seq(Frame) : MovesTo(i, s)
    BY Zenon DEF Moves
  <2>2. PICK s \in Seq(Frame) : MovesTo(i, s)
    BY <2>1, Zenon
  <2>3. StackOK(s) /\ stack' = [stack EXCEPT ![i] = s]
    BY <2>2, Zenon DEF MovesTo
  <2>4. /\ stack' \in [Procs -> Seq(Frame)]
        /\ \A j \in Procs : StackOK(stack'[j])
        /\ \A j \in Procs : Top(j)' = IF j = i THEN Head(s) ELSE Top(j)
    BY <2>3, <1>TopsAfter, Zenon DEF Inv
  <2>5. TypeInv'
    BY <2>4, Zenon DEF Inv, TypeInv, KeepsQueries, Rest
  <2>6. \A j \in Procs : Top(j)'.at \in NewAts => Top(j).at \in NewAts
    BY <2>2, <2>4, Zenon DEF MovesTo
  <2>7. \A j \in Procs : Top(j)'.at = "done" => Top(j)' = Top(j)
    BY <2>2, <2>4, Zenon DEF MovesTo
  <2>8. \A j \in Procs, x \in Queries : Finishing(j, x)' => Finishing(j, x)
    BY <2>7, Zenon DEF Finishing, At
  <2>9. Queries \subseteq Procs /\ map' \subseteq map /\ map \subseteq Queries
    BY Zenon DEF Procs, Rest, Inv, TypeInv
  <2>10. \A x \in Queries : q'[x].released = q[x].released
    BY Zenon DEF KeepsQueries
  <2>11. \A x \in map' : Top(x)'.at \notin NewAts
    BY <2>6, <2>9, Zenon DEF Inv
  <2>12. \A j \in Procs, x \in Queries : Finishing(j, x)' =>
           x \notin map' /\ Top(x)'.at \notin NewAts /\ q'[x].released = 0
    BY <2>6, <2>8, <2>9, <2>10 DEF Inv
  <2>13. \A j, k \in Procs, x \in Queries : Finishing(j, x)' /\ Finishing(k, x)' => j = k
    BY <2>8, Zenon DEF Inv
  <2>14. \A x \in Queries : q'[x].released # 0 =>
           x \notin map' /\ Top(x)'.at \notin NewAts /\ q'[x].released = 1
    BY <2>6, <2>9, <2>10, Zenon DEF Inv
  <2> QED BY <2>5, <2>11, <2>12, <2>13, <2>14, Zenon DEF Inv
\* A step that leaves the map, the session, the pool's queue and the locations alone
<1>RestSame.
  ASSUME TypeInv, UNCHANGED <<map, session, work, locations>>
  PROVE  Rest
  BY <1>RestSame, Zenon DEF TypeInv, Rest
\* Schedule, Execute's steps and their failures
<1>ExecuteSteps.
  ASSUME Inv, NEW x \in Queries,
         Plan(x) \/ Exec(x) \/ Launch(x) \/ Locate(x) \/ Started(x) \/ ExecuteReturns(x)
  PROVE  Quiet
  <2> USE <1>ExecuteSteps
  <2>1. TypeInv /\ x \in Procs /\ q[x] \in QES /\ "ERROR" \in Causes
    BY Zenon DEF Inv, TypeInv, Procs, Causes
  <2>2. Rest
    <3>1. CASE Locate(x)
      <4>1. locations' \in [Hosts -> SUBSET Queries] /\ UNCHANGED <<map, session, work>>
        BY <2>1, <3>1, Zenon DEF Locate, TypeInv
      <4> QED BY <2>1, <4>1, Zenon DEF Rest, TypeInv
    <3>2. CASE ~Locate(x)
      <4>1. UNCHANGED <<map, session, work, locations>>
        BY <3>2, Zenon DEF Plan, Exec, Launch, Started, ExecuteReturns
      <4> QED BY <2>1, <4>1, <1>RestSame, Zenon
    <3> QED BY <3>1, <3>2, Zenon
  <2>3. ASSUME NEW r \in QES, ExecuteFails(x, r), Follows(r, q[x]) PROVE KeepsQueries /\ Moves
    <3>1. q' = [q EXCEPT ![x] = Failed(r)] /\ stack' = Calls(x, "failed", UnregisterQuery(x, "ERROR"))
      BY <2>3, Zenon DEF ExecuteFails
    <3>2. Follows(Failed(r), r)
      BY <2>1, RecordSteps, Zenon
    <3>3. KeepsQueries
      BY <2>1, <2>3, <3>1, <3>2, <1>OneQuery, Zenon DEF Follows
    <3>4. CallsOK(UnregisterQuery(x, "ERROR"))
      BY <2>1, CallsAreOK, Zenon
    <3>5. Moves
      BY <2>1, <3>1, <3>4, <1>CallsMoves, Zenon DEF BaseAts, CallAts
    <3> QED BY <3>3, <3>5, Zenon
  <2>4. CASE Plan(x)
    <3> DEFINE r == [q[x] EXCEPT !.lock = None]
    <3>1. Follows(r, q[x])
      BY <2>1, Zenon DEF QES, Follows
    <3>2. CASE ExecuteFails(x, r)
      BY <2>2, <2>3, <3>1, <3>2, Zenon DEF Follows, Quiet
    <3>3. CASE q' = [q EXCEPT ![x].lock = None] /\ stack' = Goto(x, "exec")
      <4>1. q' = [q EXCEPT ![x] = r]
        BY <3>3, Zenon
      <4> HIDE DEF r
      <4>2. KeepsQueries
        BY <2>1, <3>1, <4>1, <1>OneQuery, Zenon DEF Follows
      <4>3. Moves
        BY <2>1, <3>3, <1>GotoMoves, Zenon DEF BaseAts, CallAts, NewAts
      <4> QED BY <2>2, <4>2, <4>3, Zenon DEF Quiet
    <3> QED BY <2>4, <3>2, <3>3, Zenon DEF Plan
  <2>5. CASE Exec(x)
    <3> DEFINE r == IF IsParent(x) THEN [q[x] EXCEPT !.ref_count = @ + 1, !.children = TRUE]
                    ELSE [q[x] EXCEPT !.ref_count = @ + 1, !.coord = "OK"]
    <3>1. q[x].ref_count + 1 \in Int
      BY <2>1 DEF QES
    <3>2. Follows(r, q[x])
      BY <2>1, <3>1, Zenon DEF QES, Follows
    <3>3. q' = [q EXCEPT ![x] = r]
      BY <2>5, Zenon DEF Exec
    <3> HIDE DEF r
    <3>4. KeepsQueries
      BY <2>1, <3>2, <3>3, <1>OneQuery, Zenon DEF Follows
    <3>5. PICK l \in {"started", "launch"} : stack' = Goto(x, l)
      BY <2>5, Zenon DEF Exec
    <3>6. Moves
      BY <2>1, <3>5, <1>GotoMoves, Zenon DEF BaseAts, CallAts, NewAts
    <3> QED BY <2>2, <3>4, <3>6, Zenon DEF Quiet
  <2>6. CASE Launch(x)
    <3>1. CASE \E r \in {q[x], CoordCancelled(q[x])} : ExecuteFails(x, r)
      <4>1. PICK r \in {q[x], CoordCancelled(q[x])} : ExecuteFails(x, r)
        BY <3>1, Zenon
      <4>2. Follows(r, q[x])
        BY <2>1, <4>1, RecordSteps, Zenon DEF Follows
      <4> QED BY <2>2, <2>3, <4>1, <4>2, Zenon DEF Follows, Quiet
    <3>2. CASE q' = [q EXCEPT ![x].fragments = "running"] /\ stack' = Goto(x, "locate")
      <4> DEFINE r == [q[x] EXCEPT !.fragments = "running"]
      <4>1. Follows(r, q[x])
        BY <2>1 DEF QES, Follows
      <4>2. q' = [q EXCEPT ![x] = r]
        BY <3>2, Zenon
      <4> HIDE DEF r
      <4>3. KeepsQueries
        BY <2>1, <4>1, <4>2, <1>OneQuery, Zenon DEF Follows
      <4>4. Moves
        BY <2>1, <3>2, <1>GotoMoves, Zenon DEF BaseAts, CallAts, NewAts
      <4> QED BY <2>2, <4>3, <4>4, Zenon DEF Quiet
    <3> QED BY <2>6, <3>1, <3>2, Zenon DEF Launch
  <2>7. CASE Locate(x)
    <3>1. q' = q /\ stack' = Goto(x, "started")
      BY <2>7, Zenon DEF Locate
    <3>2. Moves
      BY <2>1, <3>1, <1>GotoMoves, Zenon DEF BaseAts, CallAts, NewAts
    <3> QED BY <2>1, <2>2, <3>1, <3>2, <1>NoQuery, Zenon DEF Quiet
  <2>8. CASE Started(x)
    <3> DEFINE r == [q[x] EXCEPT !.state = IF @ = "CREATED" THEN "RUNNING" ELSE @,
                                 !.wait = IF IsParent(x) THEN "children" ELSE "coord",
                                 !.is_running = IsChild(x)]
    <3>1. IsChild(x) \in BOOLEAN
      BY Zenon DEF IsChild
    <3>2. Follows(r, q[x])
      BY <2>1, <3>1, ZenonT(60) DEF QES, Follows
    <3>3. q' = [q EXCEPT ![x] = r]
      BY <2>8, Zenon DEF Started
    <3> HIDE DEF r
    <3>4. KeepsQueries
      BY <2>1, <3>2, <3>3, <1>OneQuery, Zenon DEF Follows
    <3>5. PICK l \in {"check_fetch", "idle"} : stack' = Goto(x, l)
      BY <2>8, Zenon DEF Started
    <3>6. Moves
      BY <2>1, <3>5, <1>GotoMoves, Zenon DEF BaseAts, CallAts, NewAts
    <3> QED BY <2>2, <3>4, <3>6, Zenon DEF Quiet
  <2>9. CASE ExecuteReturns(x)
    <3> DEFINE r == [q[x] EXCEPT !.is_running = IsChild(x), !.result = "BAD"]
    <3>1. IsChild(x) \in BOOLEAN
      BY DEF IsChild
    <3>2. Follows(r, q[x])
      BY <2>1, <3>1, Zenon DEF QES, Follows
    <3>3. q' = [q EXCEPT ![x] = r] /\ stack' = Goto(x, "end")
      BY <2>9, Zenon DEF ExecuteReturns
    <3> HIDE DEF r
    <3>4. KeepsQueries
      BY <2>1, <3>2, <3>3, <1>OneQuery, Zenon DEF Follows
    <3>5. Moves
      BY <2>1, <3>3, <1>GotoMoves, Zenon DEF BaseAts, CallAts, NewAts
    <3> QED BY <2>2, <3>4, <3>5 DEF Quiet
  <2> QED BY <2>4, <2>5, <2>6, <2>7, <2>8, <2>9, Zenon
\* The thread that waits for the coordinator or the child queries
<1>WaitSteps.
  ASSUME Inv, NEW x \in Queries, WaitStep(x)
  PROVE  Quiet
  <2> USE <1>WaitSteps
  <2>1. TypeInv /\ q[x] \in QES
    BY Zenon DEF Inv, TypeInv
  <2>2. UNCHANGED <<map, session, work, locations, stack>>
    BY Zenon DEF WaitStep, WaitForChildQueries, CoordWait, UpdateCatalog, WaitFinish
  <2>3. Rest /\ Moves
    BY <2>1, <2>2, <1>RestSame, <1>StayMoves, Zenon
  <2>4. ASSUME NEW r, Follows(r, q[x]), q' = [q EXCEPT ![x] = r] PROVE Quiet
    BY <2>1, <2>3, <2>4, <1>OneQuery, Zenon DEF Follows, Quiet
  <2>5. CASE WaitFails(x)
    <3> DEFINE f == Failed(q[x])
               r == [f EXCEPT !.wait = "failed"]
    <3>1. q' = [q EXCEPT ![x] = r]
      BY <2>5, Zenon DEF WaitFails
    <3>2. Follows(f, q[x])
      BY <2>1, RecordSteps, Zenon DEF Causes
    <3> HIDE DEF f
    <3>3. Follows(r, q[x])
      BY <3>2, Zenon DEF Follows, QES
    <3> HIDE DEF r
    <3> QED BY <2>4, <3>1, <3>3, Zenon
  <2>6. CASE q' = [q EXCEPT ![x].wait = "update"]
    <3> DEFINE r == [q[x] EXCEPT !.wait = "update"]
    <3>1. q' = [q EXCEPT ![x] = r]
      BY <2>6, Zenon
    <3>2. Follows(r, q[x])
      BY <2>1, Zenon DEF Follows, QES
    <3> HIDE DEF r
    <3> QED BY <2>4, <3>1, <3>2, Zenon
  <2>7. CASE WaitReady(x)
    <3> DEFINE e == q[x].eos \/ x \in Dml
               n == q[x].ref_count - 1
               r == [q[x] EXCEPT !.eos = e, !.ref_count = n, !.wait = "finish"]
    <3>1. q' = [q EXCEPT ![x] = r]
      BY <2>1, <2>7, Zenon DEF WaitReady, TypeInv
    <3>2. e \in BOOLEAN /\ n \in Int
      BY <2>1 DEF QES
    <3> HIDE DEF e, n
    <3>3. Follows(r, q[x])
      BY <2>1, <3>2, Zenon DEF Follows, QES
    <3> HIDE DEF r
    <3> QED BY <2>4, <3>1, <3>3, Zenon
  <2>8. CASE WaitFinish(x)
    <3> DEFINE st == IF q[x].state = "EXCEPTION" THEN q[x].state ELSE "FINISHED"
               r == [q[x] EXCEPT !.state = st, !.wait = "done"]
    <3>1. q' = [q EXCEPT ![x] = r]
      BY <2>1, <2>8, Zenon DEF WaitFinish, TypeInv
    <3>2. st \in {"EXCEPTION", "FINISHED"} /\ (q[x].state = "EXCEPTION" => st = "EXCEPTION")
      BY Zenon
    <3> HIDE DEF st
    <3>3. Follows(r, q[x])
      BY <2>1, <3>2, Zenon DEF Follows, QES
    <3> HIDE DEF r
    <3> QED BY <2>4, <3>1, <3>3, Zenon
  <2> QED BY <2>5, <2>6, <2>7, <2>8
         , Zenon DEF WaitStep, WaitForChildQueries, CoordWait, UpdateCatalog
\* Fetch, around its calls of Coordinator::Wait and GetNext
<1>FetchSteps.
  ASSUME Inv, NEW x \in Queries, Fetch(x) \/ FetchWait(x) \/ FetchNext(x)
  PROVE  Quiet
  <2> USE <1>FetchSteps
  <2>1. TypeInv /\ x \in Procs /\ q[x] \in QES /\ None \in Causes
    BY Zenon DEF Inv, TypeInv, Procs, Causes
  <2>2. Rest
    BY <2>1, <1>RestSame, Zenon DEF Fetch, FetchWait, FetchNext
  <2>3. ASSUME FetchFails(x) PROVE Moves
    <3>1. PICK l \in {"check_close", "end"} : stack' = Calls(x, l, UnregisterQuery(x, None))
      BY <2>3, Zenon DEF FetchFails
    <3>2. CallsOK(UnregisterQuery(x, None))
      BY <2>1, CallsAreOK, Zenon
    <3> QED BY <2>1, <3>1, <3>2, <1>CallsMoves, Zenon DEF BaseAts, CallAts
  <2>4. ASSUME NEW l \in {"idle", "check_fetch", "check_close", "fetch_wait", "fetch_next"},
               stack' = Goto(x, l)
        PROVE  Moves
    BY <2>1, <2>4, <1>GotoMoves, Zenon DEF BaseAts, CallAts, NewAts
  <2>5. ASSUME NEW more, FetchReturns(x, more) PROVE Moves
    BY <2>4, <2>5, Zenon DEF FetchReturns
  <2>6. ASSUME FetchException(x) PROVE Moves
    BY <2>3, <2>5, <2>6, Zenon DEF FetchException
  <2>7. ASSUME NEW r, Follows(r, q[x]), q' = [q EXCEPT ![x] = r] PROVE KeepsQueries
    BY <2>1, <2>7, <1>OneQuery, Zenon DEF Follows
  <2>8. q[x].ref_count + 1 \in Int /\ q[x].ref_count - 1 \in Int
    BY <2>1 DEF QES
  <2>9. CASE Fetch(x)
    <3>1. Moves
      BY <2>3, <2>4, <2>5, <2>6, <2>9, Zenon DEF Fetch
    <3>2. CASE q' = q
      BY <2>1, <2>2, <3>1, <3>2, <1>NoQuery, Zenon DEF Quiet
    <3>3. CASE q' = [q EXCEPT ![x].ref_count = @ + 1]
      <4> DEFINE r == [q[x] EXCEPT !.ref_count = q[x].ref_count + 1]
      <4>1. q' = [q EXCEPT ![x] = r]
        BY <3>3, Zenon
      <4>2. Follows(r, q[x])
        BY <2>1, <2>8, Zenon DEF Follows, QES
      <4> HIDE DEF r
      <4> QED BY <2>2, <2>7, <3>1, <4>1, <4>2, Zenon DEF Quiet
    <3> QED BY <2>9, <3>2, <3>3, Zenon DEF Fetch
  <2>10. CASE FetchError(x)
    <3> DEFINE f == Failed(q[x])
               r == [f EXCEPT !.ref_count = q[x].ref_count - 1]
    <3>1. q' = [q EXCEPT ![x] = r] /\ FetchFails(x)
      BY <2>10, Zenon DEF FetchError
    <3>2. Follows(f, q[x])
      BY <2>1, RecordSteps, Zenon
    <3> HIDE DEF f
    <3>3. Follows(r, q[x])
      BY <2>8, <3>2, Zenon DEF Follows, QES
    <3> HIDE DEF r
    <3> QED BY <2>2, <2>3, <2>7, <3>1, <3>3, Zenon DEF Quiet
  <2>11. CASE FetchCancelled(x)
    <3> DEFINE r == [q[x] EXCEPT !.ref_count = q[x].ref_count - 1]
    <3>1. q' = [q EXCEPT ![x] = r] /\ FetchException(x)
      BY <2>11, Zenon DEF FetchCancelled
    <3>2. Follows(r, q[x])
      BY <2>1, <2>8, Zenon DEF Follows, QES
    <3> HIDE DEF r
    <3> QED BY <2>2, <2>6, <2>7, <3>1, <3>2, Zenon DEF Quiet
  <2>12. CASE q[x].state # "EXCEPTION" /\ q' = [q EXCEPT ![x].state = "FINISHED"]
              /\ stack' = Goto(x, "fetch_next")
    <3> DEFINE r == [q[x] EXCEPT !.state = "FINISHED"]
    <3>1. q' = [q EXCEPT ![x] = r]
      BY <2>12, Zenon
    <3>2. Follows(r, q[x])
      BY <2>1, <2>12, Zenon DEF Follows, QES
    <3> HIDE DEF r
    <3> QED BY <2>2, <2>4, <2>7, <2>12, <3>1, <3>2, Zenon DEF Quiet
  <2>13. ASSUME NEW eos \in BOOLEAN, FetchReturns(x, ~eos),
                q' = [q EXCEPT ![x].eos = eos, ![x].ref_count = @ - 1]
         PROVE  Quiet
    <3> DEFINE r == [q[x] EXCEPT !.eos = eos, !.ref_count = q[x].ref_count - 1]
    <3>1. q' = [q EXCEPT ![x] = r]
      BY <2>1, <2>13, Zenon DEF TypeInv
    <3>2. Follows(r, q[x])
      BY <2>1, <2>8, Zenon DEF Follows, QES
    <3> HIDE DEF r
    <3> QED BY <2>2, <2>5, <2>7, <2>13, <3>1, <3>2, Zenon DEF Quiet
  <2>14. CASE FetchNext(x)
    BY <2>10, <2>11, <2>13, <2>14, Zenon DEF FetchNext
  <2>work. CASE FetchWait(x)
    BY <2>10, <2>11, <2>12, <2>work, Zenon DEF FetchWait
  <2> QED BY <2>9, <2>14, <2>work, Zenon
\* The thread of the child queries: CheckParentStatus, CloseOperation, the end of ExecAndFetch
<1>ChildSteps.
  ASSUME Inv, NEW c \in Queries,
         CheckParentStatus(c) \/ CloseOperation(c) \/ ExecAndFetchReturns(c)
  PROVE  Quiet
  <2> USE <1>ChildSteps
  <2>1. TypeInv /\ c \in Procs /\ q[c] \in QES /\ None \in Causes
    BY Zenon DEF Inv, TypeInv, Procs, Causes
  <2>2. Rest
    BY <2>1, <1>RestSame, Zenon DEF CheckParentStatus, CloseOperation, ExecAndFetchReturns
  <2>3. ASSUME NEW l \in BaseAts, stack' = Goto(c, l) PROVE Moves
    BY <2>1, <2>3, <1>GotoMoves, Zenon DEF BaseAts, CallAts, NewAts
  <2>4. ASSUME NEW l \in BaseAts, NEW cs, CallsOK(cs), stack' = Calls(c, l, cs) PROVE Moves
    BY <2>1, <2>4, <1>CallsMoves, Zenon DEF BaseAts, CallAts
  <2>5. CallsOK(<<>>) /\ CallsOK(UnregisterQuery(c, None))
        /\ CallsOK(CancelInternal(c, None) \o UnregisterQuery(c, None))
    BY <2>1, CallsAreOK, Zenon
  <2>6. ASSUME NEW r, Follows(r, q[c]), q' = [q EXCEPT ![c] = r] PROVE KeepsQueries
    BY <2>1, <2>6, <1>OneQuery, Zenon DEF Follows
  <2>7. CASE CheckParentStatus(c)
    <3>1. CASE q[ParentOf(c)].status = "OK"
      <4>1. q' = q /\ stack' = Goto(c, After(Top(c).at))
            /\ Top(c).at \in {"check_new", "check_fetch", "check_close"}
        BY <2>7, <3>1, Zenon DEF CheckParentStatus
      <4>2. \/ Top(c).at = "check_new" /\ After(Top(c).at) = "new"
            \/ After(Top(c).at) \in {"fetch", "close"}
        BY <4>1, Zenon DEF After
      <4>3. Moves
        <5>1. CASE Top(c).at = "check_new" /\ After(Top(c).at) = "new"
          BY <2>1, <4>1, <5>1, <1>GotoMoves, Zenon DEF NewAts, CallAts
        <5>2. CASE After(Top(c).at) \in {"fetch", "close"}
          BY <2>3, <4>1, <5>2, Zenon DEF BaseAts
        <5> QED BY <4>2, <5>1, <5>2, Zenon
      <4> QED BY <2>1, <2>2, <4>1, <4>3, <1>NoQuery, Zenon DEF Quiet
    <3>2. CASE q[ParentOf(c)].status # "OK"
      <4> DEFINE r == [q[c] EXCEPT !.is_running = FALSE, !.result = "BAD"]
                 cs == IF ~q[c].is_running \/ Rejected THEN <<>>
                       ELSE CancelInternal(c, None) \o UnregisterQuery(c, None)
      <4>1. q' = [q EXCEPT ![c] = r] /\ stack' = Calls(c, "end", cs)
        BY <2>7, <3>2, Zenon DEF CheckParentStatus
      <4>2. Follows(r, q[c])
        BY <2>1, Zenon DEF Follows, QES
      <4>3. CallsOK(cs)
        BY <2>5, Zenon
      <4> HIDE DEF r, cs
      <4>4. Moves
        BY <2>4, <4>1, <4>3, Zenon DEF BaseAts
      <4> QED BY <2>2, <2>6, <4>1, <4>2, <4>4, Zenon DEF Quiet
    <3> QED BY <3>1, <3>2, Zenon
  <2>8. CASE CloseOperation(c)
    <3>1. CASE q' = [q EXCEPT ![c].result = "BAD"] /\ stack' = Goto(c, "closed")
      <4> DEFINE r == [q[c] EXCEPT !.result = "BAD"]
      <4>1. q' = [q EXCEPT ![c] = r]
        BY <3>1, Zenon
      <4>2. Follows(r, q[c])
        BY <2>1, Zenon DEF Follows, QES
      <4> HIDE DEF r
      <4>3. Moves
        BY <2>3, <3>1, Zenon DEF BaseAts
      <4> QED BY <2>2, <2>6, <4>1, <4>2, <4>3, Zenon DEF Quiet
    <3>2. CASE q' = q /\ stack' = Calls(c, "closed", UnregisterQuery(c, None))
      <4>1. Moves
        BY <2>4, <2>5, <3>2, Zenon DEF BaseAts
      <4> QED BY <2>1, <2>2, <3>2, <4>1, <1>NoQuery, Zenon DEF Quiet
    <3> QED BY <2>8, <3>1, <3>2, Zenon DEF CloseOperation
  <2>9. CASE ExecAndFetchReturns(c)
    <3> DEFINE res == IF q[c].result = None THEN "OK" ELSE q[c].result
               r == [q[c] EXCEPT !.is_running = FALSE, !.result = res]
    <3>1. q' = [q EXCEPT ![c] = r] /\ stack' = Goto(c, "end")
      BY <2>1, <2>9, Zenon DEF ExecAndFetchReturns, TypeInv
    <3>2. res \in {None, "OK", "BAD"}
      BY <2>1, Zenon DEF QES
    <3> HIDE DEF res
    <3>3. Follows(r, q[c])
      BY <2>1, <3>2, Zenon DEF Follows, QES
    <3> HIDE DEF r
    <3>4. Moves
      BY <2>3, <3>1, Zenon DEF BaseAts
    <3> QED BY <2>2, <2>6, <3>1, <3>3, <3>4, Zenon DEF Quiet
  <2> QED BY <2>7, <2>8, <2>9, Zenon
\* Clients, the session's closing and expiry, expired queries, failed backends and the pool
<1>OtherSteps.
  ASSUME Inv,
         \/ \E x \in Queries : ClientCalls(x) \/ ExpireQuery(x)
         \/ OtherCalls \/ CloseSession \/ CancelSessionQueries \/ ExpireSession
         \/ CancelFromThreadPool \/ MembershipCallback
         \/ \E h \in Hosts : BackendFails(h)
  PROVE  Quiet
  <2> USE <1>OtherSteps
  <2>1. TypeInv /\ Queries \subseteq Procs /\ {Other, Closer, Worker} \subseteq Procs
        /\ None \in Causes /\ "ERROR" \in Causes
    BY Zenon DEF Inv, Procs, Causes
  <2>2. q' = q /\ map' = map
    BY Zenon DEF ClientCalls, ExpireQuery, OtherCalls, CloseSession, CancelSessionQueries,
           ExpireSession, CancelFromThreadPool, MembershipCallback, BackendFails
  <2>3. KeepsQueries
    BY <2>1, <2>2, <1>NoQuery, Zenon
  <2>4. ASSUME NEW i \in Procs, NEW l \in BaseAts, stack' = Goto(i, l) PROVE Moves
    BY <2>1, <2>4, <1>GotoMoves, Zenon DEF BaseAts, CallAts, NewAts
  <2>5. ASSUME NEW i \in Procs, NEW l \in BaseAts, NEW x \in Queries, NEW cause \in Causes,
               NEW cs \in {CancelInternal(x, cause), UnregisterQuery(x, cause)},
               stack' = Calls(i, l, cs)
        PROVE  Moves
    <3>1. CallsOK(cs)
      BY CallsAreOK, Zenon
    <3> QED BY <2>1, <2>5, <3>1, <1>CallsMoves, Zenon DEF BaseAts, CallAts
  <2>work. ASSUME NEW X \in SUBSET Queries, NEW b \in BOOLEAN
         PROVE  {[x |-> x, unregister |-> b] : x \in X} \subseteq CancellationWork
    BY DEF CancellationWork
  <2>6. ASSUME NEW x \in Queries, ClientCalls(x) PROVE Quiet
    <3>1. Moves
      BY <2>1, <2>4, <2>5, <2>6, Zenon DEF ClientCalls, BaseAts
    <3>2. Rest
      BY <2>1, <2>6, <1>RestSame, Zenon DEF ClientCalls
    <3> QED BY <2>3, <3>1, <3>2, Zenon DEF Quiet
  <2>7. CASE OtherCalls
    <3>1. PICK x \in map : \E calls \in {CancelInternal(x, None), UnregisterQuery(x, None)} :
                              stack' = Calls(Other, "idle", calls)
      BY <2>7, Zenon DEF OtherCalls
    <3>2. x \in Queries /\ "idle" \in BaseAts
      BY <2>1, Zenon DEF TypeInv, BaseAts
    <3>3. Moves
      BY <2>1, <2>5, <3>1, <3>2, Zenon
    <3>4. Rest
      BY <2>1, <2>7, <1>RestSame, Zenon DEF OtherCalls
    <3> QED BY <2>3, <3>3, <3>4, Zenon DEF Quiet
  <2>8. CASE CloseSession
    <3>1. Moves
      BY <2>1, <2>4, <2>8, Zenon DEF CloseSession, BaseAts
    <3>2. session' \in Session /\ UNCHANGED <<work, locations>>
      BY <2>1, <2>8, Zenon DEF CloseSession, TypeInv, Session
    <3> QED BY <2>1, <2>2, <2>3, <3>1, <3>2, Zenon DEF Quiet, Rest, TypeInv
  <2>9. CASE CancelSessionQueries
    <3>1. UNCHANGED <<work, locations>>
      BY <2>9, Zenon DEF CancelSessionQueries
    <3>2. CASE session.todo = {}
      <4>1. stack' = Goto(Closer, "end") /\ session' = session
        BY <2>9, <3>2, Zenon DEF CancelSessionQueries
      <4>2. Moves
        BY <2>1, <2>4, <4>1, Zenon DEF BaseAts
      <4> QED BY <2>1, <2>2, <2>3, <3>1, <4>1, <4>2, Zenon DEF Quiet, Rest, TypeInv
    <3>3. CASE session.todo # {}
      <4> DEFINE x == CHOOSE y \in session.todo : TRUE
      <4>1. x \in session.todo
        BY <3>3, Zenon
      <4>2. session' = [session EXCEPT !.todo = session.todo \ {x}]
            /\ stack' = Calls(Closer, "closing", UnregisterQuery(x, "ERROR"))
        BY <2>9, <3>3, Zenon DEF CancelSessionQueries
      <4> HIDE DEF x
      <4>3. x \in Queries /\ session' \in Session
        BY <2>1, <4>1, <4>2, Zenon DEF TypeInv, Session
      <4>4. Moves
        BY <2>1, <2>5, <4>2, <4>3, Zenon DEF BaseAts
      <4> QED BY <2>1, <2>2, <2>3, <3>1, <4>3, <4>4, Zenon DEF Quiet, Rest, TypeInv
    <3> QED BY <3>2, <3>3, Zenon
  <2>10. CASE ExpireSession
    <3>1. UNCHANGED <<stack, locations>> /\ session' \in Session
      BY <2>1, <2>10, Zenon DEF ExpireSession, TypeInv, Session
    <3>2. session.inflight \subseteq Queries
      BY <2>1, Zenon DEF TypeInv, Session
    <3>3. work' \subseteq CancellationWork
      BY <2>1, <2>10, <2>work, <3>2, Zenon DEF ExpireSession, TypeInv
    <3>4. Moves
      BY <2>1, <3>1, <1>StayMoves, Zenon
    <3> QED BY <2>1, <2>2, <2>3, <3>1, <3>3, <3>4, Zenon DEF Quiet, Rest, TypeInv
  <2>11. ASSUME NEW x \in Queries, ExpireQuery(x) PROVE Quiet
    <3>1. UNCHANGED <<stack, locations, session>>
      BY <2>11, Zenon DEF ExpireQuery
    <3>2. work' \subseteq CancellationWork
      <4>1. [x |-> x, unregister |-> FALSE] \in CancellationWork
        BY Zenon DEF CancellationWork
      <4>2. work' = work \cup {[x |-> x, unregister |-> FALSE]}
        BY <2>11, Zenon DEF ExpireQuery
      <4> QED BY <2>1, <4>1, <4>2, Zenon DEF TypeInv
    <3>3. Moves
      BY <2>1, <3>1, <1>StayMoves, Zenon
    <3> QED BY <2>1, <2>2, <2>3, <3>1, <3>2, <3>3, Zenon DEF Quiet, Rest, TypeInv
  <2>12. CASE CancelFromThreadPool
    <3>1. PICK w \in work :
             /\ work' = work \ {w}
             /\ stack' = Calls(Worker, "idle", IF w.unregister THEN UnregisterQuery(w.x, "ERROR")
                                               ELSE CancelInternal(w.x, "ERROR"))
      BY <2>12, Zenon DEF CancelFromThreadPool
    <3>2. w.x \in Queries /\ "idle" \in BaseAts /\ UNCHANGED <<session, locations>>
      BY <2>1, <2>12, Zenon DEF CancelFromThreadPool, TypeInv, BaseAts, CancellationWork
    <3>3. Moves
      BY <2>1, <2>5, <3>1, <3>2, Zenon
    <3> QED BY <2>1, <2>2, <2>3, <3>1, <3>2, <3>3, Zenon DEF Quiet, Rest, TypeInv
  <2>13. CASE MembershipCallback
    <3> DEFINE lost == UNION {locations[h] : h \in Hosts \ up}
    <3>1. lost \subseteq Queries
      BY <2>1 DEF TypeInv
    <3>2. /\ locations' = [h \in Hosts |-> IF h \in up THEN locations[h] ELSE {}]
          /\ work' \subseteq work \cup {[x |-> x, unregister |-> FALSE] : x \in lost}
          /\ UNCHANGED <<session, stack>>
      BY <2>13, Zenon DEF MembershipCallback
    <3> HIDE DEF lost
    <3>3. work' \subseteq CancellationWork
      BY <2>1, <2>work, <3>1, <3>2, Zenon DEF TypeInv
    <3>4. locations' \in [Hosts -> SUBSET Queries]
      BY <2>1, <3>2, Zenon DEF TypeInv
    <3>5. Moves
      BY <2>1, <3>2, <1>StayMoves, Zenon
    <3> QED BY <2>1, <2>2, <2>3, <3>2, <3>3, <3>4, <3>5, Zenon DEF Quiet, Rest, TypeInv
  <2>14. ASSUME NEW h \in Hosts, BackendFails(h) PROVE Quiet
    <3>1. UNCHANGED <<map, session, work, locations, stack>>
      BY <2>14, Zenon DEF BackendFails
    <3> QED BY <2>1, <2>3, <3>1, <1>RestSame, <1>StayMoves, Zenon DEF Quiet
  <2> QED BY <2>6, <2>7, <2>8, <2>9, <2>10, <2>11, <2>12, <2>13, <2>14, Zenon
\* CancelInternal, and UnregisterQuery of a query that is not in the map
<1>CancelSteps.
  ASSUME Inv, NEW i \in Procs,
         Find(i) \/ Lock(i) \/ Cancel(i) \/ (Erase(i) /\ Top(i).x \notin map)
  PROVE  Quiet
  <2> USE <1>CancelSteps
  <2> DEFINE x == Top(i).x
  <2>1. TypeInv /\ None \in Causes /\ map \subseteq Queries
    BY Zenon DEF Inv, TypeInv, Causes
  <2>2. Top(i).at \in CallAts /\ x \in Queries /\ Top(i).cause \in Causes
    <3>1. Top(i).at \in CallAts
      BY Zenon DEF Find, Lock, Cancel, Erase, At, CallAts
    <3> QED BY <2>1, <3>1, TopOK, Zenon DEF Frame
  <2>3. q[x] \in QES
    BY <2>1, <2>2, Zenon DEF TypeInv
  <2>4. UNCHANGED <<map, session, work, locations>>
    BY Zenon DEF Find, Lock, Cancel, Erase
  <2>5. Rest
    BY <2>1, <2>4, <1>RestSame, Zenon
  <2>6. ASSUME NEW l \in {"lock", "cancel"}, stack' = Goto(i, l) PROVE Moves
    BY <2>1, <2>2, <2>6, <1>GotoMoves, Zenon DEF CallAts, NewAts
  <2>7. ASSUME stack' = Return(i) PROVE Moves
    BY <2>1, <2>2, <2>7, <1>ReturnMoves, Zenon
  <2>8. ASSUME NEW y \in Queries, NEW r, Follows(r, q[y]), q' = [q EXCEPT ![y] = r]
        PROVE  KeepsQueries
    BY <2>1, <2>8, <1>OneQuery, Zenon DEF Follows
  <2>9. CASE Find(i)
    <3>1. q' = q /\ Moves
      BY <2>6, <2>7, <2>9, Zenon DEF Find
    <3> QED BY <2>1, <2>5, <3>1, <1>NoQuery, Zenon DEF Quiet
  <2>10. CASE Lock(i)
    <3> DEFINE r == [q[x] EXCEPT !.lock = i]
    <3>1. q' = [q EXCEPT ![x] = r] /\ stack' = Goto(i, "cancel")
      BY <2>10, Zenon DEF Lock
    <3>2. Follows(r, q[x])
      BY <2>3, Zenon DEF Follows, QES
    <3> HIDE DEF r
    <3> QED BY <2>2, <2>5, <2>6, <2>8, <3>1, <3>2, Zenon DEF Quiet
  <2>11. CASE Cancel(i)
    <3>1. ASSUME NEW c \in ChildrenOf(x), q' = [q EXCEPT ![c].is_running = FALSE],
                 stack' = Calls(i, "cancel", IF Rejected THEN <<>>
                                  ELSE CancelInternal(c, None) \o UnregisterQuery(c, None))
          PROVE  Quiet
      <4> DEFINE r == [q[c] EXCEPT !.is_running = FALSE]
                 cs == IF Rejected THEN <<>>
                       ELSE CancelInternal(c, None) \o UnregisterQuery(c, None)
      <4>1. c \in Queries
        <5>1. q[x].child_queries \in Seq(Queries)
          BY <2>3, Zenon DEF QES
        <5> QED BY <5>1 DEF ChildrenOf, Range
      <4>2. q' = [q EXCEPT ![c] = r] /\ stack' = Calls(i, "cancel", cs)
        BY <3>1, Zenon
      <4>3. Follows(r, q[c])
        <5>1. q[c] \in QES
          BY <2>1, <4>1, Zenon DEF TypeInv
        <5> QED BY <5>1, Zenon DEF Follows, QES
      <4>4. CallsOK(cs)
        BY <2>1, <4>1, CallsAreOK, Zenon
      <4> HIDE DEF r, cs
      <4>5. Moves
        BY <2>1, <2>2, <4>2, <4>4, <1>CallsMoves, Zenon DEF CallAts
      <4> QED BY <2>5, <2>8, <4>1, <4>2, <4>3, <4>5, Zenon DEF Quiet
    <3>2. CASE q' = [q EXCEPT ![x] = Cancelled(@, Top(i).cause)] /\ stack' = Return(i)
      <4>1. Follows(Cancelled(q[x], Top(i).cause), q[x])
        BY <2>2, <2>3, RecordSteps, Zenon
      <4>2. KeepsQueries
        BY <2>2, <2>8, <3>2, <4>1, Zenon
      <4> QED BY <2>5, <2>7, <3>2, <4>2, Zenon DEF Quiet
    <3> QED BY <2>11, <3>1, <3>2, Zenon DEF Cancel
  <2>12. CASE Erase(i) /\ x \notin map
    <3> DEFINE res == IF i = x THEN "BAD" ELSE q[x].result
               r == [q[x] EXCEPT !.result = res]
    <3>1. q' = [q EXCEPT ![x] = r] /\ stack' = Return(i)
      BY <2>12, Zenon DEF Erase
    <3>2. res \in {None, "OK", "BAD"}
      BY <2>3, Zenon DEF QES
    <3> HIDE DEF res
    <3>3. Follows(r, q[x])
      BY <2>3, <3>2, Zenon DEF Follows, QES
    <3> HIDE DEF r
    <3> QED BY <2>2, <2>5, <2>7, <2>8, <3>1, <3>3, Zenon DEF Quiet
  <2> QED BY <2>9, <2>10, <2>11, <2>12, Zenon
\* RegisterQuery: the query's thread has not registered it before, so nobody finishes it
<1>RegisterStep.
  ASSUME Inv, NEW x \in Queries, RegisterQuery(x)
  PROVE  Inv' /\ KeepsQueries
  <2> USE <1>RegisterStep
  <2>1. TypeInv /\ x \in Procs /\ q[x] \in QES /\ Top(x).at = "new"
    BY Zenon DEF Inv, TypeInv, Procs, RegisterQuery, At
  <2>2. CASE Rejected
    <3>1. UNCHANGED <<map, q, session, work, locations>> /\ stack' = Goto(x, "failed")
      BY <2>2, Zenon DEF RegisterQuery
    <3>2. Moves
      BY <2>1, <3>1, <1>GotoMoves, Zenon DEF BaseAts, CallAts, NewAts
    <3>3. KeepsQueries /\ Rest
      BY <2>1, <3>1, <1>NoQuery, <1>RestSame, Zenon
    <3> QED BY <3>2, <3>3, <1>QuietStep, Zenon
  <2>3. CASE ~Rejected
    <3> DEFINE r == [q[x] EXCEPT !.lock = x]
               f == [Top(x) EXCEPT !.at = "plan"]
               s == <<f>> \o Tail(stack[x])
    <3>1. /\ map' = map \cup {x} /\ q' = [q EXCEPT ![x] = r]
          /\ session' = [session EXCEPT !.inflight = session.inflight \cup {x}]
          /\ UNCHANGED <<work, locations>> /\ stack' = [stack EXCEPT ![x] = s]
      BY <2>3, Zenon DEF RegisterQuery, Goto
    <3>2. Follows(r, q[x])
      BY <2>1, Zenon DEF Follows, QES
    <3> HIDE DEF r
    <3>3. KeepsQueries
      BY <2>1, <3>1, <3>2, <1>OneQuery, Zenon DEF Follows
    <3>4. f \in Frame /\ f.at = "plan"
      BY <2>1, TopOK, Zenon DEF Frame, BaseAts
    <3> HIDE DEF f
    <3>5. StackOK(s) /\ Head(s) = f
      BY <2>1, <3>4, TopOK, <1>Replaced, Zenon DEF CallAts
    <3> HIDE DEF s
    <3>6. s \in Seq(Frame)
      BY <3>5, Zenon DEF StackOK
    <3>7. /\ stack' \in [Procs -> Seq(Frame)]
          /\ \A j \in Procs : StackOK(stack'[j])
          /\ \A j \in Procs : Top(j)' = IF j = x THEN f ELSE Top(j)
      BY <2>1, <3>1, <3>5, <3>6, <1>TopsAfter, Zenon
    <3>8. session' \in Session
      BY <2>1, <3>1, Zenon DEF TypeInv, Session
    <3>9. TypeInv'
      BY <2>1, <3>1, <3>3, <3>7, <3>8, Zenon DEF TypeInv, KeepsQueries
    <3>10. Top(x)'.at \notin NewAts /\ Top(x)'.at # "done" /\ Top(x).at \in NewAts
      BY <2>1, <3>4, <3>7, Zenon DEF NewAts
    <3>11. \A j \in Procs : j # x => Top(j)' = Top(j)
      BY <3>7, Zenon
    <3>12. \A j \in Procs, y \in Queries : Finishing(j, y)' => Finishing(j, y) /\ y # x
      <4>1. \A j \in Procs, y \in Queries : Finishing(j, y)' => Finishing(j, y)
        BY <3>10, <3>11, Zenon DEF Finishing, At
      <4> QED BY <3>10, <4>1, Zenon DEF Inv
    <3>13. q[x].released = 0 /\ \A y \in Queries : q'[y].released = q[y].released
      BY <3>3, <3>10, Zenon DEF Inv, KeepsQueries
    <3>14. Queries \subseteq Procs /\ map \subseteq Queries
      BY <2>1, Zenon DEF Procs, TypeInv
    <3>15. \A y \in map' : Top(y)'.at \notin NewAts
      BY <3>1, <3>10, <3>11, <3>14, Zenon DEF Inv
    <3>16. \A j \in Procs, y \in Queries : Finishing(j, y)' =>
             y \notin map' /\ Top(y)'.at \notin NewAts /\ q'[y].released = 0
      BY <3>1, <3>11, <3>12, <3>13, <3>14 DEF Inv
    <3>17. \A j, k \in Procs, y \in Queries : Finishing(j, y)' /\ Finishing(k, y)' => j = k
      BY <3>12, Zenon DEF Inv
    <3>18. \A y \in Queries : q'[y].released # 0 =>
             y \notin map' /\ Top(y)'.at \notin NewAts /\ q'[y].released = 1
      BY <3>1, <3>11, <3>13, <3>14 DEF Inv
    <3> QED BY <3>3, <3>9, <3>15, <3>16, <3>17, <3>18, Zenon DEF Inv
  <2> QED BY <2>2, <2>3, Zenon
\* The thread that finds the query in the map is the one that will call Done
<1>EraseStep.
  ASSUME Inv, NEW i \in Procs, Erase(i), Top(i).x \in map
  PROVE  Inv' /\ KeepsQueries
  <2> USE <1>EraseStep
  <2> DEFINE x == Top(i).x
             f == [Top(i) EXCEPT !.at = "done"]
             s == <<f>> \o Tail(stack[i])
  <2>1. TypeInv /\ map \subseteq Queries /\ Queries \subseteq Procs /\ Top(i).at = "erase"
    BY Zenon DEF Inv, TypeInv, Procs, Erase, At
  <2>2. x \in map /\ x \in Queries
    BY <2>1, Zenon
  <2>3. map' = map \ {x} /\ UNCHANGED <<q, session, work, locations>>
        /\ stack' = [stack EXCEPT ![i] = s]
    BY Zenon DEF Erase, Goto
  <2>4. f \in Frame /\ f.at = "done" /\ f.x = x
    BY <2>1, TopOK DEF Frame, CallAts
  <2> HIDE DEF f
  <2>5. StackOK(s) /\ Head(s) = f
    BY <2>1, <2>2, <2>4, TopOK, <1>Replaced, Zenon DEF CallAts
  <2> HIDE DEF s
  <2>6. s \in Seq(Frame)
    BY <2>5, Zenon DEF StackOK
  <2>7. /\ stack' \in [Procs -> Seq(Frame)]
        /\ \A j \in Procs : StackOK(stack'[j])
        /\ \A j \in Procs : Top(j)' = IF j = i THEN f ELSE Top(j)
    BY <2>1, <2>3, <2>5, <2>6, <1>TopsAfter, Zenon
  <2>8. TypeInv'
    BY <2>1, <2>3, <2>7, Zenon DEF TypeInv
  <2>9. KeepsQueries
    BY <2>1, <2>3, <1>NoQuery, Zenon
  <2> HIDE DEF x
  <2>10. \A j \in Procs : Top(j)'.at \in NewAts => Top(j).at \in NewAts
    BY <2>4, <2>7, Zenon DEF NewAts
  <2>11. \A j \in Procs, y \in Queries : Finishing(j, y)' => Finishing(j, y) \/ (j = i /\ y = x)
    BY <2>4, <2>7, Zenon DEF Finishing, At
  <2>12. \A y \in map' : Top(y)'.at \notin NewAts
    BY <2>1, <2>3, <2>10, Zenon DEF Inv
  <2>13. Top(x).at \notin NewAts /\ q[x].released = 0 /\ \A j \in Procs : ~Finishing(j, x)
    BY <2>2, Zenon DEF Inv
  <2>14. \A j \in Procs, y \in Queries : Finishing(j, y)' =>
           y \notin map' /\ Top(y)'.at \notin NewAts /\ q'[y].released = 0
    <3> SUFFICES ASSUME NEW j \in Procs, NEW y \in Queries, Finishing(j, y)'
                 PROVE  y \notin map' /\ Top(y)'.at \notin NewAts /\ q'[y].released = 0
      BY Zenon
    <3>1. CASE Finishing(j, y)
      BY <2>1, <2>3, <2>10, <3>1, Zenon DEF Inv
    <3>2. CASE j = i /\ y = x
      BY <2>1, <2>3, <2>10, <2>13, <3>2, Zenon
    <3> QED BY <2>11, <3>1, <3>2, Zenon
  <2>15. \A j, k \in Procs, y \in Queries : Finishing(j, y)' /\ Finishing(k, y)' => j = k
    BY <2>11, <2>13 DEF Inv
  <2>16. \A y \in Queries : q'[y].released # 0 =>
           y \notin map' /\ Top(y)'.at \notin NewAts /\ q'[y].released = 1
    BY <2>1, <2>3, <2>10, Zenon DEF Inv
  <2> QED BY <2>8, <2>9, <2>12, <2>14, <2>15, <2>16, Zenon DEF Inv
\* Done: the one thread that finishes the query releases it, and leaves
<1>DoneStep.
  ASSUME Inv, NEW i \in Procs, Done(i)
  PROVE  /\ Inv'
         /\ \A y \in Queries : q[y].state = "EXCEPTION" => q'[y].state = "EXCEPTION"
  <2> USE <1>DoneStep
  <2> DEFINE x == Top(i).x
             n == q[x].ref_count + 1
             m == IF q[x].coord = None THEN q[x].released ELSE q[x].released + 1
             r == [q[x] EXCEPT !.ref_count = n, !.released = m]
             s == Tail(stack[i])
  <2>1. TypeInv /\ map \subseteq Queries /\ Queries \subseteq Procs /\ Top(i).at = "done"
        /\ Top(i).at \in CallAts
    BY Zenon DEF Inv, TypeInv, Procs, Done, At, CallAts
  <2>2. x \in Queries /\ q[x] \in QES
    BY <2>1, TopOK, Zenon DEF TypeInv
  <2>3. Finishing(i, x)
    BY <2>1, Zenon DEF Finishing, At
  <2>4. /\ q' = [q EXCEPT ![x] = r]
        /\ session' = [session EXCEPT !.inflight = session.inflight \ {x}]
        /\ locations' = [h \in Hosts |-> locations[h] \ {x}]
        /\ stack' = [stack EXCEPT ![i] = s] /\ UNCHANGED <<map, work>>
    BY <2>1, <2>2, Zenon DEF Done, Return, TypeInv
  <2>5. q[x].released = 0 /\ x \notin map /\ Top(x).at \notin NewAts
    BY <2>2, <2>3, Zenon DEF Inv
  <2>6. n \in Int /\ m \in {0, 1}
    BY <2>2, <2>5 DEF QES
  <2> HIDE DEF n, m
  <2>7. r \in QES /\ r.released \in {0, 1} /\ r.state = q[x].state
    <3> HIDE DEF x
    <3>1. m \in Nat
      BY <2>6
    <3>2. r \in QES
      BY <2>2, <2>6, <3>1, Zenon DEF QES
    <3>3. r.released = m /\ r.state = q[x].state
      BY <2>2, Zenon DEF QES
    <3> QED BY <2>6, <3>2, <3>3, Zenon
  <2> HIDE DEF r
  <2>8. StackOK(s) /\ Head(s).at \notin NewAts /\ Head(s).at # "done"
    BY <2>1, TopOK, <1>Dropped, Zenon
  <2> HIDE DEF s
  <2>9. s \in Seq(Frame)
    BY <2>8, Zenon DEF StackOK
  <2>10. /\ stack' \in [Procs -> Seq(Frame)]
         /\ \A j \in Procs : StackOK(stack'[j])
         /\ \A j \in Procs : Top(j)' = IF j = i THEN Head(s) ELSE Top(j)
    BY <2>1, <2>4, <2>8, <2>9, <1>TopsAfter, Zenon
  <2> HIDE DEF x
  <2>11. session' \in Session /\ locations' \in [Hosts -> SUBSET Queries]
    BY <2>1, <2>4, Zenon DEF TypeInv, Session
  <2>12. q' \in [Queries -> QES] /\ \A y \in Queries : q'[y] = IF y = x THEN r ELSE q[y]
    BY <2>1, <2>2, <2>4, <2>7, Zenon DEF TypeInv
  <2>13. TypeInv'
    BY <2>1, <2>4, <2>10, <2>11, <2>12, Zenon DEF TypeInv
  <2>14. \A j \in Procs : Top(j)'.at \in NewAts => Top(j).at \in NewAts
    BY <2>8, <2>10, Zenon
  <2>15. \A j \in Procs, y \in Queries : Finishing(j, y)' => Finishing(j, y) /\ y # x
    <3>1. \A j \in Procs, y \in Queries : Finishing(j, y)' => Finishing(j, y) /\ j # i
      BY <2>8, <2>10, Zenon DEF Finishing, At
    <3> QED BY <2>2, <2>3, <3>1 DEF Inv
  <2>16. \A y \in map' : Top(y)'.at \notin NewAts
    BY <2>1, <2>4, <2>14, Zenon DEF Inv
  <2>17. \A j \in Procs, y \in Queries : Finishing(j, y)' =>
           y \notin map' /\ Top(y)'.at \notin NewAts /\ q'[y].released = 0
    BY <2>1, <2>4, <2>12, <2>14, <2>15 DEF Inv
  <2>18. \A j, k \in Procs, y \in Queries : Finishing(j, y)' /\ Finishing(k, y)' => j = k
    BY <2>15, Zenon DEF Inv
  <2>19. \A y \in Queries : q'[y].released # 0 =>
           y \notin map' /\ Top(y)'.at \notin NewAts /\ q'[y].released = 1
    BY <2>1, <2>4, <2>5, <2>7, <2>12, <2>14 DEF Inv
  <2>20. \A y \in Queries : q[y].state = "EXCEPTION" => q'[y].state = "EXCEPTION"
    BY <2>7, <2>12, Zenon
  <2> QED BY <2>13, <2>16, <2>17, <2>18, <2>19, <2>20, Zenon DEF Inv
<1> SUFFICES ASSUME Inv, [Next]_vars
             PROVE  /\ Inv'
                    /\ \A x \in Queries : q[x].state = "EXCEPTION" => q'[x].state = "EXCEPTION"
  BY Zenon
<1> DEFINE Goal == /\ Inv'
                   /\ \A x \in Queries : q[x].state = "EXCEPTION" => q'[x].state = "EXCEPTION"
<1> SUFFICES Goal
  BY Zenon
<1>1. ASSUME Quiet PROVE Goal
  BY <1>1, <1>QuietStep, Zenon DEF Quiet, KeepsQueries
<1>2. CASE \E i \in Procs : Unregistering(i)
  <2>1. PICK i \in Procs : Unregistering(i)
    BY <1>2, Zenon
  <2>2. CASE Done(i)
    BY <2>2, <1>DoneStep, Zenon
  <2>3. CASE Erase(i) /\ Top(i).x \in map
    BY <2>3, <1>EraseStep, Zenon DEF KeepsQueries
  <2>4. CASE Find(i) \/ Lock(i) \/ Cancel(i) \/ (Erase(i) /\ Top(i).x \notin map)
    BY <1>1, <2>4, <1>CancelSteps, Zenon
  <2> QED BY <2>1, <2>2, <2>3, <2>4, Zenon DEF Unregistering
<1>3. ASSUME NEW x \in Queries, Executing(x) PROVE Goal
  <2>1. CASE RegisterQuery(x)
    BY <2>1, <1>RegisterStep, Zenon DEF KeepsQueries
  <2>2. CASE Fetch(x) \/ FetchWait(x) \/ FetchNext(x)
    BY <1>1, <2>2, <1>FetchSteps, Zenon
  <2>3. CASE Plan(x) \/ Exec(x) \/ Launch(x) \/ Locate(x) \/ Started(x) \/ ExecuteReturns(x)
    BY <1>1, <2>3, <1>ExecuteSteps, Zenon
  <2> QED BY <1>3, <2>1, <2>2, <2>3, Zenon DEF Executing
<1>4. ASSUME NEW x \in Queries, Child(x) \/ WaitStep(x) PROVE Goal
  BY <1>1, <1>4, <1>ChildSteps, <1>WaitSteps, Zenon DEF Child
<1>5. CASE \/ \E x \in Queries : ClientCalls(x) \/ ExpireQuery(x)
           \/ OtherCalls \/ CloseSession \/ CancelSessionQueries \/ ExpireSession
           \/ CancelFromThreadPool \/ MembershipCallback
           \/ \E h \in Hosts : BackendFails(h)
  BY <1>1, <1>5, <1>OtherSteps, Zenon
<1>6. CASE UNCHANGED vars
  <2>1. UNCHANGED <<map, q, session, work, locations, stack>> /\ TypeInv
    BY <1>6, Zenon DEF vars, Inv
  <2> QED BY <1>1, <2>1, <1>NoQuery, <1>RestSame, <1>StayMoves, Zenon DEF Quiet
<1> HIDE DEF Goal
<1>7. CASE \E x \in Queries : Executing(x) \/ Child(x) \/ WaitStep(x) \/ ClientCalls(x)
                               \/ ExpireQuery(x)
  BY <1>3, <1>4, <1>5, <1>7, Zenon
<1>8. CASE Next
  BY <1>2, <1>5, <1>7, <1>8, Zenon DEF Next
<1> QED BY <1>6, <1>8, Zenon

\* So the invariant holds for ever
LEMMA Inductive == Spec => []Inv
<1>1. Inv /\ [Next]_vars => Inv'
  BY NextInv, Zenon
<1> QED BY <1>1, InitInv, PTL DEF Spec

\* For any number of queries, child queries and threads: of all that may unregister a query
\* (its client, a failed fetch, the closing or expiry of its session, a parent's Cancel) only
\* one calls Done, once, so the resources reserved for the query are returned once.
THEOREM ResourcesReturnedOnce == Spec => []ReleasedOnce
<1>1. Inv => ReleasedOnce
  <2> SUFFICES ASSUME Inv, NEW x \in Queries
               PROVE  q[x].released <= 1 /\ (q[x].released = 1 => x \notin map)
    BY Zenon DEF ReleasedOnce
  <2>1. q[x].released = 0 \/ (q[x].released = 1 /\ x \notin map)
    BY Zenon DEF Inv
  <2> QED BY <2>1
<1> QED BY <1>1, Inductive, PTL

\* For any number of them: a query in state EXCEPTION stays so, although Wait, Fetch and
\* Execute look at the state in one critical section of lock_ and set it in another.
THEOREM FailureIsFinal == Spec => ExceptionIsFinal
<1>1. Inv /\ [Next]_vars =>
        [\A x \in Queries : q[x].state = "EXCEPTION" => q'[x].state = "EXCEPTION"]_vars
  BY NextInv, Zenon
<1> QED BY <1>1, Inductive, PTL DEF Spec, ExceptionIsFinal
-------------------------------------------------------------------------------
(* The calls of a thread *)

\* What a thread does after the calls it makes, and the calls that may wait for others
LowerAts == {"find", "cancel", "erase", "failed", "idle", "check_close", "closed", "end", "closing"}

\* Only the bottom of a stack is what the thread is there for, and UnregisterQuery erases a
\* query after it has cancelled it
ShapeOK(s) ==
    /\ \A k \in 1..(Len(s) - 1) : s[k].at \in CallAts
    /\ \A k \in 2..Len(s) : s[k].at \in LowerAts
    /\ \A k \in 2..Len(s) : s[k].at = "erase" =>
         s[k - 1].at \in {"find", "lock", "cancel"} /\ s[k - 1].x = s[k].x

\* The stack s has a call of x that is at one of ats
Has(s, ats, x) == \E k \in 1..Len(s) : s[k].at \in ats /\ s[k].x = x

\* Nobody knows of a query that is not registered yet
Fresh(x) ==
    /\ x \notin session.inflight \cup session.todo
    /\ \A h \in Hosts : x \notin locations[h]
    /\ \A w \in work : w.x # x
    /\ ~q[x].is_running /\ q[x].fragments = "none"
    /\ \A i \in Procs : ~Has(stack[i], CallAts, x)

\* Nobody unregisters a query before its planning is done, because its thread has the lock_
Planning(x) ==
    /\ x \in map /\ q[x].lock = x
    /\ \A i \in Procs : /\ ~Has(stack[i], {"cancel", "done"}, x)
                        /\ ~(At(i, "erase") /\ Top(i).x = x)

Bottom(s) == s[Len(s)].at

\* CloseSessionInternal has still to unregister each query of the map
SessionOK ==
    /\ map \subseteq session.inflight
    /\ Bottom(stack[Closer]) \in {"idle", "closing", "end"}
    /\ Bottom(stack[Closer]) # "idle" => session.closed
    /\ Bottom(stack[Closer]) = "end" => session.todo = {}
    /\ session.closed =>
         \A x \in map : x \in session.todo \/ Has(stack[Closer], {"erase"}, x)

ServerInv ==
    /\ \A i \in Procs : ShapeOK(stack[i])
    /\ \A x \in Queries : Top(x).at \in NewAts => Fresh(x)
    /\ \A x \in Queries : At(x, "plan") => Planning(x)
    /\ SessionOK

\* The calls made for y: none, CancelInternal, UnregisterQuery or one after the other
CallLists(y) ==
    {<<>>} \cup {CancelInternal(y, cause) : cause \in Causes}
           \cup {UnregisterQuery(y, cause) : cause \in Causes}
           \cup {CancelInternal(y, cause) \o UnregisterQuery(y, cause) : cause \in Causes}

\* A call is the current one or one of those that wait for it
LEMMA HasHead ==
    ASSUME NEW s \in Seq(Frame), s # <<>>, NEW ats, NEW x
    PROVE  Has(s, ats, x) <=> (Head(s).at \in ats /\ Head(s).x = x) \/ Has(Tail(s), ats, x)
<1>1. Len(s) \in Nat /\ Len(s) >= 1 /\ Head(s) = s[1] /\ Len(Tail(s)) = Len(s) - 1
  OBVIOUS
<1>2. \A k \in 1..(Len(s) - 1) : Tail(s)[k] = s[k + 1]
  BY <1>1
<1>3. ASSUME Has(s, ats, x)
      PROVE  (Head(s).at \in ats /\ Head(s).x = x) \/ Has(Tail(s), ats, x)
  <2>1. PICK k \in 1..Len(s) : s[k].at \in ats /\ s[k].x = x
    BY <1>3, Zenon DEF Has
  <2>2. CASE k = 1
    BY <1>1, <2>1, <2>2, Zenon
  <2>3. CASE k # 1
    <3>1. k - 1 \in 1..(Len(s) - 1) /\ (k - 1) + 1 = k
      BY <1>1, <2>3
    <3>2. Tail(s)[k - 1] = s[k]
      BY <1>2, <3>1, Zenon
    <3> QED BY <1>1, <2>1, <3>1, <3>2, Zenon DEF Has
  <2> QED BY <2>2, <2>3, Zenon
<1>4. ASSUME Head(s).at \in ats /\ Head(s).x = x PROVE Has(s, ats, x)
  <2>1. 1 \in 1..Len(s)
    BY <1>1
  <2> QED BY <1>1, <1>4, <2>1, Zenon DEF Has
<1>5. ASSUME Has(Tail(s), ats, x) PROVE Has(s, ats, x)
  <2>1. PICK k \in 1..(Len(s) - 1) : Tail(s)[k].at \in ats /\ Tail(s)[k].x = x
    BY <1>1, <1>5, Zenon DEF Has
  <2>2. k + 1 \in 1..Len(s)
    BY <1>1
  <2> QED BY <1>2, <2>1, <2>2, Zenon DEF Has
<1> QED BY <1>3, <1>4, <1>5, Zenon

\* One sequence of calls after another
LEMMA JoinFacts ==
    ASSUME NEW a \in Seq(Frame), NEW b \in Seq(Frame)
    PROVE  /\ a \o b \in Seq(Frame) /\ Len(a \o b) = Len(a) + Len(b)
           /\ \A k \in 1..Len(a) : (a \o b)[k] = a[k]
           /\ \A k \in 1..Len(b) : (a \o b)[k + Len(a)] = b[k]
<1>1. Len(a) \in Nat /\ Len(b) \in Nat
  OBVIOUS
<1> QED BY <1>1

\* A call is one of the new ones or one of those before
LEMMA HasJoin ==
    ASSUME NEW a \in Seq(Frame), NEW b \in Seq(Frame), NEW ats, NEW x
    PROVE  Has(a \o b, ats, x) <=> Has(a, ats, x) \/ Has(b, ats, x)
<1> DEFINE u == a \o b
<1>1. Len(a) \in Nat /\ Len(b) \in Nat
  OBVIOUS
<1>2. /\ Len(u) = Len(a) + Len(b)
      /\ \A k \in 1..Len(a) : u[k] = a[k]
      /\ \A k \in 1..Len(b) : u[k + Len(a)] = b[k]
  BY <1>1
<1> HIDE DEF u
<1>3. ASSUME Has(u, ats, x) PROVE Has(a, ats, x) \/ Has(b, ats, x)
  <2>1. PICK k \in 1..Len(u) : u[k].at \in ats /\ u[k].x = x
    BY <1>3, Zenon DEF Has
  <2>2. CASE k \in 1..Len(a)
    BY <1>2, <2>1, <2>2, Zenon DEF Has
  <2>3. CASE k \notin 1..Len(a)
    <3>1. k - Len(a) \in 1..Len(b) /\ (k - Len(a)) + Len(a) = k
      BY <1>1, <1>2, <2>3
    <3>2. u[k] = b[k - Len(a)]
      BY <1>2, <3>1, Zenon
    <3> QED BY <2>1, <3>1, <3>2, Zenon DEF Has
  <2> QED BY <2>2, <2>3, Zenon
<1>4. ASSUME Has(a, ats, x) PROVE Has(u, ats, x)
  <2>1. PICK k \in 1..Len(a) : a[k].at \in ats /\ a[k].x = x
    BY <1>4, Zenon DEF Has
  <2>2. k \in 1..Len(u)
    BY <1>1, <1>2
  <2> QED BY <1>2, <2>1, <2>2, Zenon DEF Has
<1>5. ASSUME Has(b, ats, x) PROVE Has(u, ats, x)
  <2>1. PICK k \in 1..Len(b) : b[k].at \in ats /\ b[k].x = x
    BY <1>5, Zenon DEF Has
  <2>2. k + Len(a) \in 1..Len(u)
    BY <1>1, <1>2
  <2> QED BY <1>2, <2>1, <2>2, Zenon DEF Has
<1> QED BY <1>3, <1>4, <1>5, Zenon DEF u

\* The calls made for y are of y, and an erasure follows a cancellation
LEMMA ListFacts ==
    ASSUME NEW y \in Queries, NEW cs \in CallLists(y)
    PROVE  /\ cs \in Seq(Frame) /\ CallsOK(cs)
           /\ \A k \in 1..Len(cs) : /\ cs[k].at \in {"find", "erase"} /\ cs[k].x = y
                                    /\ cs[k].at = "erase" => k >= 2 /\ cs[k - 1].at = "find"
<1>1. CASE cs = <<>>
  BY <1>1, CallsAreOK DEF CallsOK, Causes
<1>2. ASSUME NEW cause \in Causes, cs \in {CancelInternal(y, cause), UnregisterQuery(y, cause),
                                    CancelInternal(y, cause) \o UnregisterQuery(y, cause)}
      PROVE  /\ cs \in Seq(Frame) /\ CallsOK(cs)
             /\ \A k \in 1..Len(cs) : /\ cs[k].at \in {"find", "erase"} /\ cs[k].x = y
                                      /\ cs[k].at = "erase" => k >= 2 /\ cs[k - 1].at = "find"
  <2> DEFINE f == Call("find", y, cause)
             e == Call("erase", y, cause)
  <2>1. f \in Frame /\ f.at = "find" /\ f.x = y /\ e \in Frame /\ e.at = "erase" /\ e.x = y
    BY Zenon DEF Call, Frame, CallAts
  <2>2. CancelInternal(y, cause) = <<f>> /\ UnregisterQuery(y, cause) = <<f>> \o <<e>>
    BY Zenon DEF CancelInternal, UnregisterQuery
  <2> HIDE DEF f, e
  <2> DEFINE u == <<f>> \o <<e>>
             w == <<f>> \o u
  <2>3. u \in Seq(Frame) /\ Len(u) = 2 /\ u[1] = f /\ u[2] = e
    BY <2>1
  <2> HIDE DEF u
  <2>4. Len(w) = 3 /\ w[1] = f /\ w[2] = f /\ w[3] = e
    <3>1. <<f>> \in Seq(Frame) /\ Len(<<f>>) = 1 /\ <<f>>[1] = f
      BY <2>1
    <3>2. /\ Len(w) = Len(<<f>>) + Len(u)
          /\ \A k \in 1..Len(<<f>>) : w[k] = <<f>>[k]
          /\ \A k \in 1..Len(u) : w[k + Len(<<f>>)] = u[k]
      BY <2>3, <3>1, JoinFacts, Zenon
    <3>3. Len(w) = 3 /\ w[1] = f /\ w[1 + 1] = u[1] /\ w[2 + 1] = u[2]
      BY <2>3, <3>1, <3>2
    <3> QED BY <2>3, <3>3
  <2> HIDE DEF w
  <2>5. CallsOK(cs) /\ cs \in Seq(Frame)
    BY <1>2, CallsAreOK, Zenon DEF CallsOK
  <2>6. CASE cs = <<f>>
    BY <2>1, <2>5, <2>6
  <2>7. CASE cs = u
    <3>1. \A k \in 1..Len(cs) : k = 1 \/ (k = 2 /\ k >= 2 /\ k - 1 = 1)
      <4>1. Len(cs) = 2
        BY <2>3, <2>7, Zenon
      <4>2. \A k \in 1..2 : k = 1 \/ (k = 2 /\ k >= 2 /\ k - 1 = 1)
        OBVIOUS
      <4> QED BY <4>1, <4>2, Zenon
    <3> QED BY <2>1, <2>3, <2>5, <2>7, <3>1, Zenon
  <2>8. CASE cs = w
    <3>1. \A k \in 1..Len(cs) : k = 1 \/ k = 2 \/ (k = 3 /\ k >= 2 /\ k - 1 = 2)
      BY <2>4, <2>8, SMTT(40)
    <3> QED BY <2>1, <2>4, <2>5, <2>8, <3>1, Zenon
  <2>9. cs = <<f>> \/ cs = u \/ cs = w
    BY <1>2, <2>2, Zenon DEF u, w
  <2> QED BY <2>6, <2>7, <2>8, <2>9, Zenon
<1> QED BY <1>1, <1>2, Zenon DEF CallLists

\* UnregisterQuery erases the query, and CancelInternal is a call
LEMMA UnregisterHas ==
    ASSUME NEW y \in Queries, NEW cause \in Causes
    PROVE  /\ Has(UnregisterQuery(y, cause), {"erase"}, y)
           /\ Has(UnregisterQuery(y, cause), CallAts, y)
           /\ Has(CancelInternal(y, cause), CallAts, y)
<1> DEFINE f == Call("find", y, cause)
           e == Call("erase", y, cause)
<1>1. f \in Frame /\ f.at = "find" /\ f.x = y /\ e \in Frame /\ e.at = "erase" /\ e.x = y
  BY Zenon DEF Call, Frame, CallAts
<1>2. CancelInternal(y, cause) = <<f>> /\ UnregisterQuery(y, cause) = <<f>> \o <<e>>
  BY Zenon DEF CancelInternal, UnregisterQuery
<1> HIDE DEF f, e
<1> DEFINE u == <<f>> \o <<e>>
<1>3. Len(u) = 2 /\ u[2] = e /\ Len(<<f>>) = 1 /\ <<f>>[1] = f
  BY <1>1
<1> HIDE DEF u
<1>4. 2 \in 1..2 /\ 1 \in 1..1
  OBVIOUS
<1>5. Has(u, {"erase"}, y) /\ Has(u, CallAts, y) /\ Has(<<f>>, CallAts, y)
  BY <1>1, <1>3, <1>4, Zenon DEF Has, CallAts
<1> QED BY <1>2, <1>5, Zenon DEF u
\* The steps of a call, and those of what a thread is there for
GoesOn(k, l) ==
    \/ k \notin CallAts /\ l \notin CallAts
    \/ k = "find" /\ l = "lock"
    \/ k = "lock" /\ l = "cancel"
    \/ k = "cancel" /\ l = "cancel"
    \/ k = "erase" /\ l = "done"

\* The current call moves on
LEMMA GotoShape ==
    ASSUME NEW s, StackOK(s), ShapeOK(s), NEW g \in Frame,
           g.x = Head(s).x, GoesOn(Head(s).at, g.at)
    PROVE  LET v == <<g>> \o Tail(s) IN
           /\ v \in Seq(Frame) /\ v # <<>> /\ v[1] = g /\ ShapeOK(v)
           /\ Bottom(v) = IF g.at \in CallAts THEN Bottom(s) ELSE g.at
           /\ \A ats, x : Has(v, ats, x) <=> (g.at \in ats /\ g.x = x) \/ Has(Tail(s), ats, x)
<1> DEFINE v == <<g>> \o Tail(s)
<1>1. s \in Seq(Frame) /\ s # <<>> /\ Len(s) \in Nat /\ Len(s) >= 1 /\ Head(s) = s[1]
  BY DEF StackOK
<1>2. Tail(s) \in Seq(Frame) /\ Len(Tail(s)) = Len(s) - 1
      /\ \A k \in 1..(Len(s) - 1) : Tail(s)[k] = s[k + 1]
  BY <1>1
<1>3. v \in Seq(Frame) /\ Len(v) = Len(s) /\ v[1] = g
  BY <1>1, <1>2
<1>4. ASSUME NEW k \in 2..Len(s) PROVE v[k] = s[k]
  <2>1. k - 1 \in 1..(Len(s) - 1) /\ v[k] = Tail(s)[k - 1]
    BY <1>1, <1>2
  <2> QED BY <1>2, <2>1
<1>5. \A ats, x : Has(v, ats, x) <=> (g.at \in ats /\ g.x = x) \/ Has(Tail(s), ats, x)
  <2> TAKE ats, x
  <2>1. Head(v) = g /\ Tail(v) = Tail(s) /\ v # <<>>
    BY <1>2
  <2> QED BY <1>3, <2>1, HasHead, Zenon
<1> HIDE DEF v
<1>6. v # <<>>
  BY <1>1, <1>3
<1>7. Len(s) = 1 <=> Head(s).at \notin CallAts
  <2>1. CASE Len(s) = 1
    BY <1>1, <2>1, Zenon DEF StackOK
  <2>2. CASE Len(s) # 1
    <3>1. \A n \in Nat : n >= 1 /\ n # 1 => 1 \in 1..(n - 1)
      OBVIOUS
    <3>2. 1 \in 1..(Len(s) - 1)
      BY <1>1, <2>2, <3>1, Zenon
    <3> QED BY <1>1, <2>2, <3>2, Zenon DEF ShapeOK
  <2> QED BY <2>1, <2>2, Zenon
<1>8. \A k \in 2..Len(s) : k - 1 = 1 \/ k - 1 \in 2..Len(s)
  BY <1>1
<1>9. g.at \in CallAts <=> Head(s).at \in CallAts
  BY Zenon DEF GoesOn, CallAts
<1>10. \A k \in 1..(Len(v) - 1) : v[k].at \in CallAts
  <2> TAKE k \in 1..(Len(v) - 1)
  <2>1. Len(s) # 1 /\ k \in 1..(Len(s) - 1)
    BY <1>1, <1>3
  <2>2. CASE k = 1
    BY <1>3, <1>7, <1>9, <2>1, <2>2, Zenon
  <2>3. CASE k # 1
    <3>1. k \in 2..Len(s)
      BY <1>1, <2>1, <2>3
    <3> QED BY <1>4, <2>1, <3>1, Zenon DEF ShapeOK
  <2> QED BY <2>2, <2>3, Zenon
<1>11. \A k \in 2..Len(v) : v[k].at \in LowerAts
  BY <1>3, <1>4, Zenon DEF ShapeOK
<1>12. \A k \in 2..Len(v) : v[k].at = "erase" =>
         v[k - 1].at \in {"find", "lock", "cancel"} /\ v[k - 1].x = v[k].x
  <2> SUFFICES ASSUME NEW k \in 2..Len(v), v[k].at = "erase"
               PROVE  v[k - 1].at \in {"find", "lock", "cancel"} /\ v[k - 1].x = v[k].x
    BY Zenon
  <2>1. k \in 2..Len(s) /\ s[k] = v[k]
    BY <1>3, <1>4, Zenon
  <2>2. s[k - 1].at \in {"find", "lock", "cancel"} /\ s[k - 1].x = s[k].x
    BY <2>1, Zenon DEF ShapeOK
  <2>3. CASE k - 1 = 1
    <3>1. Head(s).at \in {"find", "lock", "cancel"} /\ Head(s).x = v[k].x /\ v[k - 1] = g
      BY <1>1, <1>3, <2>1, <2>2, <2>3, Zenon
    <3> QED BY <3>1, Zenon DEF GoesOn, CallAts
  <2>4. CASE k - 1 \in 2..Len(s)
    BY <1>4, <2>1, <2>2, <2>4, Zenon
  <2> QED BY <1>8, <2>1, <2>3, <2>4, Zenon
<1>13. Bottom(v) = IF g.at \in CallAts THEN Bottom(s) ELSE g.at
  <2>1. CASE Len(s) = 1
    BY <1>3, <1>7, <1>9, <2>1, Zenon DEF Bottom
  <2>2. CASE Len(s) # 1
    <3>1. \A n \in Nat : n >= 1 /\ n # 1 => n \in 2..n
      OBVIOUS
    <3>2. Len(s) \in 2..Len(s)
      BY <1>1, <2>2, <3>1, Zenon
    <3> QED BY <1>3, <1>4, <1>7, <1>9, <2>2, <3>2, Zenon DEF Bottom
  <2> QED BY <2>1, <2>2, Zenon
<1>14. ShapeOK(v)
  BY <1>10, <1>11, <1>12, Zenon DEF ShapeOK
<1> QED BY <1>3, <1>5, <1>6, <1>13, <1>14, Zenon DEF v

\* Calls are made on top of one that waits
LEMMA PushShape ==
    ASSUME NEW v \in Seq(Frame), v # <<>>, ShapeOK(v), v[1].at \in LowerAts \ {"erase"},
           NEW y \in Queries, NEW cs \in CallLists(y)
    PROVE  LET u == cs \o v IN
           /\ u \in Seq(Frame) /\ u # <<>> /\ ShapeOK(u) /\ Bottom(u) = Bottom(v)
           /\ u[1] = v[1] \/ (u[1].at = "find" /\ u[1].x = y)
           /\ \A ats, x : Has(u, ats, x) <=> Has(cs, ats, x) \/ Has(v, ats, x)
<1> DEFINE u == cs \o v
           n == Len(cs)
<1>1. /\ cs \in Seq(Frame) /\ n \in Nat
      /\ \A k \in 1..n : /\ cs[k].at \in {"find", "erase"} /\ cs[k].x = y
                         /\ cs[k].at = "erase" => k >= 2 /\ cs[k - 1].at = "find"
  BY ListFacts
<1>2. Len(v) \in Nat /\ Len(v) >= 1
  OBVIOUS
<1>3. /\ u \in Seq(Frame) /\ Len(u) = n + Len(v)
      /\ \A k \in 1..n : u[k] = cs[k]
      /\ \A k \in (n + 1)..Len(u) : u[k] = v[k - n]
  BY <1>1, <1>2
<1>4. \A ats, x : Has(u, ats, x) <=> Has(cs, ats, x) \/ Has(v, ats, x)
  BY <1>1, HasJoin, Zenon
<1> HIDE DEF u, n
<1>5. ASSUME NEW k \in 1..Len(u), k \notin 1..n
      PROVE  /\ u[k] = v[k - n] /\ k - n \in 1..Len(v)
             /\ k = n + 1 \/ (k - n \in 2..Len(v) /\ u[k - 1] = v[(k - n) - 1] /\ (k - 1) - n = (k - n) - 1)
  <2>1. k \in (n + 1)..Len(u) /\ k - n \in 1..Len(v)
    BY <1>1, <1>2, <1>3, <1>5
  <2>2. CASE k # n + 1
    <3>1. k - 1 \in (n + 1)..Len(u) /\ k - n \in 2..Len(v) /\ (k - 1) - n = (k - n) - 1
      BY <1>1, <1>2, <1>3, <2>1, <2>2
    <3> QED BY <1>3, <2>1, <3>1, Zenon
  <2> QED BY <1>3, <2>1, <2>2, Zenon
<1>6. \A k \in 1..(Len(u) - 1) : u[k].at \in CallAts
  <2> TAKE k \in 1..(Len(u) - 1)
  <2>1. k \in 1..Len(u)
    BY <1>1, <1>2, <1>3
  <2>2. CASE k \in 1..n
    BY <1>1, <1>3, <2>2 DEF CallAts
  <2>3. CASE k \notin 1..n
    <3>1. k - n \in 1..(Len(v) - 1)
      BY <1>1, <1>2, <1>3, <2>3
    <3> QED BY <1>5, <2>1, <2>3, <3>1, Zenon DEF ShapeOK
  <2> QED BY <2>2, <2>3, Zenon
<1>7. \A k \in 2..Len(u) : u[k].at \in LowerAts
  <2> TAKE k \in 2..Len(u)
  <2>1. k \in 1..Len(u)
    BY <1>1, <1>2, <1>3
  <2>2. CASE k \in 1..n
    BY <1>1, <1>3, <2>2 DEF LowerAts
  <2>3. CASE k \notin 1..n
    <3>1. CASE k = n + 1
      <4>1. k - n = 1
        BY <1>1, <3>1
      <4> QED BY <1>5, <2>1, <2>3, <4>1, Zenon
    <3>2. CASE k # n + 1
      BY <1>5, <2>1, <2>3, <3>2, Zenon DEF ShapeOK
    <3> QED BY <3>1, <3>2, Zenon
  <2> QED BY <2>2, <2>3, Zenon
<1>8. \A k \in 2..Len(u) : u[k].at = "erase" =>
         u[k - 1].at \in {"find", "lock", "cancel"} /\ u[k - 1].x = u[k].x
  <2> SUFFICES ASSUME NEW k \in 2..Len(u), u[k].at = "erase"
               PROVE  u[k - 1].at \in {"find", "lock", "cancel"} /\ u[k - 1].x = u[k].x
    BY Zenon
  <2>1. k \in 1..Len(u)
    BY <1>1, <1>2, <1>3
  <2>2. CASE k \in 1..n
    <3>1. k - 1 \in 1..n
      BY <1>1, <2>2
    <3> QED BY <1>1, <1>3, <2>2, <3>1, SMTT(40)
  <2>3. CASE k \notin 1..n
    <3>1. CASE k = n + 1
      <4>1. k - n = 1
        BY <1>1, <3>1
      <4> QED BY <1>5, <2>1, <2>3, <4>1, Zenon
    <3>2. CASE k # n + 1
      BY <1>5, <2>1, <2>3, <3>2 DEF ShapeOK
    <3> QED BY <3>1, <3>2, Zenon
  <2> QED BY <2>2, <2>3, Zenon
<1>9. ShapeOK(u)
  BY <1>6, <1>7, <1>8, Zenon DEF ShapeOK
<1>10. u # <<>> /\ Len(u) \in (n + 1)..Len(u) /\ Len(u) - n = Len(v)
  BY <1>1, <1>2, <1>3
<1>11. Bottom(u) = Bottom(v)
  BY <1>3, <1>10, Zenon DEF Bottom
<1>12. u[1] = v[1] \/ (u[1].at = "find" /\ u[1].x = y)
  <2>1. CASE n = 0
    <3>1. 1 \in (n + 1)..Len(u) /\ 1 - n = 1
      BY <1>2, <1>3, <2>1
    <3> QED BY <1>3, <3>1, Zenon
  <2>2. CASE n # 0
    <3>1. 1 \in 1..n /\ ~(1 >= 2)
      BY <1>1, <2>2
    <3> QED BY <1>1, <1>3, <3>1
  <2> QED BY <2>1, <2>2, Zenon
<1> QED BY <1>3, <1>4, <1>9, <1>10, <1>11, <1>12, Zenon DEF u

\* A call returns to what called it
LEMMA PopShape ==
    ASSUME NEW s, StackOK(s), ShapeOK(s), Head(s).at \in CallAts
    PROVE  LET u == Tail(s) IN
           /\ u \in Seq(Frame) /\ u # <<>> /\ ShapeOK(u) /\ Bottom(u) = Bottom(s)
           /\ u[1].at \in LowerAts
           /\ u[1].at = "erase" => /\ Head(s).at \in {"find", "lock", "cancel"}
                                   /\ Head(s).x = u[1].x
<1>1. s \in Seq(Frame) /\ s # <<>> /\ Len(s) \in Nat /\ Len(s) >= 1 /\ Head(s) = s[1]
  BY DEF StackOK
<1>2. Len(s) >= 2
  BY <1>1 DEF StackOK
<1> DEFINE u == Tail(s)
<1>3. u \in Seq(Frame) /\ Len(u) = Len(s) - 1 /\ \A k \in 1..Len(u) : u[k] = s[k + 1]
  BY <1>1
<1> HIDE DEF u
<1>4. u # <<>> /\ u[1] = s[2] /\ u[Len(u)] = s[Len(s)]
  BY <1>1, <1>2, <1>3
<1>5. 2 \in 2..Len(s) /\ 2 - 1 = 1
  BY <1>1, <1>2
<1>6. \A k \in 1..(Len(u) - 1) : u[k].at \in CallAts
  <2> TAKE k \in 1..(Len(u) - 1)
  <2>1. k \in 1..Len(u) /\ k + 1 \in 1..(Len(s) - 1)
    BY <1>1, <1>3
  <2> QED BY <1>3, <2>1 DEF ShapeOK
<1>7. \A k \in 2..Len(u) :
        /\ u[k].at \in LowerAts
        /\ u[k].at = "erase" => u[k - 1].at \in {"find", "lock", "cancel"} /\ u[k - 1].x = u[k].x
  <2> TAKE k \in 2..Len(u)
  <2>1. /\ k \in 1..Len(u) /\ k - 1 \in 1..Len(u) /\ k + 1 \in 2..Len(s)
        /\ (k - 1) + 1 = (k + 1) - 1
    BY <1>1, <1>3
  <2>2. u[k] = s[k + 1] /\ u[k - 1] = s[(k + 1) - 1]
    BY <1>3, <2>1, Zenon
  <2> QED BY <2>1, <2>2 DEF ShapeOK
<1>8. ShapeOK(u)
  BY <1>6, <1>7, Zenon DEF ShapeOK
<1>9. Bottom(u) = Bottom(s)
  BY <1>4, Zenon DEF Bottom
<1>10. s[2].at \in LowerAts /\ (s[2].at = "erase" =>
         s[1].at \in {"find", "lock", "cancel"} /\ s[1].x = s[2].x)
  BY <1>5, Zenon DEF ShapeOK
<1> QED BY <1>1, <1>3, <1>4, <1>8, <1>9, <1>10, Zenon DEF u
-------------------------------------------------------------------------------
(* What a thread's step does to its calls *)

\* The calls come before the current one and those that wait for it
LEMMA CallsFirst ==
    ASSUME NEW s, StackOK(s), NEW f \in Frame, NEW cs \in Seq(Frame)
    PROVE  cs \o <<f>> \o Tail(s) = cs \o (<<f>> \o Tail(s))
<1>1. s \in Seq(Frame) /\ s # <<>>
  BY Zenon DEF StackOK
<1>2. <<f>> \in Seq(Frame) /\ Tail(s) \in Seq(Frame)
  BY <1>1
<1> QED BY <1>2

\* A thread goes on at l, after it has made calls for y
LEMMA AfterCalls ==
    ASSUME TypeInv, NEW i \in Procs, ShapeOK(stack[i]),
           NEW l \in CallAts \cup NewAts \cup BaseAts, GoesOn(Top(i).at, l),
           NEW y \in Queries, NEW cs \in CallLists(y), cs # <<>> => l \in LowerAts,
           stack' = Calls(i, l, cs) \/ (cs = <<>> /\ stack' = Goto(i, l))
    PROVE  /\ \A j \in Procs : j # i => stack'[j] = stack[j] /\ Top(j)' = Top(j)
           /\ ShapeOK(stack'[i])
           /\ \/ Top(i)'.at = l /\ Top(i)'.x = Top(i).x
              \/ cs # <<>> /\ Top(i)'.at = "find" /\ Top(i)'.x = y
           /\ Bottom(stack'[i]) = IF l \in CallAts THEN Bottom(stack[i]) ELSE l
           /\ \A ats, x : Has(stack[i], ats, x) <=>
                (Top(i).at \in ats /\ Top(i).x = x) \/ Has(Tail(stack[i]), ats, x)
           /\ \A ats, x : Has(stack'[i], ats, x) <=>
                \/ Has(cs, ats, x)
                \/ l \in ats /\ Top(i).x = x
                \/ Has(Tail(stack[i]), ats, x)
<1> DEFINE f == [Top(i) EXCEPT !.at = l]
           s == stack[i]
           v == <<f>> \o Tail(s)
           u == cs \o v
<1>1. StackOK(s) /\ Top(i) = Head(s) /\ Top(i) \in Frame
  BY TopOK, Zenon
<1>2. f \in Frame /\ f.at = l /\ f.x = Head(s).x
  BY <1>1, Zenon DEF Frame
<1> HIDE DEF f
<1>3. s \in Seq(Frame) /\ s # <<>> /\ Tail(s) \in Seq(Frame)
  BY <1>1 DEF StackOK
<1>4. cs \in Seq(Frame)
  BY ListFacts, Zenon
<1>5. cs \o <<f>> \o Tail(s) = u
  BY <1>1, <1>2, <1>4, CallsFirst, Zenon
<1>6. /\ v \in Seq(Frame) /\ v # <<>> /\ v[1] = f /\ ShapeOK(v)
      /\ Bottom(v) = IF l \in CallAts THEN Bottom(s) ELSE l
      /\ \A ats, x : Has(v, ats, x) <=> (l \in ats /\ f.x = x) \/ Has(Tail(s), ats, x)
  BY <1>1, <1>2, GotoShape
<1>7. \A ats, x : Has(s, ats, x) <=>
        (Top(i).at \in ats /\ Top(i).x = x) \/ Has(Tail(s), ats, x)
  BY <1>1, <1>3, HasHead, Zenon
<1> HIDE DEF v
<1>8. cs = <<>> => u = v /\ \A ats, x : ~Has(cs, ats, x)
  BY <1>6 DEF Has
<1>9. cs # <<>> => f.at \in LowerAts \ {"erase"}
  BY <1>2, Zenon DEF GoesOn, CallAts
<1>10. /\ u \in Seq(Frame) /\ u # <<>> /\ ShapeOK(u) /\ Bottom(u) = Bottom(v)
       /\ u[1] = f \/ (cs # <<>> /\ u[1].at = "find" /\ u[1].x = y)
       /\ \A ats, x : Has(u, ats, x) <=> Has(cs, ats, x) \/ Has(v, ats, x)
  <2>1. CASE cs = <<>>
    BY <1>6, <1>8, <2>1, Zenon
  <2>2. CASE cs # <<>>
    BY <1>6, <1>9, <2>2, PushShape
  <2> QED BY <2>1, <2>2, Zenon
<1>11. stack' = [stack EXCEPT ![i] = u]
  <2>1. CASE stack' = Calls(i, l, cs)
    BY <1>5, <2>1, Zenon DEF Calls, f
  <2>2. CASE cs = <<>> /\ stack' = Goto(i, l)
    BY <1>8, <2>2, Zenon DEF Goto, f, v
  <2> QED BY <2>1, <2>2, Zenon
<1> HIDE DEF u
<1>12. stack'[i] = u /\ \A j \in Procs : j # i => stack'[j] = stack[j]
  BY <1>11, Zenon DEF TypeInv
<1>13. Head(u) = u[1]
  BY <1>10
<1>14. Top(i)' = u[1] /\ \A j \in Procs : j # i => Top(j)' = Top(j)
  BY <1>12, <1>13, Zenon DEF Top
<1>15. \A ats, x : Has(u, ats, x) <=>
         Has(cs, ats, x) \/ (l \in ats /\ Top(i).x = x) \/ Has(Tail(s), ats, x)
  BY <1>1, <1>2, <1>6, <1>10, Zenon
<1> QED BY <1>1, <1>2, <1>6, <1>7, <1>10, <1>12, <1>14, <1>15, Zenon

\* A thread goes on at l
LEMMA AfterGoto ==
    ASSUME TypeInv, NEW i \in Procs, ShapeOK(stack[i]),
           NEW l \in CallAts \cup NewAts \cup BaseAts, GoesOn(Top(i).at, l), stack' = Goto(i, l)
    PROVE  /\ \A j \in Procs : j # i => stack'[j] = stack[j] /\ Top(j)' = Top(j)
           /\ ShapeOK(stack'[i])
           /\ Top(i)'.at = l /\ Top(i)'.x = Top(i).x
           /\ Bottom(stack'[i]) = IF l \in CallAts THEN Bottom(stack[i]) ELSE l
           /\ \A ats, x : Has(stack[i], ats, x) <=>
                (Top(i).at \in ats /\ Top(i).x = x) \/ Has(Tail(stack[i]), ats, x)
           /\ \A ats, x : Has(stack'[i], ats, x) <=>
                (l \in ats /\ Top(i).x = x) \/ Has(Tail(stack[i]), ats, x)
<1> DEFINE f == [Top(i) EXCEPT !.at = l]
           s == stack[i]
           v == <<f>> \o Tail(s)
<1>1. StackOK(s) /\ Top(i) = Head(s) /\ Top(i) \in Frame
  BY TopOK, Zenon
<1>2. f \in Frame /\ f.at = l /\ f.x = Head(s).x
  BY <1>1, Zenon DEF Frame
<1> HIDE DEF f
<1>3. s \in Seq(Frame) /\ s # <<>>
  BY <1>1, Zenon DEF StackOK
<1>4. /\ v \in Seq(Frame) /\ v # <<>> /\ v[1] = f /\ ShapeOK(v)
      /\ Bottom(v) = IF l \in CallAts THEN Bottom(s) ELSE l
      /\ \A ats, x : Has(v, ats, x) <=> (l \in ats /\ f.x = x) \/ Has(Tail(s), ats, x)
  BY <1>1, <1>2, GotoShape
<1>5. \A ats, x : Has(s, ats, x) <=>
        (Top(i).at \in ats /\ Top(i).x = x) \/ Has(Tail(s), ats, x)
  BY <1>1, <1>3, HasHead
<1>6. stack' = [stack EXCEPT ![i] = v]
  BY Zenon DEF Goto, f
<1> HIDE DEF v
<1>7. stack'[i] = v /\ \A j \in Procs : j # i => stack'[j] = stack[j]
  BY <1>6 DEF TypeInv
<1>8. Head(v) = v[1]
  BY <1>4
<1>9. Top(i)' = v[1] /\ \A j \in Procs : j # i => Top(j)' = Top(j)
  BY <1>7, <1>8, Zenon DEF Top
<1> QED BY <1>1, <1>2, <1>4, <1>5, <1>7, <1>9

\* A call of a thread returns
LEMMA AfterReturn ==
    ASSUME TypeInv, NEW i \in Procs, ShapeOK(stack[i]), Top(i).at \in CallAts, stack' = Return(i)
    PROVE  /\ \A j \in Procs : j # i => stack'[j] = stack[j] /\ Top(j)' = Top(j)
           /\ ShapeOK(stack'[i])
           /\ Top(i)'.at \in LowerAts
           /\ Top(i)'.at = "erase" =>
                Top(i).at \in {"find", "lock", "cancel"} /\ Top(i).x = Top(i)'.x
           /\ Bottom(stack'[i]) = Bottom(stack[i])
           /\ \A ats, x : Has(stack[i], ats, x) <=>
                (Top(i).at \in ats /\ Top(i).x = x) \/ Has(stack'[i], ats, x)
<1> DEFINE s == stack[i]
           u == Tail(s)
<1>1. StackOK(s) /\ Top(i) = Head(s) /\ Top(i) \in Frame
  BY TopOK, Zenon
<1>2. s \in Seq(Frame) /\ s # <<>>
  BY <1>1, Zenon DEF StackOK
<1>3. /\ u \in Seq(Frame) /\ u # <<>> /\ ShapeOK(u) /\ Bottom(u) = Bottom(s)
      /\ u[1].at \in LowerAts
      /\ u[1].at = "erase" => Head(s).at \in {"find", "lock", "cancel"} /\ Head(s).x = u[1].x
  BY <1>1, PopShape, Zenon
<1>4. \A ats, x : Has(s, ats, x) <=> (Top(i).at \in ats /\ Top(i).x = x) \/ Has(u, ats, x)
  BY <1>1, <1>2, HasHead, Zenon
<1>5. stack' = [stack EXCEPT ![i] = u]
  BY Zenon DEF Return
<1> HIDE DEF u
<1>6. stack'[i] = u /\ \A j \in Procs : j # i => stack'[j] = stack[j]
  BY <1>5, Zenon DEF TypeInv
<1>7. Head(u) = u[1]
  BY <1>3
<1>8. Top(i)' = u[1] /\ \A j \in Procs : j # i => Top(j)' = Top(j)
  BY <1>6, <1>7, Zenon DEF Top
<1> QED BY <1>1, <1>3, <1>4, <1>6, <1>8, Zenon
-------------------------------------------------------------------------------
(* What keeps ServerInv *)

\* A step of thread i tells nobody of a query that is not registered yet
KeepsFresh(i) ==
    \A y \in Queries : y # i /\ Top(y).at \in NewAts =>
        /\ y \in session'.inflight \cup session'.todo => y \in session.inflight \cup session.todo
        /\ \A h \in Hosts : y \in locations'[h] => y \in locations[h]
        /\ \A w \in work' : w.x = y => w \in work
        /\ q'[y].is_running => q[y].is_running
        /\ q[y].fragments = "none" => q'[y].fragments = "none"
        /\ Has(stack'[i], CallAts, y) => Has(stack[i], CallAts, y)

\* A step of thread i leaves the queries alone that are planned
KeepsPlanning(i) ==
    \A y \in Queries : y # i /\ At(y, "plan") =>
        /\ y \in map' /\ q'[y].lock = q[y].lock
        /\ Has(stack'[i], {"cancel", "done"}, y) => Has(stack[i], {"cancel", "done"}, y)
        /\ ~(Top(i)'.at = "erase" /\ Top(i)'.x = y)

\* The calls that threads make
LEMMA InLists ==
    ASSUME NEW y \in Queries, NEW cause \in Causes
    PROVE  /\ <<>> \in CallLists(y) /\ CancelInternal(y, cause) \in CallLists(y)
           /\ UnregisterQuery(y, cause) \in CallLists(y)
           /\ CancelInternal(y, cause) \o UnregisterQuery(y, cause) \in CallLists(y)
BY Zenon DEF CallLists

-------------------------------------------------------------------------------
(* CancelInternal and UnregisterQuery keep ServerInv *)

-------------------------------------------------------------------------------
(* The other steps keep ServerInv *)

\* What the current call is, when it is the only one
LEMMA TopIsBottom ==
    ASSUME NEW s, StackOK(s), ShapeOK(s), Head(s).at \notin CallAts
    PROVE  /\ Len(s) = 1 /\ Bottom(s) = Head(s).at
           /\ \A ats, x : ats \subseteq CallAts => ~Has(s, ats, x)
<1>1. s \in Seq(Frame) /\ s # <<>> /\ Len(s) \in Nat /\ Len(s) >= 1 /\ Head(s) = s[1]
  BY DEF StackOK
<1>2. Len(s) = 1
  <2>1. \A n \in Nat : n >= 1 /\ n # 1 => 1 \in 1..(n - 1)
    OBVIOUS
  <2> QED BY <1>1, <2>1, Zenon DEF ShapeOK
<1>3. \A k \in 1..1 : k = 1
  OBVIOUS
<1> QED BY <1>1, <1>2, <1>3 DEF Bottom, Has

\* The thread that waits for the results leaves the lock_, the fragments and is_running_ alone,
\* and sets eos_ only for a query without rows
LEMMA WaitFields ==
    ASSUME TypeInv, NEW x \in Queries, WaitStep(x)
    PROVE  \A y \in Queries : /\ q'[y].lock = q[y].lock
                              /\ q'[y].is_running = q[y].is_running
                              /\ q'[y].fragments = q[y].fragments
                              /\ q[y].eos => q'[y].eos
                              /\ y \notin Dml /\ q'[y].eos => q[y].eos
<1> DEFINE Same(r, r0) == /\ r.lock = r0.lock /\ r.is_running = r0.is_running
                          /\ r.fragments = r0.fragments
                          /\ r0.eos => r.eos
                          /\ x \notin Dml /\ r.eos => r0.eos
           Goal == \A y \in Queries : /\ q'[y].lock = q[y].lock
                                      /\ q'[y].is_running = q[y].is_running
                                      /\ q'[y].fragments = q[y].fragments
                                      /\ q[y].eos => q'[y].eos
                                      /\ y \notin Dml /\ q'[y].eos => q[y].eos
<1> SUFFICES Goal
  BY Zenon
<1>1. q \in [Queries -> QES] /\ q[x] \in QES
  BY Zenon DEF TypeInv
<1>2. ASSUME NEW r, Same(r, q[x]), q' = [q EXCEPT ![x] = r] PROVE Goal
  <2>1. q'[x] = r /\ \A y \in Queries : y # x => q'[y] = q[y]
    BY <1>1, <1>2, Zenon
  <2> QED BY <1>2, <2>1, Zenon
<1> HIDE DEF Goal
<1>3. CASE WaitFails(x)
  <2> DEFINE f == Failed(q[x])
             r == [f EXCEPT !.wait = "failed"]
  <2>1. q' = [q EXCEPT ![x] = r]
    BY <1>3, Zenon DEF WaitFails
  <2>2. f \in QES /\ Same(f, q[x])
    <3>1. f \in QES
      BY <1>1, RecordSteps DEF Causes, Follows
    <3>2. Same(f, q[x])
      BY <1>1 DEF Failed, QES
    <3> QED BY <3>1, <3>2, Zenon
  <2> HIDE DEF f
  <2>3. Same(r, q[x])
    BY <2>2 DEF QES
  <2> HIDE DEF r, Same
  <2> QED BY <1>2, <2>1, <2>3, Zenon
<1>4. CASE q' = [q EXCEPT ![x].wait = "update"]
  <2> DEFINE r == [q[x] EXCEPT !.wait = "update"]
  <2>1. q' = [q EXCEPT ![x] = r]
    BY <1>4, Zenon
  <2>2. Same(r, q[x])
    BY <1>1 DEF QES
  <2> HIDE DEF r, Same
  <2> QED BY <1>2, <2>1, <2>2, Zenon
<1>5. CASE WaitReady(x)
  <2> DEFINE e == q[x].eos \/ x \in Dml
             n == q[x].ref_count - 1
             r == [q[x] EXCEPT !.eos = e, !.ref_count = n, !.wait = "finish"]
  <2>1. q' = [q EXCEPT ![x] = r]
    BY <1>1, <1>5, Zenon DEF WaitReady
  <2>2. (q[x].eos => e) /\ (x \notin Dml /\ e => q[x].eos)
    BY Zenon
  <2> HIDE DEF e, n
  <2>3. r.eos = e /\ r.lock = q[x].lock /\ r.is_running = q[x].is_running
        /\ r.fragments = q[x].fragments
    BY <1>1, Zenon DEF QES
  <2>4. Same(r, q[x])
    BY <2>2, <2>3
  <2> HIDE DEF r, Same
  <2> QED BY <1>2, <2>1, <2>4, Zenon
<1>6. CASE WaitFinish(x)
  <2> DEFINE st == IF q[x].state = "EXCEPTION" THEN q[x].state ELSE "FINISHED"
             r == [q[x] EXCEPT !.state = st, !.wait = "done"]
  <2>1. q' = [q EXCEPT ![x] = r]
    BY <1>1, <1>6, Zenon DEF WaitFinish
  <2> HIDE DEF st
  <2>2. Same(r, q[x])
    BY <1>1 DEF QES
  <2> HIDE DEF r, Same
  <2> QED BY <1>2, <2>1, <2>2, Zenon
<1> QED BY <1>3, <1>4, <1>5, <1>6 DEF WaitStep, WaitForChildQueries, CoordWait, UpdateCatalog

\* Nobody knows of any query at first
LEMMA InitServer == Init => ServerInv
<1> SUFFICES ASSUME Init PROVE ServerInv
  BY Zenon
<1>1. Inv /\ TypeInv /\ Closer \in Procs /\ Closer \notin Queries
  BY InitInv, ServerAssumption DEF Inv, Procs
<1>2. ASSUME NEW i \in Procs
      PROVE  /\ ShapeOK(stack[i]) /\ Top(i).at \in NewAts \cup {"idle"}
             /\ \A ats, x : ats \subseteq CallAts => ~Has(stack[i], ats, x)
             /\ i \notin Queries => Bottom(stack[i]) = "idle"
  <2>1. PICK l \in NewAts \cup {"idle"}, y \in Queries \cup {None} :
          stack[i] = <<Call(l, y, None)>> /\ (i \notin Queries => l = "idle")
    BY Zenon DEF Init, NewAts
  <2> DEFINE f == Call(l, y, None)
  <2>2. f.at = l /\ l \notin CallAts
    BY Zenon DEF Call, CallAts, NewAts
  <2> HIDE DEF f
  <2>3. /\ Len(stack[i]) = 1 /\ stack[i][1] = f /\ Head(stack[i]) = f
        /\ \A k \in 1..1 : k = 1
        /\ \A k \in 1..(1 - 1) : FALSE
        /\ \A k \in 2..1 : FALSE
    BY <2>1 DEF f
  <2>4. ShapeOK(stack[i])
    BY <2>3, Zenon DEF ShapeOK
  <2> QED BY <2>1, <2>2, <2>3, <2>4, Zenon DEF Top, Has, Bottom
<1>3. ASSUME NEW x \in Queries PROVE Fresh(x)
  <2>1. q[x].is_running = FALSE /\ q[x].fragments = "none"
    BY DEF Init, NewQuery
  <2> QED BY <1>2, <2>1, Zenon DEF Fresh, Init
<1>4. \A x \in Queries : ~At(x, "plan")
  <2> SUFFICES ASSUME NEW x \in Queries PROVE Top(x).at # "plan"
    BY Zenon DEF At
  <2>1. Top(x).at \in NewAts \cup {"idle"}
    BY <1>2, Zenon DEF Procs
  <2> QED BY <2>1, Zenon DEF NewAts
<1>5. SessionOK
  <2>1. map = {} /\ ~session.closed
    BY Zenon DEF Init
  <2>2. Bottom(stack[Closer]) = "idle"
    BY <1>1, <1>2, Zenon
  <2> QED BY <2>1, <2>2, Zenon DEF SessionOK
<1> QED BY <1>2, <1>3, <1>4, <1>5, Zenon DEF ServerInv

\* Every step keeps the invariant
LEMMA NextServer ==
    Inv /\ ServerInv /\ [Next]_vars =>
        ServerInv'
\* The calls made for y include no other query's
<1>ListHas.
  ASSUME NEW y \in Queries, NEW cs \in CallLists(y), NEW ats, NEW x, Has(cs, ats, x)
  PROVE  x = y /\ ("find" \in ats \/ "erase" \in ats)
  BY <1>ListHas, ListFacts DEF Has
\* Thread i makes the step, and is neither planning nor about to register a query after it
<1>ThreadKept.
  ASSUME ServerInv, NEW i \in Procs,
         \A j \in Procs : j # i => stack'[j] = stack[j] /\ Top(j)' = Top(j),
         ShapeOK(stack'[i]), Top(i)'.at \notin NewAts, Top(i)'.at # "plan",
         KeepsFresh(i), KeepsPlanning(i), SessionOK'
  PROVE  ServerInv'
  <2> USE <1>ThreadKept
  <2>1. \A j \in Procs : ShapeOK(stack'[j])
    BY Zenon DEF ServerInv
  <2>2. ASSUME NEW y \in Queries, Top(y)'.at \in NewAts PROVE Fresh(y)'
    <3>1. y # i /\ y \in Procs /\ Top(y).at \in NewAts
      BY <2>2, Zenon DEF Procs
    <3>2. Fresh(y)
      BY <3>1, Zenon DEF ServerInv
    <3>3. /\ y \in session'.inflight \cup session'.todo => y \in session.inflight \cup session.todo
          /\ \A h \in Hosts : y \in locations'[h] => y \in locations[h]
          /\ \A w \in work' : w.x = y => w \in work
          /\ q'[y].is_running => q[y].is_running
          /\ q[y].fragments = "none" => q'[y].fragments = "none"
          /\ Has(stack'[i], CallAts, y) => Has(stack[i], CallAts, y)
      BY <3>1, Zenon DEF KeepsFresh
    <3>4. \A j \in Procs : ~Has(stack'[j], CallAts, y)
      <4> TAKE j \in Procs
      <4>1. ~Has(stack[j], CallAts, y)
        BY <3>2, Zenon DEF Fresh
      <4> QED BY <3>3, <4>1, Zenon
    <3>5. y \notin session'.inflight \cup session'.todo
      BY <3>2, <3>3, Zenon DEF Fresh
    <3>6. (\A h \in Hosts : y \notin locations'[h]) /\ \A w \in work' : w.x # y
      BY <3>2, <3>3, Zenon DEF Fresh
    <3>7. ~q'[y].is_running /\ q'[y].fragments = "none"
      BY <3>2, <3>3, Zenon DEF Fresh
    <3> QED BY <3>4, <3>5, <3>6, <3>7, Zenon DEF Fresh
  <2>3. ASSUME NEW y \in Queries, Top(y)'.at = "plan" PROVE Planning(y)'
    <3>1. y # i /\ y \in Procs /\ At(y, "plan")
      BY <2>3, Zenon DEF Procs, At
    <3>2. Planning(y)
      BY <3>1, Zenon DEF ServerInv
    <3>3. /\ y \in map' /\ q'[y].lock = q[y].lock
          /\ Has(stack'[i], {"cancel", "done"}, y) => Has(stack[i], {"cancel", "done"}, y)
          /\ ~(Top(i)'.at = "erase" /\ Top(i)'.x = y)
      BY <3>1, Zenon DEF KeepsPlanning
    <3>4. \A j \in Procs : ~Has(stack'[j], {"cancel", "done"}, y)
      <4> TAKE j \in Procs
      <4>1. ~Has(stack[j], {"cancel", "done"}, y)
        BY <3>2, Zenon DEF Planning
      <4> QED BY <3>3, <4>1, Zenon
    <3>5. \A j \in Procs : ~(Top(j)'.at = "erase" /\ Top(j)'.x = y)
      <4> TAKE j \in Procs
      <4>1. ~(Top(j).at = "erase" /\ Top(j).x = y)
        BY <3>2, Zenon DEF Planning, At
      <4> QED BY <3>3, <4>1, Zenon
    <3>6. y \in map' /\ q'[y].lock = y
      BY <3>2, <3>3, Zenon DEF Planning
    <3> QED BY <3>4, <3>5, <3>6, Zenon DEF Planning, At
  <2> QED BY <2>1, <2>2, <2>3, Zenon DEF ServerInv, At
\* No thread's calls change
<1>StillKept.
  ASSUME ServerInv, UNCHANGED <<map, stack>>,
         session'.closed = session.closed, session'.inflight = session.inflight,
         session'.todo = session.todo,
         \A h \in Hosts : \A y \in Queries : y \in locations'[h] => y \in locations[h],
         \A w \in work' : w \in work \/ Top(w.x).at \notin NewAts,
         \A y \in Queries : /\ q'[y].lock = q[y].lock
                            /\ q'[y].is_running = q[y].is_running
                            /\ q'[y].fragments = q[y].fragments
  PROVE  ServerInv'
  <2> USE <1>StillKept
  <2>1. (\A j \in Procs : ShapeOK(stack[j]))' /\ SessionOK'
    BY Zenon DEF ServerInv, SessionOK
  <2>2. ASSUME NEW y \in Queries, Top(y).at \in NewAts PROVE Fresh(y)'
    <3>1. Fresh(y)
      BY <2>2, Zenon DEF ServerInv
    <3>2. (\A h \in Hosts : y \notin locations'[h]) /\ \A w \in work' : w.x # y
      BY <2>2, <3>1, Zenon DEF Fresh
    <3>3. ~q'[y].is_running /\ q'[y].fragments = "none"
      BY <3>1, Zenon DEF Fresh
    <3> QED BY <3>1, <3>2, <3>3, Zenon DEF Fresh
  <2>3. ASSUME NEW y \in Queries, At(y, "plan") PROVE Planning(y)'
    <3>1. Planning(y)
      BY <2>3, Zenon DEF ServerInv
    <3> QED BY <3>1, Zenon DEF Planning, At, Top
  <2> QED BY <2>1, <2>2, <2>3, Zenon DEF ServerInv, At, Top
\* A step of a call, or of a thread that does not close the session
<1>SessionKept.
  ASSUME SessionOK, map' \subseteq map, session'.closed = session.closed,
         session'.todo = session.todo, map' \subseteq session'.inflight,
         Bottom(stack'[Closer]) = Bottom(stack[Closer]),
         \A x \in map' : Has(stack[Closer], {"erase"}, x) => Has(stack'[Closer], {"erase"}, x)
  PROVE  SessionOK'
  <2> USE <1>SessionKept
  <2>1. /\ Bottom(stack'[Closer]) \in {"idle", "closing", "end"}
        /\ Bottom(stack'[Closer]) # "idle" => session'.closed
        /\ Bottom(stack'[Closer]) = "end" => session'.todo = {}
    BY Zenon DEF SessionOK
  <2>2. session'.closed =>
          \A x \in map' : x \in session'.todo \/ Has(stack'[Closer], {"erase"}, x)
    BY Zenon DEF SessionOK
  <2> QED BY <2>1, <2>2, Zenon DEF SessionOK
\* A query's own thread, between its calls: it may unregister the query
<1>OwnStep.
  ASSUME Inv, ServerInv, NEW x \in Queries, Top(x).at \notin CallAts,
         NEW l \in BaseAts, l # "plan",
         NEW cs \in CallLists(x), cs # <<>> => l \in LowerAts,
         stack' = Calls(x, l, cs) \/ (cs = <<>> /\ stack' = Goto(x, l)),
         UNCHANGED <<map, session, work>>,
         \A y \in Queries : y # x => q'[y] = q[y],
         \A h \in Hosts : \A y \in Queries : y # x /\ y \in locations'[h] => y \in locations[h]
  PROVE  ServerInv'
  <2> USE <1>OwnStep
  <2>1. x \in Procs /\ Closer \in Procs /\ Closer # x /\ TypeInv /\ ShapeOK(stack[x])
    BY ServerAssumption, Zenon DEF Procs, Inv, ServerInv
  <2>2. l \notin CallAts /\ l \notin NewAts /\ GoesOn(Top(x).at, l)
    BY Zenon DEF BaseAts, CallAts, NewAts, GoesOn
  <2>3. /\ \A j \in Procs : j # x => stack'[j] = stack[j] /\ Top(j)' = Top(j)
        /\ ShapeOK(stack'[x])
        /\ \/ Top(x)'.at = l /\ Top(x)'.x = Top(x).x
           \/ cs # <<>> /\ Top(x)'.at = "find" /\ Top(x)'.x = x
        /\ \A ats, y : Has(stack[x], ats, y) <=>
             (Top(x).at \in ats /\ Top(x).x = y) \/ Has(Tail(stack[x]), ats, y)
        /\ \A ats, y : Has(stack'[x], ats, y) <=>
             \/ Has(cs, ats, y)
             \/ l \in ats /\ Top(x).x = y
             \/ Has(Tail(stack[x]), ats, y)
    BY <2>1, <2>2, AfterCalls
  <2>4. Top(x)'.at \notin NewAts /\ Top(x)'.at # "plan" /\ Top(x)'.at # "erase"
    BY <2>2, <2>3, Zenon DEF NewAts, CallAts
  <2>5. \A y \in Queries : y # x /\ Has(stack'[x], CallAts, y) => Has(stack[x], CallAts, y)
    BY <2>2, <2>3, <1>ListHas
  <2>6. \A y \in Queries : Has(stack'[x], {"cancel", "done"}, y) =>
           Has(stack[x], {"cancel", "done"}, y)
    <3>1. l \notin {"cancel", "done"} /\ \A y \in Queries : ~Has(cs, {"cancel", "done"}, y)
      BY <2>2, <1>ListHas, Zenon DEF CallAts
    <3> QED BY <2>3, <3>1, Zenon
  <2>7. KeepsFresh(x)
    BY <2>5, Zenon DEF KeepsFresh
  <2>8. KeepsPlanning(x)
    BY <2>4, <2>6, Zenon DEF KeepsPlanning, ServerInv, Planning
  <2>9. SessionOK'
    <3>1. stack'[Closer] = stack[Closer]
      BY <2>1, <2>3, Zenon
    <3> QED BY <3>1, <1>SessionKept, Zenon DEF ServerInv, SessionOK
  <2> QED BY <2>1, <2>3, <2>4, <2>7, <2>8, <2>9, <1>ThreadKept, Zenon
\* Another thread of the server, between its calls: it may cancel or unregister query y
<1>ServerStep.
  ASSUME Inv, ServerInv, NEW i \in {Other, Closer, Worker}, Top(i).at \notin CallAts,
         NEW l \in {"idle", "closing"}, NEW y \in Queries, Top(y).at \notin NewAts,
         NEW cs \in CallLists(y), stack' = Calls(i, l, cs),
         UNCHANGED <<map, q, locations>>, session'.inflight = session.inflight,
         session'.todo \subseteq session.todo, work' \subseteq work, SessionOK'
  PROVE  ServerInv'
  <2> USE <1>ServerStep
  <2>1. i \in Procs /\ i \notin Queries /\ TypeInv /\ ShapeOK(stack[i])
    BY ServerAssumption, Zenon DEF Procs, Inv, ServerInv
  <2>2. /\ l \notin CallAts /\ l \notin NewAts /\ GoesOn(Top(i).at, l) /\ l \in LowerAts
        /\ l \in CallAts \cup NewAts \cup BaseAts /\ l # "plan" /\ l # "erase"
    BY Zenon DEF BaseAts, CallAts, NewAts, LowerAts, GoesOn
  <2>3. /\ \A j \in Procs : j # i => stack'[j] = stack[j] /\ Top(j)' = Top(j)
        /\ ShapeOK(stack'[i])
        /\ \/ Top(i)'.at = l /\ Top(i)'.x = Top(i).x
           \/ cs # <<>> /\ Top(i)'.at = "find" /\ Top(i)'.x = y
        /\ \A ats, x : Has(stack[i], ats, x) <=>
             (Top(i).at \in ats /\ Top(i).x = x) \/ Has(Tail(stack[i]), ats, x)
        /\ \A ats, x : Has(stack'[i], ats, x) <=>
             \/ Has(cs, ats, x)
             \/ l \in ats /\ Top(i).x = x
             \/ Has(Tail(stack[i]), ats, x)
    BY <2>1, <2>2, AfterCalls, Zenon
  <2>4. Top(i)'.at \notin NewAts /\ Top(i)'.at # "plan" /\ Top(i)'.at # "erase"
    BY <2>2, <2>3, Zenon DEF NewAts
  <2>5. \A x \in Queries : x # y /\ Has(stack'[i], CallAts, x) => Has(stack[i], CallAts, x)
    BY <2>2, <2>3, <1>ListHas
  <2>6. \A x \in Queries : Has(stack'[i], {"cancel", "done"}, x) =>
           Has(stack[i], {"cancel", "done"}, x)
    <3>1. l \notin {"cancel", "done"} /\ \A x \in Queries : ~Has(cs, {"cancel", "done"}, x)
      BY <2>2, <1>ListHas, Zenon DEF CallAts
    <3> QED BY <2>3, <3>1, Zenon
  <2>7. KeepsFresh(i)
    BY <2>5, Zenon DEF KeepsFresh
  <2>8. KeepsPlanning(i)
    BY <2>4, <2>6, Zenon DEF KeepsPlanning, ServerInv, Planning
  <2> QED BY <2>1, <2>3, <2>4, <2>7, <2>8, <1>ThreadKept
\* The thread that closes the session, when it makes no call
<1>CloserStep.
  ASSUME Inv, ServerInv, Top(Closer).at \notin CallAts,
         NEW l \in {"closing", "end"}, stack' = Goto(Closer, l),
         UNCHANGED <<map, q, locations, work>>, session'.inflight = session.inflight,
         session'.todo \subseteq session.inflight \cup session.todo, SessionOK'
  PROVE  ServerInv'
  <2> USE <1>CloserStep
  <2> DEFINE i == Closer
  <2>1. i \in Procs /\ i \notin Queries /\ TypeInv /\ ShapeOK(stack[i])
    BY ServerAssumption, Zenon DEF Procs, Inv, ServerInv
  <2>2. /\ l \notin CallAts /\ l \notin NewAts /\ GoesOn(Top(i).at, l)
        /\ l \in CallAts \cup NewAts \cup BaseAts /\ l # "plan" /\ l # "erase"
    BY Zenon DEF BaseAts, CallAts, NewAts, GoesOn
  <2>3. /\ \A j \in Procs : j # i => stack'[j] = stack[j] /\ Top(j)' = Top(j)
        /\ ShapeOK(stack'[i])
        /\ Top(i)'.at = l /\ Top(i)'.x = Top(i).x
        /\ \A ats, x : Has(stack[i], ats, x) <=>
             (Top(i).at \in ats /\ Top(i).x = x) \/ Has(Tail(stack[i]), ats, x)
        /\ \A ats, x : Has(stack'[i], ats, x) <=>
             (l \in ats /\ Top(i).x = x) \/ Has(Tail(stack[i]), ats, x)
    BY <2>1, <2>2, AfterGoto, Zenon
  <2>4. \A x \in Queries : /\ Has(stack'[i], CallAts, x) => Has(stack[i], CallAts, x)
                           /\ Has(stack'[i], {"cancel", "done"}, x) =>
                                Has(stack[i], {"cancel", "done"}, x)
    BY <2>2, <2>3, Zenon DEF CallAts
  <2>5. KeepsFresh(i)
    BY <2>4, Zenon DEF KeepsFresh
  <2>6. KeepsPlanning(i)
    BY <2>2, <2>3, <2>4, Zenon DEF KeepsPlanning, ServerInv, Planning
  <2> QED BY <2>1, <2>2, <2>3, <2>5, <2>6, <1>ThreadKept, Zenon
\* A thread within a call: it erases a query only where the map loses it
<1>CallKept.
  ASSUME Inv, ServerInv, NEW i \in Procs,
         \A j \in Procs : j # i => stack'[j] = stack[j] /\ Top(j)' = Top(j),
         ShapeOK(stack'[i]), Top(i)'.at \in LowerAts \cup CallAts,
         KeepsFresh(i), KeepsPlanning(i), Bottom(stack'[i]) = Bottom(stack[i]),
         map' \subseteq map, map' \subseteq session'.inflight,
         session'.closed = session.closed, session'.todo = session.todo,
         \A x \in map' : Has(stack[i], {"erase"}, x) => Has(stack'[i], {"erase"}, x)
  PROVE  ServerInv'
  <2> USE <1>CallKept
  <2>1. Top(i)'.at \notin NewAts /\ Top(i)'.at # "plan"
    BY Zenon DEF LowerAts, CallAts, NewAts
  <2>2. Closer \in Procs
    BY Zenon DEF Procs
  <2>3. SessionOK'
    BY <2>2, <1>SessionKept, Zenon DEF ServerInv
  <2> QED BY <2>1, <2>3, <1>ThreadKept, Zenon
\* GetQueryExecState
<1>FindKept.
  ASSUME Inv, ServerInv, NEW i \in Procs, Find(i)
  PROVE  ServerInv'
  <2> USE <1>FindKept
  <2> DEFINE x == Top(i).x
  <2>1. TypeInv /\ ShapeOK(stack[i]) /\ Top(i).at = "find" /\ map \subseteq session.inflight
    BY Zenon DEF Find, At, Inv, ServerInv, SessionOK
  <2>2. x \in Queries
    BY <2>1, TopOK, Zenon DEF CallAts
  <2>3. UNCHANGED <<map, q, session, locations, work>>
    BY Zenon DEF Find
  <2>4. CASE x \in map
    <3>1. stack' = Goto(i, "lock")
      BY <2>4, Zenon DEF Find
    <3>2. "lock" \in CallAts \cup NewAts \cup BaseAts /\ GoesOn("find", "lock") /\ "lock" \in CallAts
      BY Zenon DEF CallAts, GoesOn
    <3>3. /\ \A j \in Procs : j # i => stack'[j] = stack[j] /\ Top(j)' = Top(j)
          /\ ShapeOK(stack'[i])
          /\ Top(i)'.at = "lock" /\ Top(i)'.x = Top(i).x
          /\ Bottom(stack'[i]) = IF "lock" \in CallAts THEN Bottom(stack[i]) ELSE "lock"
          /\ \A ats, y : Has(stack[i], ats, y) <=>
               (Top(i).at \in ats /\ Top(i).x = y) \/ Has(Tail(stack[i]), ats, y)
          /\ \A ats, y : Has(stack'[i], ats, y) <=>
               ("lock" \in ats /\ Top(i).x = y) \/ Has(Tail(stack[i]), ats, y)
      BY <2>1, <3>1, <3>2, AfterGoto, Zenon
    <3>4. \A y \in Queries :
            /\ Has(stack'[i], CallAts, y) => Has(stack[i], CallAts, y)
            /\ Has(stack'[i], {"cancel", "done"}, y) => Has(stack[i], {"cancel", "done"}, y)
      BY <2>1, <3>3, Zenon DEF CallAts
    <3>5. \A y : Has(stack[i], {"erase"}, y) => Has(stack'[i], {"erase"}, y)
      BY <2>1, <3>3, Zenon
    <3>6. KeepsFresh(i)
      BY <2>3, <3>4, Zenon DEF KeepsFresh
    <3>7. KeepsPlanning(i)
      BY <2>3, <3>3, <3>4, Zenon DEF KeepsPlanning, ServerInv, Planning
    <3> QED BY <2>1, <2>3, <3>2, <3>3, <3>5, <3>6, <3>7, <1>CallKept, Zenon
  <2>5. CASE x \notin map
    <3>1. stack' = Return(i)
      BY <2>5, Zenon DEF Find
    <3>2. Top(i).at \in CallAts
      BY <2>1, Zenon DEF CallAts
    <3>3. /\ \A j \in Procs : j # i => stack'[j] = stack[j] /\ Top(j)' = Top(j)
          /\ ShapeOK(stack'[i])
          /\ Top(i)'.at \in LowerAts
          /\ Top(i)'.at = "erase" =>
               Top(i).at \in {"find", "lock", "cancel"} /\ Top(i).x = Top(i)'.x
          /\ Bottom(stack'[i]) = Bottom(stack[i])
          /\ \A ats, y : Has(stack[i], ats, y) <=>
               (Top(i).at \in ats /\ Top(i).x = y) \/ Has(stack'[i], ats, y)
      BY <2>1, <3>1, <3>2, AfterReturn, Zenon
    <3>4. \A y : Has(stack[i], {"erase"}, y) => Has(stack'[i], {"erase"}, y)
      BY <2>1, <3>3, Zenon
    <3>5. KeepsFresh(i)
      BY <2>3, <3>3, ZenonT(60) DEF KeepsFresh
    <3>6. KeepsPlanning(i)
      BY <2>3, <2>5, <3>3 DEF KeepsPlanning, ServerInv, Planning
    <3> QED BY <2>1, <2>3, <3>3, <3>4, <3>5, <3>6, <1>CallKept, Zenon
  <2> QED BY <2>4, <2>5, Zenon
\* The query's lock_ is taken: the query is not being planned
<1>LockKept.
  ASSUME Inv, ServerInv, NEW i \in Procs, Lock(i)
  PROVE  ServerInv'
  <2> USE <1>LockKept
  <2> DEFINE x == Top(i).x
  <2>1. TypeInv /\ ShapeOK(stack[i]) /\ Top(i).at = "lock" /\ map \subseteq session.inflight
    BY Zenon DEF Lock, At, Inv, ServerInv, SessionOK
  <2>2. x \in Queries /\ q[x].lock = None
    BY <2>1, TopOK, Zenon DEF CallAts, Lock, Free
  <2>3. UNCHANGED <<map, session, locations, work>> /\ stack' = Goto(i, "cancel")
    BY Zenon DEF Lock
  <2>4. /\ \A y \in Queries : y # x => q'[y] = q[y]
        /\ q'[x].is_running = q[x].is_running /\ q'[x].fragments = q[x].fragments
    <3>1. q' = [q EXCEPT ![x] = [q[x] EXCEPT !.lock = i]]
      BY Zenon DEF Lock
    <3>2. q[x] \in QES /\ q \in [Queries -> QES]
      BY <2>1, <2>2, Zenon DEF TypeInv
    <3>3. q'[x] = [q[x] EXCEPT !.lock = i] /\ \A y \in Queries : y # x => q'[y] = q[y]
      BY <2>2, <3>1, <3>2, Zenon
    <3> QED BY <3>2, <3>3, Zenon DEF QES
  <2>5. /\ "cancel" \in CallAts \cup NewAts \cup BaseAts /\ GoesOn("lock", "cancel")
        /\ "cancel" \in CallAts
    BY Zenon DEF CallAts, GoesOn
  <2>6. /\ \A j \in Procs : j # i => stack'[j] = stack[j] /\ Top(j)' = Top(j)
        /\ ShapeOK(stack'[i])
        /\ Top(i)'.at = "cancel" /\ Top(i)'.x = Top(i).x
        /\ Bottom(stack'[i]) = IF "cancel" \in CallAts THEN Bottom(stack[i]) ELSE "cancel"
        /\ \A ats, y : Has(stack[i], ats, y) <=>
             (Top(i).at \in ats /\ Top(i).x = y) \/ Has(Tail(stack[i]), ats, y)
        /\ \A ats, y : Has(stack'[i], ats, y) <=>
             ("cancel" \in ats /\ Top(i).x = y) \/ Has(Tail(stack[i]), ats, y)
    BY <2>1, <2>3, <2>5, AfterGoto, Zenon
  <2>7. \A y \in Queries : At(y, "plan") => y # x /\ y \in map
    <3> SUFFICES ASSUME NEW y \in Queries, At(y, "plan") PROVE y # x /\ y \in map
      BY Zenon
    <3>1. q[y].lock = y /\ y \in map
      BY Zenon DEF ServerInv, Planning
    <3>2. y # None
      BY ServerAssumption, Zenon DEF Procs
    <3> QED BY <2>2, <3>1, <3>2, Zenon
  <2>8. \A y \in Queries : Has(stack'[i], CallAts, y) => Has(stack[i], CallAts, y)
    BY <2>1, <2>6, Zenon DEF CallAts
  <2>9. \A y : Has(stack[i], {"erase"}, y) => Has(stack'[i], {"erase"}, y)
    BY <2>1, <2>6, Zenon
  <2>10. KeepsFresh(i)
    BY <2>3, <2>4, <2>8, Zenon DEF KeepsFresh
  <2>11. KeepsPlanning(i)
    BY <2>3, <2>4, <2>6, <2>7, Zenon DEF KeepsPlanning
  <2> QED BY <2>1, <2>3, <2>5, <2>6, <2>9, <2>10, <2>11, <1>CallKept, Zenon
\* QueryExecState::Cancel cancels a running child, which is registered
<1>CancelChildKept.
  ASSUME Inv, ServerInv, NEW i \in Procs, At(i, "cancel"), NEW c \in ChildrenOf(Top(i).x),
         q[c].is_running, q' = [q EXCEPT ![c].is_running = FALSE],
         stack' = Calls(i, "cancel", IF Rejected THEN <<>>
                          ELSE CancelInternal(c, None) \o UnregisterQuery(c, None)),
         UNCHANGED <<map, session, locations, work>>
  PROVE  ServerInv'
  <2> USE <1>CancelChildKept
  <2> DEFINE x == Top(i).x
             cs == IF Rejected THEN <<>>
                   ELSE CancelInternal(c, None) \o UnregisterQuery(c, None)
  <2>1. TypeInv /\ ShapeOK(stack[i]) /\ Top(i).at = "cancel" /\ map \subseteq session.inflight
    BY Zenon DEF At, Inv, ServerInv, SessionOK
  <2>2. x \in Queries
    BY <2>1, TopOK, Zenon DEF CallAts
  <2>3. c \in Queries
    <3>1. q[x] \in QES
      BY <2>1, <2>2, Zenon DEF TypeInv
    <3>2. q[x].child_queries \in Seq(Queries)
      BY <3>1, Zenon DEF QES
    <3> QED BY <3>2 DEF ChildrenOf, Range
  <2>4. Top(c).at \notin NewAts
    BY <2>3, Zenon DEF ServerInv, Fresh
  <2>5. cs \in CallLists(c)
    BY <2>3, InLists, Zenon DEF Causes
  <2>6. stack' = Calls(i, "cancel", cs)
    BY Zenon
  <2> HIDE DEF cs
  <2>7. \A y \in Queries : /\ q'[y].lock = q[y].lock /\ q'[y].fragments = q[y].fragments
                           /\ q'[y].is_running => q[y].is_running
    <3>1. q \in [Queries -> QES] /\ q[c] \in QES
      BY <2>1, <2>3, Zenon DEF TypeInv
    <3>2. q' = [q EXCEPT ![c] = [q[c] EXCEPT !.is_running = FALSE]]
      BY Zenon
    <3>3. q'[c] = [q[c] EXCEPT !.is_running = FALSE] /\ \A y \in Queries : y # c => q'[y] = q[y]
      BY <2>3, <3>1, <3>2, Zenon
    <3>4. q'[c].lock = q[c].lock /\ q'[c].fragments = q[c].fragments /\ ~q'[c].is_running
      BY <3>1, <3>3 DEF QES
    <3> QED BY <3>3, <3>4, Zenon
  <2>8. /\ "cancel" \in CallAts \cup NewAts \cup BaseAts /\ GoesOn("cancel", "cancel")
        /\ "cancel" \in CallAts /\ "cancel" \in LowerAts /\ "find" \in CallAts
    BY Zenon DEF CallAts, GoesOn, LowerAts
  <2>9. /\ \A j \in Procs : j # i => stack'[j] = stack[j] /\ Top(j)' = Top(j)
        /\ ShapeOK(stack'[i])
        /\ \/ Top(i)'.at = "cancel" /\ Top(i)'.x = Top(i).x
           \/ cs # <<>> /\ Top(i)'.at = "find" /\ Top(i)'.x = c
        /\ Bottom(stack'[i]) = IF "cancel" \in CallAts THEN Bottom(stack[i]) ELSE "cancel"
        /\ \A ats, y : Has(stack[i], ats, y) <=>
             (Top(i).at \in ats /\ Top(i).x = y) \/ Has(Tail(stack[i]), ats, y)
        /\ \A ats, y : Has(stack'[i], ats, y) <=>
             \/ Has(cs, ats, y)
             \/ "cancel" \in ats /\ Top(i).x = y
             \/ Has(Tail(stack[i]), ats, y)
    BY <2>1, <2>3, <2>5, <2>6, <2>8, AfterCalls
  <2>10. \A y \in Queries : y # c /\ Has(stack'[i], CallAts, y) => Has(stack[i], CallAts, y)
    BY <2>1, <2>3, <2>5, <2>9, <1>ListHas
  <2>11. \A y \in Queries : Has(stack'[i], {"cancel", "done"}, y) =>
           Has(stack[i], {"cancel", "done"}, y)
    <3>1. \A y \in Queries : ~Has(cs, {"cancel", "done"}, y)
      BY <2>3, <2>5, <1>ListHas, Zenon
    <3> QED BY <2>1, <2>9, <3>1, Zenon
  <2>12. \A y : Has(stack[i], {"erase"}, y) => Has(stack'[i], {"erase"}, y)
    BY <2>1, <2>9, Zenon
  <2>13. KeepsFresh(i)
    BY <2>4, <2>7, <2>10, Zenon DEF KeepsFresh
  <2>14. KeepsPlanning(i)
    BY <2>7, <2>9, <2>11, Zenon DEF KeepsPlanning, ServerInv, Planning
  <2>15. Top(i)'.at \in LowerAts \cup CallAts
    BY <2>8, <2>9, Zenon
  <2> QED BY <2>1, <2>8, <2>9, <2>12, <2>13, <2>14, <2>15, <1>CallKept
\* A call returns that changes at most the QueryExecState of its query, which is registered
\* and not being planned
<1>ReturnKept.
  ASSUME Inv, ServerInv, NEW i \in Procs, Top(i).at \in CallAts, stack' = Return(i),
         \A y \in Queries : y # Top(i).x => /\ q'[y].lock = q[y].lock
                                            /\ q'[y].is_running = q[y].is_running
                                            /\ q'[y].fragments = q[y].fragments,
         At(Top(i).x, "plan") => q'[Top(i).x].lock = q[Top(i).x].lock
                                 /\ Top(i).at \notin {"find", "cancel"},
         Top(i).at # "lock", Top(i).at = "erase" => Top(i).x \notin map,
         map' = map, work' = work,
         \A h \in Hosts : \A y \in Queries : y \in locations'[h] => y \in locations[h],
         session'.closed = session.closed, session'.todo = session.todo,
         session'.inflight \subseteq session.inflight, map \subseteq session'.inflight
  PROVE  ServerInv'
  <2> USE <1>ReturnKept
  <2> DEFINE x == Top(i).x
  <2>1. TypeInv /\ ShapeOK(stack[i]) /\ map \subseteq session.inflight
    BY Zenon DEF Inv, ServerInv, SessionOK
  <2>2. x \in Queries
    BY <2>1, TopOK, Zenon
  <2>3. /\ \A j \in Procs : j # i => stack'[j] = stack[j] /\ Top(j)' = Top(j)
        /\ ShapeOK(stack'[i])
        /\ Top(i)'.at \in LowerAts
        /\ Top(i)'.at = "erase" =>
             Top(i).at \in {"find", "lock", "cancel"} /\ Top(i).x = Top(i)'.x
        /\ Bottom(stack'[i]) = Bottom(stack[i])
        /\ \A ats, y : Has(stack[i], ats, y) <=>
             (Top(i).at \in ats /\ Top(i).x = y) \/ Has(stack'[i], ats, y)
    BY <2>1, AfterReturn, Zenon
  <2>4. \A y \in map' : Has(stack[i], {"erase"}, y) => Has(stack'[i], {"erase"}, y)
    BY <2>3, Zenon
  <2>5. Top(x).at \notin NewAts
    <3>1. Has(stack[i], CallAts, x)
      BY <2>3, Zenon
    <3> QED BY <2>2, <3>1, Zenon DEF ServerInv, Fresh
  <2>6. KeepsFresh(i)
    BY <2>3, <2>5, Zenon DEF KeepsFresh
  <2>7. KeepsPlanning(i)
    <3> SUFFICES ASSUME NEW y \in Queries, y # i, At(y, "plan")
                 PROVE  /\ y \in map' /\ q'[y].lock = q[y].lock
                        /\ Has(stack'[i], {"cancel", "done"}, y) =>
                             Has(stack[i], {"cancel", "done"}, y)
                        /\ ~(Top(i)'.at = "erase" /\ Top(i)'.x = y)
      BY Zenon DEF KeepsPlanning
    <3>1. y \in map
      BY Zenon DEF ServerInv, Planning
    <3> QED BY <2>3, <3>1, Zenon
  <2> QED BY <2>1, <2>3, <2>4, <2>6, <2>7, <1>CallKept, Zenon
\* QueryExecState::Cancel
<1>CancelKept.
  ASSUME Inv, ServerInv, NEW i \in Procs, Cancel(i)
  PROVE  ServerInv'
  <2> USE <1>CancelKept
  <2> DEFINE x == Top(i).x
  <2>1. TypeInv /\ Top(i).at = "cancel" /\ Top(i).at \in CallAts /\ map \subseteq session.inflight
    BY Zenon DEF Cancel, At, Inv, ServerInv, SessionOK, CallAts
  <2>2. x \in Queries
    BY <2>1, TopOK, Zenon
  <2>3. UNCHANGED <<map, session, locations, work>> /\ At(i, "cancel")
    BY Zenon DEF Cancel
  <2>4. ASSUME NEW c \in ChildrenOf(x), q[c].is_running, q' = [q EXCEPT ![c].is_running = FALSE],
               stack' = Calls(i, "cancel", IF Rejected THEN <<>>
                                ELSE CancelInternal(c, None) \o UnregisterQuery(c, None))
        PROVE  ServerInv'
    BY <2>3, <2>4, <1>CancelChildKept, Zenon
  <2>5. CASE q' = [q EXCEPT ![x] = Cancelled(@, Top(i).cause)] /\ stack' = Return(i)
    <3>1. \A y \in Queries : y # x => q'[y] = q[y]
      BY <2>1, <2>5, Zenon DEF TypeInv
    <3>2. ~At(x, "plan")
      <4>1. Has(stack[i], {"cancel", "done"}, x)
        <5>1. Has(stack[i], {"cancel", "done"}, x) <=>
                (Top(i).at \in {"cancel", "done"} /\ Top(i).x = x)
                \/ Has(Tail(stack[i]), {"cancel", "done"}, x)
          <6>1. stack[i] \in Seq(Frame) /\ stack[i] # <<>> /\ Top(i) = Head(stack[i])
            BY <2>1, TopOK, Zenon DEF StackOK
          <6> QED BY <6>1, HasHead, Zenon
        <5> QED BY <2>1, <5>1, Zenon
      <4> QED BY <2>2, <4>1, Zenon DEF ServerInv, Planning
    <3> QED BY <2>1, <2>2, <2>3, <2>5, <3>1, <3>2, <1>ReturnKept, Zenon
  <2> QED BY <2>4, <2>5, Zenon DEF Cancel
\* The erasure from the map
<1>EraseKept.
  ASSUME Inv, ServerInv, NEW i \in Procs, Erase(i)
  PROVE  ServerInv'
  <2> USE <1>EraseKept
  <2> DEFINE x == Top(i).x
  <2>1. TypeInv /\ ShapeOK(stack[i]) /\ Top(i).at = "erase" /\ map \subseteq session.inflight
    BY Zenon DEF Erase, At, Inv, ServerInv, SessionOK
  <2>2. x \in Queries /\ Top(i).at \in CallAts
    BY <2>1, TopOK, Zenon DEF CallAts
  <2>3. UNCHANGED <<session, locations, work>>
    BY Zenon DEF Erase
  <2>4. CASE x \in map
    <3>1. stack' = Goto(i, "done") /\ q' = q /\ map' = map \ {x}
      BY <2>4, Zenon DEF Erase
    <3>2. "done" \in CallAts \cup NewAts \cup BaseAts /\ GoesOn("erase", "done") /\ "done" \in CallAts
      BY Zenon DEF CallAts, GoesOn
    <3>3. /\ \A j \in Procs : j # i => stack'[j] = stack[j] /\ Top(j)' = Top(j)
          /\ ShapeOK(stack'[i])
          /\ Top(i)'.at = "done" /\ Top(i)'.x = Top(i).x
          /\ Bottom(stack'[i]) = IF "done" \in CallAts THEN Bottom(stack[i]) ELSE "done"
          /\ \A ats, y : Has(stack[i], ats, y) <=>
               (Top(i).at \in ats /\ Top(i).x = y) \/ Has(Tail(stack[i]), ats, y)
          /\ \A ats, y : Has(stack'[i], ats, y) <=>
               ("done" \in ats /\ Top(i).x = y) \/ Has(Tail(stack[i]), ats, y)
      BY <2>1, <3>1, <3>2, AfterGoto, Zenon
    <3>4. \A y \in Queries : Has(stack'[i], CallAts, y) => Has(stack[i], CallAts, y)
      BY <2>2, <3>3, Zenon
    <3>5. \A y \in map' : Has(stack[i], {"erase"}, y) => Has(stack'[i], {"erase"}, y)
      BY <3>1, <3>3, Zenon
    <3>6. KeepsFresh(i)
      BY <2>3, <3>1, <3>4, Zenon DEF KeepsFresh
    <3>7. \A y \in Queries : At(y, "plan") => y # x /\ y \in map
      BY <2>1, Zenon DEF ServerInv, Planning, At
    <3>8. KeepsPlanning(i)
      BY <3>1, <3>3, <3>7, Zenon DEF KeepsPlanning
    <3> QED BY <2>1, <2>3, <3>1, <3>2, <3>3, <3>5, <3>6, <3>8, <1>CallKept, Zenon
  <2>5. CASE x \notin map
    <3>1. stack' = Return(i) /\ map' = map
      BY <2>5, Zenon DEF Erase
    <3>2. (\A y \in Queries : y # x => q'[y] = q[y]) /\ q'[x].lock = q[x].lock
      <4> DEFINE res == IF i = x THEN "BAD" ELSE q[x].result
      <4>1. q' = [q EXCEPT ![x] = [q[x] EXCEPT !.result = res]]
        BY <2>5, Zenon DEF Erase
      <4>2. q \in [Queries -> QES] /\ q[x] \in QES
        BY <2>1, <2>2, Zenon DEF TypeInv
      <4> HIDE DEF res
      <4>3. q'[x] = [q[x] EXCEPT !.result = res] /\ \A y \in Queries : y # x => q'[y] = q[y]
        BY <2>2, <4>1, <4>2, ZenonT(60)
      <4> QED BY <4>2, <4>3, Zenon DEF QES
    <3> QED BY <2>1, <2>2, <2>3, <2>5, <3>1, <3>2, <1>ReturnKept, Zenon
  <2> QED BY <2>4, <2>5, Zenon
\* The end of UnregisterQuery
<1>DoneKept.
  ASSUME Inv, ServerInv, NEW i \in Procs, Done(i)
  PROVE  ServerInv'
  <2> USE <1>DoneKept
  <2> DEFINE x == Top(i).x
  <2>1. TypeInv /\ Top(i).at = "done" /\ Top(i).at \in CallAts /\ map \subseteq session.inflight
        /\ session \in Session
    BY Zenon DEF Done, At, Inv, ServerInv, SessionOK, CallAts, TypeInv
  <2>2. x \in Queries
    BY <2>1, TopOK, Zenon
  <2>3. x \notin map
    BY <2>1, <2>2, Zenon DEF Inv, Finishing, At
  <2>4. map' = map /\ work' = work /\ stack' = Return(i)
    BY Zenon DEF Done
  <2>5. /\ session'.closed = session.closed /\ session'.todo = session.todo
        /\ session'.inflight = session.inflight \ {x}
    BY <2>1, Zenon DEF Done, Session
  <2>6. \A h \in Hosts : \A y \in Queries : y \in locations'[h] => y \in locations[h]
    BY Zenon DEF Done
  <2>7. (\A y \in Queries : y # x => q'[y] = q[y]) /\ q'[x].lock = q[x].lock
    <3> DEFINE rel == IF q[x].coord = None THEN q[x].released ELSE q[x].released + 1
    <3>1. q' = [q EXCEPT ![x] = [q[x] EXCEPT !.ref_count = q[x].ref_count + 1, !.released = rel]]
      <4>1. q' = [q EXCEPT ![x].ref_count = @ + 1,
                           ![x].released = IF q[x].coord = None THEN @ ELSE @ + 1]
        BY Zenon DEF Done
      <4>2. q \in [Queries -> QES] /\ q[x] \in QES
        BY <2>1, <2>2, Zenon DEF TypeInv
      <4> QED BY <2>2, <4>1, <4>2, Zenon DEF QES
    <3>2. q \in [Queries -> QES] /\ q[x] \in QES
      BY <2>1, <2>2, Zenon DEF TypeInv
    <3> HIDE DEF rel
    <3>3. /\ q'[x] = [q[x] EXCEPT !.ref_count = q[x].ref_count + 1, !.released = rel]
          /\ \A y \in Queries : y # x => q'[y] = q[y]
      BY <2>2, <3>1, <3>2, Zenon
    <3> QED BY <3>2, <3>3, Zenon DEF QES
  <2>8. map \subseteq session'.inflight
    BY <2>1, <2>3, <2>5, Zenon
  <2> QED BY <2>1, <2>2, <2>4, <2>5, <2>6, <2>7, <2>8, <1>ReturnKept
\* A query's own thread goes on, and unregisters the query at most
<1>OwnKept.
  ASSUME Inv, ServerInv, NEW x \in Queries, Top(x).at \notin CallAts,
         UNCHANGED <<map, session, work>>,
         \A y \in Queries : y # x => q'[y] = q[y],
         \A h \in Hosts : \A y \in Queries : y # x /\ y \in locations'[h] => y \in locations[h],
         \/ \E l \in BaseAts : l # "plan" /\ stack' = Goto(x, l)
         \/ \E l \in BaseAts : \E cause \in Causes :
              l \in LowerAts /\ stack' = Calls(x, l, UnregisterQuery(x, cause))
  PROVE  ServerInv'
  <2> USE <1>OwnKept
  <2>1. ASSUME NEW l \in BaseAts, l # "plan", stack' = Goto(x, l) PROVE ServerInv'
    <3>1. <<>> \in CallLists(x)
      BY Zenon DEF CallLists
    <3> QED BY <2>1, <3>1, <1>OwnStep, Zenon
  <2>2. ASSUME NEW l \in BaseAts, NEW cause \in Causes, l \in LowerAts,
               stack' = Calls(x, l, UnregisterQuery(x, cause))
        PROVE  ServerInv'
    <3>1. UnregisterQuery(x, cause) \in CallLists(x) /\ l # "plan"
      BY <2>2, InLists, ZenonT(60) DEF LowerAts
    <3> QED BY <2>2, <3>1, <1>OwnStep, Zenon
  <2> QED BY <2>1, <2>2, Zenon
\* Execute, once the query is registered
<1>ExecuteKept.
  ASSUME Inv, ServerInv, NEW x \in Queries,
         Plan(x) \/ Exec(x) \/ Launch(x) \/ Locate(x) \/ Started(x) \/ ExecuteReturns(x)
  PROVE  ServerInv'
  <2> USE <1>ExecuteKept
  <2>1. q \in [Queries -> QES] /\ "ERROR" \in Causes
    BY Zenon DEF Inv, TypeInv, Causes
  <2>2. Top(x).at \notin CallAts /\ UNCHANGED <<map, session, work>>
    BY Zenon DEF Plan, Exec, Launch, Locate, Started, ExecuteReturns, At, CallAts
  <2>3. \A y \in Queries : y # x => q'[y] = q[y]
    BY <2>1, Zenon DEF Plan, Exec, Launch, Locate, Started, ExecuteReturns, ExecuteFails
  <2>4. \A h \in Hosts : \A y \in Queries : y # x /\ y \in locations'[h] => y \in locations[h]
    BY Zenon DEF Plan, Exec, Launch, Locate, Started, ExecuteReturns
  <2>5. \/ \E l \in BaseAts : l # "plan" /\ stack' = Goto(x, l)
        \/ stack' = Calls(x, "failed", UnregisterQuery(x, "ERROR"))
    <3>1. {"exec", "started", "launch", "locate", "check_fetch", "idle", "end"} \subseteq BaseAts
      BY Zenon DEF BaseAts
    <3>2. CASE Plan(x) \/ Launch(x)
      BY <3>1, <3>2, Zenon DEF Plan, Launch, ExecuteFails
    <3>3. CASE Exec(x)
      BY <3>1, <3>3, Zenon DEF Exec
    <3>4. CASE Locate(x) \/ ExecuteReturns(x)
      BY <3>1, <3>4, Zenon DEF Locate, ExecuteReturns
    <3>5. CASE Started(x)
      BY <3>1, <3>5, Zenon DEF Started
    <3> QED BY <3>2, <3>3, <3>4, <3>5, Zenon
  <2>6. "failed" \in BaseAts /\ "failed" \in LowerAts
    BY Zenon DEF BaseAts, LowerAts
  <2>7. \/ \E l \in BaseAts : l # "plan" /\ stack' = Goto(x, l)
        \/ \E l \in BaseAts : \E cause \in Causes :
             l \in LowerAts /\ stack' = Calls(x, l, UnregisterQuery(x, cause))
    BY <2>1, <2>5, <2>6, Zenon
  <2> QED BY <2>2, <2>3, <2>4, <2>7, <1>OwnKept
\* Fetch, and what a session's client calls
<1>FetchKept.
  ASSUME Inv, ServerInv, NEW x \in Queries,
         Fetch(x) \/ FetchWait(x) \/ FetchNext(x) \/ ClientCalls(x)
  PROVE  ServerInv'
  <2> USE <1>FetchKept
  <2>1. q \in [Queries -> QES] /\ None \in Causes
    BY Zenon DEF Inv, TypeInv, Causes
  <2>2. Top(x).at \notin CallAts /\ UNCHANGED <<map, session, work, locations>>
    BY Zenon DEF Fetch, FetchWait, FetchNext, ClientCalls, At, CallAts
  <2>3. \A y \in Queries : y # x => q'[y] = q[y]
    <3>1. CASE Fetch(x) \/ ClientCalls(x)
      BY <2>1, <3>1, Zenon DEF Fetch, ClientCalls
    <3>2. CASE FetchWait(x)
      BY <2>1, <3>2, Zenon DEF FetchWait, FetchError, FetchCancelled
    <3>3. CASE FetchNext(x)
      BY <2>1, <3>3, Zenon DEF FetchNext, FetchError, FetchCancelled
    <3> QED BY <3>1, <3>2, <3>3, Zenon
  <2> DEFINE Going == \E l \in BaseAts : l # "plan" /\ stack' = Goto(x, l)
             Closing == \E l \in BaseAts : \E cause \in Causes :
                          l \in LowerAts /\ stack' = Calls(x, l, UnregisterQuery(x, cause))
  <2>4. FetchFails(x) => Closing
    <3>1. {"check_close", "end"} \subseteq BaseAts \cap LowerAts
      BY Zenon DEF BaseAts, LowerAts
    <3> QED BY <2>1, <3>1, Zenon DEF FetchFails
  <2>5. \A more \in BOOLEAN : FetchReturns(x, more) => Going
    <3>1. {"check_close", "idle", "check_fetch"} \subseteq BaseAts
      BY Zenon DEF BaseAts
    <3> QED BY <3>1, Zenon DEF FetchReturns
  <2>6. FetchException(x) => Going \/ Closing
    BY <2>4, <2>5, Zenon DEF FetchException
  <2>7. Going \/ Closing
    <3>1. {"fetch", "fetch_wait", "fetch_next", "end"} \subseteq BaseAts /\ "end" \in LowerAts
      BY Zenon DEF BaseAts, LowerAts
    <3>2. CASE ClientCalls(x)
      BY <2>1, <3>1, <3>2, Zenon DEF ClientCalls
    <3>3. stack' = Goto(x, "fetch_wait") \/ stack' = Goto(x, "fetch_next") => Going
      BY <3>1, Zenon
    <3> HIDE DEF Going, Closing
    <3>4. CASE Fetch(x)
      BY <2>4, <2>5, <2>6, <3>3, <3>4, Zenon DEF Fetch
    <3>5. CASE FetchWait(x)
      BY <2>4, <2>6, <3>3, <3>5, Zenon DEF FetchWait, FetchError, FetchCancelled
    <3>6. CASE FetchNext(x)
      BY <2>4, <2>5, <2>6, <3>6, Zenon DEF FetchNext, FetchError, FetchCancelled
    <3> QED BY <3>2, <3>4, <3>5, <3>6, Zenon
  <2> QED BY <2>2, <2>3, <2>7, <1>OwnKept, Zenon
\* A child's thread is about to register the child
<1>NewKept.
  ASSUME Inv, ServerInv, NEW x \in Queries, At(x, "check_new"), stack' = Goto(x, "new"),
         UNCHANGED <<map, q, session, locations, work>>
  PROVE  ServerInv'
  <2> USE <1>NewKept
  <2>1. x \in Procs /\ TypeInv /\ ShapeOK(stack[x]) /\ Closer \in Procs /\ Closer # x
    BY ServerAssumption, Zenon DEF Procs, Inv, ServerInv
  <2>2. /\ "new" \in CallAts \cup NewAts \cup BaseAts /\ Top(x).at = "check_new"
        /\ GoesOn("check_new", "new") /\ "new" \notin CallAts
        /\ "new" \in NewAts /\ "check_new" \in NewAts /\ "check_new" \notin CallAts
    BY Zenon DEF NewAts, GoesOn, CallAts, At
  <2>3. /\ \A j \in Procs : j # x => stack'[j] = stack[j] /\ Top(j)' = Top(j)
        /\ ShapeOK(stack'[x])
        /\ Top(x)'.at = "new" /\ Top(x)'.x = Top(x).x
        /\ \A ats, y : Has(stack[x], ats, y) <=>
             (Top(x).at \in ats /\ Top(x).x = y) \/ Has(Tail(stack[x]), ats, y)
        /\ \A ats, y : Has(stack'[x], ats, y) <=>
             ("new" \in ats /\ Top(x).x = y) \/ Has(Tail(stack[x]), ats, y)
    BY <2>1, <2>2, AfterGoto, Zenon
  <2>4. \A y \in Queries, j \in Procs :
          /\ Has(stack'[j], CallAts, y) => Has(stack[j], CallAts, y)
          /\ Has(stack'[j], {"cancel", "done"}, y) => Has(stack[j], {"cancel", "done"}, y)
    BY <2>2, <2>3, Zenon
  <2>5. SessionOK'
    <3>1. stack'[Closer] = stack[Closer]
      BY <2>1, <2>3, Zenon
    <3> QED BY <3>1, <1>SessionKept, Zenon DEF ServerInv, SessionOK
  <2>6. ASSUME NEW y \in Queries, Top(y)'.at \in NewAts PROVE Fresh(y)'
    <3>1. y \in Procs /\ Top(y).at \in NewAts
      BY <2>2, <2>3, <2>6, Zenon DEF Procs
    <3>2. Fresh(y)
      BY <3>1, Zenon DEF ServerInv
    <3> QED BY <2>4, <3>2, Zenon DEF Fresh
  <2>7. ASSUME NEW y \in Queries, Top(y)'.at = "plan" PROVE Planning(y)'
    <3>1. y \in Procs /\ At(y, "plan")
      BY <2>2, <2>3, <2>7, Zenon DEF Procs, At
    <3>2. Planning(y)
      BY <3>1, Zenon DEF ServerInv
    <3>3. \A j \in Procs : ~(Top(j)'.at = "erase" /\ Top(j)'.x = y)
      <4> TAKE j \in Procs
      <4>1. ~(Top(j).at = "erase" /\ Top(j).x = y)
        BY <3>2, Zenon DEF Planning, At
      <4> QED BY <2>3, <4>1, Zenon
    <3> QED BY <2>4, <3>2, <3>3, Zenon DEF Planning, At
  <2> QED BY <2>1, <2>3, <2>5, <2>6, <2>7 DEF ServerInv, At
\* The thread of the child queries
<1>ChildKept.
  ASSUME Inv, ServerInv, NEW x \in Queries,
         CheckParentStatus(x) \/ CloseOperation(x) \/ ExecAndFetchReturns(x)
  PROVE  ServerInv'
  <2> USE <1>ChildKept
  <2>1. q \in [Queries -> QES] /\ None \in Causes
    BY Zenon DEF Inv, TypeInv, Causes
  <2>2. Top(x).at \notin CallAts /\ UNCHANGED <<map, session, work, locations>>
    BY Zenon DEF CheckParentStatus, CloseOperation, ExecAndFetchReturns, At, CallAts
  <2>3. \A y \in Queries : y # x => q'[y] = q[y]
    BY <2>1, Zenon DEF CheckParentStatus, CloseOperation, ExecAndFetchReturns
  <2>4. {"end", "closed", "fetch", "close"} \subseteq BaseAts /\ {"end", "closed"} \subseteq LowerAts
    BY Zenon DEF BaseAts, LowerAts
  <2>5. CASE CloseOperation(x) \/ ExecAndFetchReturns(x)
    <3>1. \/ \E l \in BaseAts : l # "plan" /\ stack' = Goto(x, l)
          \/ \E l \in BaseAts : \E cause \in Causes :
               l \in LowerAts /\ stack' = Calls(x, l, UnregisterQuery(x, cause))
      BY <2>1, <2>4, <2>5, Zenon DEF CloseOperation, ExecAndFetchReturns
    <3> QED BY <2>2, <2>3, <3>1, <1>OwnKept, Zenon
  <2>6. CASE CheckParentStatus(x)
    <3>1. CASE q[ParentOf(x)].status = "OK"
      <4>1. stack' = Goto(x, After(Top(x).at)) /\ q' = q
        BY <2>6, <3>1, Zenon DEF CheckParentStatus
      <4>2. CASE Top(x).at = "check_new"
        BY <2>2, <4>1, <4>2, <1>NewKept, Zenon DEF After, At
      <4>3. CASE Top(x).at # "check_new"
        <5>1. After(Top(x).at) \in {"fetch", "close"}
          BY <2>6, <4>3, Zenon DEF CheckParentStatus, After
        <5>2. \E l \in BaseAts : l # "plan" /\ stack' = Goto(x, l)
          BY <2>4, <4>1, <5>1, Zenon
        <5> QED BY <2>2, <2>3, <5>2, <1>OwnKept, Zenon
      <4> QED BY <4>2, <4>3, Zenon
    <3>2. CASE q[ParentOf(x)].status # "OK"
      <4> DEFINE cs == IF ~q[x].is_running \/ Rejected THEN <<>>
                       ELSE CancelInternal(x, None) \o UnregisterQuery(x, None)
      <4>1. stack' = Calls(x, "end", cs)
        BY <2>6, <3>2, Zenon DEF CheckParentStatus
      <4>2. cs \in CallLists(x)
        BY <2>1, InLists, Zenon
      <4> HIDE DEF cs
      <4> QED BY <2>2, <2>3, <2>4, <4>1, <4>2, <1>OwnStep, Zenon
    <3> QED BY <3>1, <3>2, Zenon
  <2> QED BY <2>5, <2>6, Zenon
\* A call that is of x counts, whatever it is at
<1>HasCall.
  ASSUME TypeInv, NEW i \in Procs, NEW x, ~Has(stack[i], CallAts, x)
  PROVE  /\ ~Has(stack[i], {"cancel", "done"}, x)
         /\ ~(Top(i).at = "erase" /\ Top(i).x = x)
  <2> USE <1>HasCall
  <2>1. stack[i] \in Seq(Frame) /\ stack[i] # <<>> /\ Top(i) = Head(stack[i])
    BY TopOK, Zenon DEF StackOK
  <2>2. ~(Top(i).at \in CallAts /\ Top(i).x = x)
    BY <2>1, HasHead, Zenon
  <2> QED BY <2>2, Zenon DEF Has, CallAts
\* The query is registered, with its lock_ held, unless the session is closed
<1>RegisterKept.
  ASSUME Inv, ServerInv, NEW x \in Queries, RegisterQuery(x)
  PROVE  ServerInv'
  <2> USE <1>RegisterKept
  <2>1. /\ x \in Procs /\ TypeInv /\ ShapeOK(stack[x]) /\ Closer \in Procs /\ Closer # x
        /\ Top(x).at = "new" /\ "new" \in NewAts /\ "new" \notin CallAts
    BY ServerAssumption, Zenon DEF Procs, Inv, ServerInv, RegisterQuery, At, NewAts, CallAts
  <2>2. Fresh(x)
    BY <2>1, Zenon DEF ServerInv
  <2>3. CASE Rejected
    <3>1. UNCHANGED <<map, q, session, locations, work>> /\ stack' = Goto(x, "failed")
      BY <2>3, Zenon DEF RegisterQuery
    <3>2. "failed" \in BaseAts /\ "failed" # "plan"
      BY Zenon DEF BaseAts
    <3> QED BY <2>1, <3>1, <3>2, <1>OwnKept, Zenon
  <2>4. CASE ~Rejected
    <3>1. /\ map' = map \cup {x} /\ UNCHANGED <<locations, work>> /\ stack' = Goto(x, "plan")
          /\ q' = [q EXCEPT ![x].lock = x]
          /\ session' = [session EXCEPT !.inflight = @ \cup {x}]
      BY <2>4, Zenon DEF RegisterQuery
    <3>2. /\ session'.closed = session.closed /\ session'.todo = session.todo /\ ~session.closed
          /\ session'.inflight = session.inflight \cup {x}
      BY <2>1, <2>4, <3>1, Zenon DEF TypeInv, Session, Rejected
    <3>3. q'[x].lock = x /\ \A y \in Queries : y # x => q'[y] = q[y]
      <4>1. q \in [Queries -> QES] /\ q[x] \in QES
        BY <2>1, Zenon DEF TypeInv
      <4>2. q' = [q EXCEPT ![x] = [q[x] EXCEPT !.lock = x]]
        BY <3>1, Zenon
      <4>3. q'[x] = [q[x] EXCEPT !.lock = x] /\ \A y \in Queries : y # x => q'[y] = q[y]
        BY <4>1, <4>2, Zenon
      <4> QED BY <4>1, <4>3, Zenon DEF QES
    <3>4. /\ "plan" \in CallAts \cup NewAts \cup BaseAts /\ GoesOn("new", "plan")
          /\ "plan" \notin CallAts /\ "plan" \notin NewAts
      BY Zenon DEF NewAts, GoesOn, CallAts, BaseAts
    <3>5. /\ \A j \in Procs : j # x => stack'[j] = stack[j] /\ Top(j)' = Top(j)
          /\ ShapeOK(stack'[x])
          /\ Top(x)'.at = "plan" /\ Top(x)'.x = Top(x).x
          /\ \A ats, y : Has(stack[x], ats, y) <=>
               (Top(x).at \in ats /\ Top(x).x = y) \/ Has(Tail(stack[x]), ats, y)
          /\ \A ats, y : Has(stack'[x], ats, y) <=>
               ("plan" \in ats /\ Top(x).x = y) \/ Has(Tail(stack[x]), ats, y)
      BY <2>1, <3>1, <3>4, AfterGoto, Zenon
    <3>6. \A y \in Queries, j \in Procs :
            /\ Has(stack'[j], CallAts, y) => Has(stack[j], CallAts, y)
            /\ Has(stack'[j], {"cancel", "done"}, y) => Has(stack[j], {"cancel", "done"}, y)
      BY <3>4, <3>5, Zenon
    <3>7. SessionOK'
      <4>1. stack'[Closer] = stack[Closer] /\ ~session'.closed
        BY <2>1, <3>2, <3>5, Zenon
      <4>2. /\ map \subseteq session.inflight /\ Bottom(stack[Closer]) = "idle"
        BY <3>2, Zenon DEF ServerInv, SessionOK
      <4>3. map' \subseteq session'.inflight
        BY <3>1, <3>2, <4>2, Zenon
      <4>4. Bottom(stack'[Closer]) = "idle"
        BY <4>1, <4>2, Zenon
      <4> QED BY <4>1, <4>3, <4>4, Zenon DEF SessionOK
    <3>8. ASSUME NEW y \in Queries, Top(y)'.at \in NewAts PROVE Fresh(y)'
      <4>1. y # x /\ y \in Procs /\ Top(y).at \in NewAts
        BY <3>4, <3>5, <3>8, Zenon DEF Procs
      <4>2. Fresh(y)
        BY <4>1, Zenon DEF ServerInv
      <4>3. y \notin session'.inflight \cup session'.todo
        BY <3>2, <4>1, <4>2, Zenon DEF Fresh
      <4> QED BY <3>1, <3>3, <3>6, <4>1, <4>2, <4>3, Zenon DEF Fresh
    <3>9. ASSUME NEW y \in Queries, Top(y)'.at = "plan" PROVE Planning(y)'
      <4>1. CASE y = x
        <5>1. ASSUME NEW j \in Procs
              PROVE  /\ ~Has(stack'[j], {"cancel", "done"}, x)
                     /\ ~(Top(j)'.at = "erase" /\ Top(j)'.x = x)
          <6>1. ~Has(stack[j], CallAts, x)
            BY <2>2, Zenon DEF Fresh
          <6>2. ~Has(stack[j], {"cancel", "done"}, x) /\ ~(Top(j).at = "erase" /\ Top(j).x = x)
            BY <2>1, <6>1, <1>HasCall, Zenon
          <6> QED BY <3>5, <3>6, <6>2, Zenon
        <5>2. x \in map' /\ q'[x].lock = x
          BY <3>1, <3>3, Zenon
        <5> QED BY <4>1, <5>1, <5>2, Zenon DEF Planning, At
      <4>2. CASE y # x
        <5>1. y \in Procs /\ At(y, "plan")
          BY <3>5, <3>9, <4>2, Zenon DEF Procs, At
        <5>2. Planning(y)
          BY <5>1, Zenon DEF ServerInv
        <5>3. \A j \in Procs : ~(Top(j)'.at = "erase" /\ Top(j)'.x = y)
          <6> TAKE j \in Procs
          <6>1. ~(Top(j).at = "erase" /\ Top(j).x = y)
            BY <5>2, Zenon DEF Planning, At
          <6> QED BY <3>5, <6>1, Zenon
        <5>4. y \in map' /\ q'[y].lock = y
          BY <3>1, <3>3, <4>2, <5>2, Zenon DEF Planning
        <5> QED BY <3>6, <5>2, <5>3, <5>4, Zenon DEF Planning, At
      <4> QED BY <4>1, <4>2, Zenon
    <3> QED BY <2>1, <3>5, <3>7, <3>8, <3>9, Zenon DEF ServerInv, At
  <2> QED BY <2>3, <2>4, Zenon
\* Wait, and what fills the queue of cancellations
<1>QueueKept.
  ASSUME Inv, ServerInv,
         \/ \E x \in Queries : WaitStep(x) \/ ExpireQuery(x)
         \/ ExpireSession \/ MembershipCallback \/ \E h \in Hosts : BackendFails(h)
         \/ UNCHANGED vars
  PROVE  ServerInv'
  <2> USE <1>QueueKept
  <2>1. /\ TypeInv /\ q \in [Queries -> QES] /\ session \in Session
        /\ map \subseteq Queries /\ locations \in [Hosts -> SUBSET Queries]
        /\ \A x \in map : Top(x).at \notin NewAts
        /\ \A x \in session.inflight : Top(x).at \notin NewAts
        /\ \A h \in Hosts : \A x \in locations[h] : Top(x).at \notin NewAts
    <3>1. TypeInv /\ \A x \in map : Top(x).at \notin NewAts
      BY Zenon DEF Inv
    <3>2. \A x \in session.inflight : x \in Queries
      BY <3>1, Zenon DEF TypeInv, Session
    <3>3. \A h \in Hosts : \A x \in locations[h] : x \in Queries
      BY <3>1, Zenon DEF TypeInv
    <3> QED BY <3>1, <3>2, <3>3, Zenon DEF TypeInv, ServerInv, Fresh
  <2>2. UNCHANGED <<map, stack>>
    BY Zenon DEF WaitStep, WaitForChildQueries, CoordWait, UpdateCatalog, WaitFinish, ExpireQuery,
           ExpireSession, MembershipCallback, BackendFails, vars
  <2>3. ASSUME NEW x \in Queries, WaitStep(x) PROVE ServerInv'
    <3>1. UNCHANGED <<session, locations, work>>
      BY <2>3, Zenon DEF WaitStep, WaitForChildQueries, CoordWait, UpdateCatalog, WaitFinish
    <3>2. \A y \in Queries : /\ q'[y].lock = q[y].lock
                             /\ q'[y].is_running = q[y].is_running
                             /\ q'[y].fragments = q[y].fragments
      BY <2>1, <2>3, WaitFields, Zenon
    <3> QED BY <2>2, <3>1, <3>2, <1>StillKept, Zenon
  <2>4. ASSUME NEW x \in Queries, ExpireQuery(x) PROVE ServerInv'
    <3>1. UNCHANGED <<q, session, locations>> /\ x \in map
          /\ work' = work \cup {[x |-> x, unregister |-> FALSE]}
      BY <2>4, Zenon DEF ExpireQuery
    <3>2. Top(x).at \notin NewAts
      BY <2>1, <3>1, Zenon
    <3>3. ASSUME NEW w \in work' PROVE w \in work \/ Top(w.x).at \notin NewAts
      <4>1. w \in work \/ w.x = x
        BY ONLY <3>1, <3>3
      <4> QED BY ONLY <3>2, <4>1, Zenon
    <3> QED BY <2>2, <3>1, <3>3, <1>StillKept, Zenon
  <2>5. CASE ExpireSession
    <3>1. /\ UNCHANGED <<q, locations>> /\ session' = [session EXCEPT !.expired = TRUE]
          /\ work' = work \cup {[x |-> x, unregister |-> TRUE] : x \in session.inflight}
      BY <2>5, Zenon DEF ExpireSession
    <3>2. \A w \in work' : w \in work \/ Top(w.x).at \notin NewAts
      BY <2>1, <3>1
    <3>3. /\ session'.closed = session.closed /\ session'.inflight = session.inflight
          /\ session'.todo = session.todo
      BY <2>1, <3>1, Zenon DEF Session
    <3> QED BY <2>2, <3>1, <3>2, <3>3, <1>StillKept, Zenon
  <2>6. CASE MembershipCallback
    <3> DEFINE lost == UNION {locations[h] : h \in Hosts \ up}
    <3>1. /\ UNCHANGED <<q, session>>
          /\ locations' = [h \in Hosts |-> IF h \in up THEN locations[h] ELSE {}]
          /\ work' = work \/ work' = work \cup {[x |-> x, unregister |-> FALSE] : x \in lost}
      BY <2>6, Zenon DEF MembershipCallback
    <3>2. \A x \in lost : Top(x).at \notin NewAts
      BY <2>1, Zenon
    <3> HIDE DEF lost
    <3>3. \A w \in work' : w \in work \/ Top(w.x).at \notin NewAts
      BY <3>1, <3>2
    <3>4. \A h \in Hosts : \A y \in Queries : y \in locations'[h] => y \in locations[h]
      BY <3>1, Zenon
    <3> QED BY <2>2, <3>1, <3>3, <3>4, <1>StillKept, Zenon
  <2>7. ASSUME NEW h \in Hosts, BackendFails(h) PROVE ServerInv'
    <3>1. UNCHANGED <<q, session, locations, work>>
      BY <2>7, Zenon DEF BackendFails
    <3> QED BY <2>2, <3>1, <1>StillKept, Zenon
  <2>8. CASE UNCHANGED vars
    <3>1. UNCHANGED <<q, session, locations, work>>
      BY <2>8, Zenon DEF vars
    <3> QED BY <2>2, <3>1, <1>StillKept, Zenon
  <2> QED BY <2>3, <2>4, <2>5, <2>6, <2>7, <2>8, Zenon
\* Another connection, and the thread of the cancellation pool
<1>PoolKept.
  ASSUME Inv, ServerInv, OtherCalls \/ CancelFromThreadPool
  PROVE  ServerInv'
  <2> USE <1>PoolKept
  <2>1. TypeInv /\ None \in Causes /\ "ERROR" \in Causes /\ Closer \in Procs
        /\ "idle" \in {"idle", "closing"} /\ "idle" \notin CallAts
    BY Zenon DEF Inv, Causes, Procs, CallAts
  <2>2. UNCHANGED <<map, q, session, locations>> /\ work' \subseteq work
    BY Zenon DEF OtherCalls, CancelFromThreadPool
  <2>3. ASSUME NEW i \in {Other, Worker}, Top(i).at = "idle", NEW y \in Queries,
               Top(y).at \notin NewAts, NEW cs \in CallLists(y), stack' = Calls(i, "idle", cs)
        PROVE  ServerInv'
    <3>1. stack'[Closer] = stack[Closer]
      <4>1. Closer # i /\ i \in Procs /\ stack \in [Procs -> Seq(Frame)]
        BY <2>1, ServerAssumption, Zenon DEF Procs, TypeInv
      <4> QED BY <2>1, <2>3, <4>1, Zenon DEF Calls
    <3>2. SessionOK'
      BY <2>2, <3>1, <1>SessionKept, Zenon DEF ServerInv, SessionOK
    <3>3. i \in {Other, Closer, Worker}
      BY Zenon
    <3> QED BY <2>1, <2>2, <2>3, <3>2, <3>3, <1>ServerStep, Zenon
  <2>4. CASE OtherCalls
    <3>1. PICK x \in map : \E calls \in {CancelInternal(x, None), UnregisterQuery(x, None)} :
                             stack' = Calls(Other, "idle", calls)
      BY <2>4, Zenon DEF OtherCalls
    <3>2. x \in Queries /\ Top(x).at \notin NewAts
      BY <2>1, Zenon DEF Inv, TypeInv
    <3>3. PICK calls \in CallLists(x) : stack' = Calls(Other, "idle", calls)
      BY <2>1, <3>1, <3>2, InLists, Zenon
    <3>4. Top(Other).at = "idle" /\ Other \in {Other, Worker}
      BY <2>4, Zenon DEF OtherCalls, At
    <3> QED BY <2>3, <3>2, <3>3, <3>4, Zenon
  <2>5. CASE CancelFromThreadPool
    <3>1. PICK w \in work : stack' = Calls(Worker, "idle",
                              IF w.unregister THEN UnregisterQuery(w.x, "ERROR")
                              ELSE CancelInternal(w.x, "ERROR"))
      BY <2>5, Zenon DEF CancelFromThreadPool
    <3>2. w.x \in Queries
      BY <2>1, Zenon DEF TypeInv, CancellationWork
    <3>3. Top(w.x).at \notin NewAts
      BY <3>2, Zenon DEF ServerInv, Fresh
    <3>4. PICK calls \in CallLists(w.x) : stack' = Calls(Worker, "idle", calls)
      BY <2>1, <3>1, <3>2, InLists, Zenon
    <3>5. Top(Worker).at = "idle" /\ Worker \in {Other, Worker}
      BY <2>5, Zenon DEF CancelFromThreadPool, At
    <3> QED BY <2>3, <3>2, <3>3, <3>4, <3>5, Zenon
  <2> QED BY <2>4, <2>5, Zenon
\* CloseSessionInternal
<1>CloseKept.
  ASSUME Inv, ServerInv, CloseSession \/ CancelSessionQueries
  PROVE  ServerInv'
  <2> USE <1>CloseKept
  <2> DEFINE s == stack[Closer]
  <2>1. /\ TypeInv /\ session \in Session /\ Closer \in Procs /\ "ERROR" \in Causes
        /\ StackOK(s) /\ ShapeOK(s) /\ Top(Closer) = Head(s) /\ Closer \in {Other, Closer, Worker}
        /\ UNCHANGED <<map, q, locations, work>> /\ map \subseteq session.inflight
    <3>1. UNCHANGED <<map, q, locations, work>>
      BY Zenon DEF CloseSession, CancelSessionQueries
    <3>2. TypeInv /\ session \in Session /\ Closer \in Procs /\ "ERROR" \in Causes
      BY Zenon DEF Inv, TypeInv, Procs, Causes
    <3> QED BY <3>1, <3>2, TopOK DEF ServerInv, SessionOK
  <2>2. Top(Closer).at \in {"idle", "closing"} /\ Top(Closer).at \notin CallAts
    BY Zenon DEF CloseSession, CancelSessionQueries, At, CallAts
  <2>3. Bottom(s) = Top(Closer).at /\ \A x : ~Has(s, {"erase"}, x)
    BY <2>1, <2>2, TopIsBottom, Zenon DEF CallAts
  <2>4. ASSUME NEW l \in {"closing", "end"}, stack' = Goto(Closer, l)
        PROVE  Bottom(stack'[Closer]) = l
    <3>1. GoesOn(Top(Closer).at, l) /\ l \in CallAts \cup NewAts \cup BaseAts /\ l \notin CallAts
      BY <2>2, Zenon DEF GoesOn, CallAts, BaseAts
    <3>2. Bottom(stack'[Closer]) = IF l \in CallAts THEN Bottom(stack[Closer]) ELSE l
      BY <2>1, <2>4, <3>1, AfterGoto, Zenon
    <3> QED BY <3>1, <3>2, Zenon
  <2>5. CASE CloseSession
    <3>1. /\ session' = [session EXCEPT !.closed = TRUE, !.todo = session.inflight]
          /\ stack' = Goto(Closer, "closing")
      BY <2>5, Zenon DEF CloseSession
    <3>2. /\ session'.closed /\ session'.todo = session.inflight
          /\ session'.inflight = session.inflight
      BY <2>1, <3>1 DEF Session
    <3>3. Bottom(stack'[Closer]) = "closing"
      BY <2>4, <3>1, Zenon
    <3>4. map' \subseteq session'.todo /\ map' \subseteq session'.inflight
      BY <2>1, <3>2, Zenon
    <3>5. SessionOK'
      BY <3>2, <3>3, <3>4 DEF SessionOK
    <3> QED BY <2>1, <2>2, <3>1, <3>2, <3>5, <1>CloserStep
  <2>6. CASE CancelSessionQueries
    <3>1. session.closed /\ (\A x \in map : x \in session.todo) /\ Top(Closer).at = "closing"
      <4>1. Top(Closer).at = "closing"
        BY <2>6, Zenon DEF CancelSessionQueries, At
      <4> QED BY <2>3, <4>1, Zenon DEF ServerInv, SessionOK
    <3>2. CASE session.todo = {}
      <4>1. session' = session /\ stack' = Goto(Closer, "end")
        BY <2>6, <3>2, Zenon DEF CancelSessionQueries
      <4>2. Bottom(stack'[Closer]) = "end"
        BY <2>4, <4>1, Zenon
      <4>3. SessionOK'
        BY <2>1, <3>1, <3>2, <4>1, <4>2, Zenon DEF SessionOK
      <4> QED BY <2>1, <2>2, <4>1, <4>3, <1>CloserStep, Zenon
    <3>3. CASE session.todo # {}
      <4> DEFINE x == CHOOSE y \in session.todo : TRUE
                 cs == UnregisterQuery(x, "ERROR")
      <4>1. x \in session.todo /\ x \in Queries
        BY <2>1, <3>3, Zenon DEF Session
      <4>2. /\ session' = [session EXCEPT !.todo = @ \ {x}]
            /\ stack' = Calls(Closer, "closing", cs)
        BY <2>6, <3>3, Zenon DEF CancelSessionQueries
      <4> HIDE DEF x
      <4>3. Top(x).at \notin NewAts
        BY <4>1, Zenon DEF ServerInv, Fresh
      <4>4. cs \in CallLists(x) /\ Has(cs, {"erase"}, x)
        BY <2>1, <4>1, InLists, UnregisterHas, Zenon
      <4>5. /\ session'.closed = session.closed /\ session'.inflight = session.inflight
            /\ session'.todo = session.todo \ {x}
        BY <2>1, <4>2, Zenon DEF Session
      <4> HIDE DEF cs
      <4>6. /\ Bottom(stack'[Closer]) = "closing"
            /\ Has(stack'[Closer], {"erase"}, x)
        <5>1. /\ GoesOn(Top(Closer).at, "closing") /\ "closing" \in CallAts \cup NewAts \cup BaseAts
              /\ "closing" \notin CallAts /\ "closing" \in LowerAts
          BY <2>2, Zenon DEF GoesOn, CallAts, BaseAts, LowerAts
        <5>2. /\ Bottom(stack'[Closer]) =
                   IF "closing" \in CallAts THEN Bottom(stack[Closer]) ELSE "closing"
              /\ \A ats, y : Has(stack'[Closer], ats, y) <=>
                   \/ Has(cs, ats, y)
                   \/ "closing" \in ats /\ Top(Closer).x = y
                   \/ Has(Tail(stack[Closer]), ats, y)
          BY <2>1, <4>1, <4>2, <4>4, <5>1, AfterCalls, Zenon
        <5> QED BY <4>4, <5>1, <5>2, Zenon
      <4>7. \A y \in map' : y \in session'.todo \/ Has(stack'[Closer], {"erase"}, y)
        BY <2>1, <3>1, <4>5, <4>6, Zenon
      <4>8. SessionOK'
        BY <2>1, <3>1, <4>5, <4>6, <4>7, Zenon DEF SessionOK
      <4>9. session'.todo \subseteq session.todo
        BY <4>5, Zenon
      <4> QED BY <2>1, <2>2, <4>1, <4>2, <4>3, <4>4, <4>5, <4>8, <4>9, <1>ServerStep
    <3> QED BY <3>2, <3>3, Zenon
  <2> QED BY <2>5, <2>6, SMTT(40)
<1> SUFFICES ASSUME Inv, ServerInv, [Next]_vars
             PROVE  ServerInv'
  BY Zenon
<1>1. ASSUME NEW i \in Procs, Unregistering(i) PROVE ServerInv'
  BY <1>1, <1>FindKept, <1>LockKept, <1>CancelKept, <1>EraseKept, <1>DoneKept, Zenon DEF Unregistering
<1>2. ASSUME NEW x \in Queries, Executing(x) \/ Child(x) \/ ClientCalls(x) PROVE ServerInv'
  BY <1>2, <1>RegisterKept, <1>ExecuteKept, <1>FetchKept, <1>ChildKept, Zenon DEF Executing, Child
<1>3. CASE \/ \E x \in Queries : WaitStep(x) \/ ExpireQuery(x)
           \/ ExpireSession \/ MembershipCallback \/ \E h \in Hosts : BackendFails(h)
           \/ UNCHANGED vars
  BY <1>3, <1>QueueKept, Zenon
<1>4. CASE OtherCalls \/ CancelFromThreadPool
  BY <1>4, <1>PoolKept, Zenon
<1>5. CASE CloseSession \/ CancelSessionQueries
  BY <1>5, <1>CloseKept, Zenon
<1> QED BY <1>1, <1>2, <1>3, <1>4, <1>5, Zenon DEF Next

\* So it holds for ever
LEMMA ServerInvariant == Spec => [](Inv /\ ServerInv)
<1>1. Init => Inv /\ ServerInv
  BY InitInv, InitServer, Zenon
<1>2. (Inv /\ ServerInv) /\ [Next]_vars => (Inv /\ ServerInv)'
  BY NextInv, NextServer, Zenon
<1> QED BY <1>1, <1>2, PTL DEF Spec

\* For any number of queries and threads: when CloseSessionInternal returns, no query of the
\* session is registered or being planned.  RegisterQuery is rejected once the session is
\* closed, a query that was registered before is in the set CloseSessionInternal reads, and
\* whoever erases it first has erased it for all.
THEOREM NothingLeftInSession == Spec => []ClosedSessionEmpty
<1>1. Inv /\ ServerInv => ClosedSessionEmpty
  <2> SUFFICES ASSUME Inv, ServerInv, At(Closer, "end")
               PROVE  map = {} /\ \A x \in Queries : ~At(x, "plan")
    BY Zenon DEF ClosedSessionEmpty
  <2>1. /\ StackOK(stack[Closer]) /\ ShapeOK(stack[Closer]) /\ Top(Closer) = Head(stack[Closer])
        /\ Top(Closer).at = "end" /\ "end" \notin CallAts
    BY TopOK, Zenon DEF Inv, ServerInv, Procs, At, CallAts
  <2>2. Bottom(stack[Closer]) = "end" /\ \A x : ~Has(stack[Closer], {"erase"}, x)
    BY <2>1, TopIsBottom, Zenon DEF CallAts
  <2>3. map = {}
    BY <2>2, Zenon DEF ServerInv, SessionOK
  <2> QED BY <2>3, Zenon DEF ServerInv, Planning
<1> QED BY <1>1, ServerInvariant, PTL
-------------------------------------------------------------------------------
(* Queries at failed backends *)

\* The fragments run and nobody has noticed that they should not
Live(r) == r.fragments = "running" /\ r.state # "EXCEPTION" /\ ~r.eos

\* x will be found at h, or h has failed and the cancellation of x is queued or under way
Noticed(x, h) ==
    \/ x \in locations[h]
    \/ h \notin up /\ ((\E w \in work : w.x = x) \/ Has(stack[Worker], CallAts, x))

HostsOK(x) == Live(q[x]) /\ ~At(x, "locate") => \A h \in Hosts : Noticed(x, h)

\* A fetch of rows has not seen the last one, so it does not reset eos_
FetchOK(x) == x \notin Dml /\ Top(x).at \in {"fetch_wait", "fetch_next"} => ~q[x].eos

HostsInv == (\A x \in map : HostsOK(x)) /\ (\A x \in Queries : FetchOK(x))

\* The queue of cancellations has room for all that can be in it and for what one
\* MembershipCallback adds
QueueSuffices == IsFiniteSet(Queries) /\ 3 * Cardinality(Queries) <= MaxQueue

\* What MembershipCallback makes of it
HasRoom ==
    \A W \in SUBSET CancellationWork, L \in SUBSET Queries :
        ~(Cardinality(W) + Cardinality(L) > MaxQueue)

\* Every step keeps the invariant
LEMMA NextHosts ==
    HasRoom /\ Inv /\ ServerInv /\ HostsInv /\ [Next]_vars =>
        HostsInv'
\* A step that neither moves a query's thread nor makes the query live
<1>StillHosts.
  ASSUME HostsInv, map' \subseteq map, map \subseteq Queries,
         \A y \in Queries : /\ Top(y)' = Top(y)
                            /\ Live(q'[y]) => Live(q[y])
                            /\ y \notin Dml /\ q'[y].eos => q[y].eos,
         \A y \in map', h \in Hosts : Noticed(y, h) => Noticed(y, h)'
  PROVE  HostsInv'
  <2> USE <1>StillHosts
  <2>1. ASSUME NEW y \in map', Live(q'[y]), Top(y)'.at # "locate", NEW h \in Hosts
        PROVE  Noticed(y, h)'
    <3>1. y \in map /\ y \in Queries
      BY Zenon
    <3>2. Live(q[y]) /\ ~At(y, "locate")
      BY <2>1, <3>1, Zenon DEF At
    <3> QED BY <3>1, <3>2, Zenon DEF HostsInv, HostsOK
  <2>2. \A y \in map' : HostsOK(y)'
    BY <2>1, Zenon DEF HostsOK, At
  <2>3. \A y \in Queries : FetchOK(y)'
    BY Zenon DEF HostsInv, FetchOK
  <2> QED BY <2>2, <2>3, Zenon DEF HostsInv
\* A step within a call of CancelInternal or UnregisterQuery
<1>CallHosts.
  ASSUME TypeInv, HostsInv, NEW i \in Procs,
         \A j \in Procs : j # i => stack'[j] = stack[j] /\ Top(j)' = Top(j),
         Top(i).at \in CallAts, Top(i)'.at \in LowerAts \cup CallAts,
         map' \subseteq map, UNCHANGED <<up, work>>,
         \A y \in map', h \in Hosts : y \in locations[h] => y \in locations'[h],
         \A y \in Queries : q'[y].eos = q[y].eos /\ (Live(q'[y]) => Live(q[y])),
         \A y \in map' : Live(q'[y]) /\ Has(stack[i], CallAts, y) => Has(stack'[i], CallAts, y)
  PROVE  HostsInv'
  <2> USE <1>CallHosts
  <2>1. map' \subseteq Queries /\ Queries \subseteq Procs /\ Worker \in Procs
    BY Zenon DEF TypeInv, Procs
  <2>2. /\ Top(i).at \notin {"locate", "fetch_wait", "fetch_next"}
        /\ Top(i)'.at \notin {"locate", "fetch_wait", "fetch_next"}
    BY Zenon DEF LowerAts, CallAts
  <2>3. ASSUME NEW y \in map', Live(q'[y]), Top(y)'.at # "locate", NEW h \in Hosts
        PROVE  Noticed(y, h)'
    <3>1. y \in map /\ y \in Queries /\ y \in Procs
      BY <2>1, Zenon
    <3>2. Live(q[y]) /\ ~At(y, "locate")
      BY <2>2, <2>3, <3>1, Zenon DEF At
    <3>3. Noticed(y, h)
      BY <3>1, <3>2, Zenon DEF HostsInv, HostsOK
    <3>4. Has(stack[Worker], CallAts, y) => Has(stack'[Worker], CallAts, y)
      BY <2>1, <2>3, Zenon
    <3> QED BY <3>3, <3>4, Zenon DEF Noticed
  <2>4. \A y \in map' : HostsOK(y)'
    BY <2>3, Zenon DEF HostsOK, At
  <2>5. ASSUME NEW y \in Queries PROVE FetchOK(y)'
    <3>1. y \in Procs /\ FetchOK(y)
      BY <2>1, Zenon DEF HostsInv
    <3> QED BY <2>2, <3>1, Zenon DEF FetchOK
  <2> QED BY <2>4, <2>5, Zenon DEF HostsInv
\* A step of a query's own thread between its calls
<1>OwnHosts.
  ASSUME Inv, ServerInv, HostsInv, NEW x \in Queries, Top(x).at \notin CallAts,
         \/ \E l \in NewAts \cup BaseAts :
              /\ stack' = Goto(x, l)
              /\ l \in {"fetch_wait", "fetch_next"} /\ x \notin Dml => ~q'[x].eos
              /\ x \in map' /\ Live(q'[x]) /\ l # "locate" =>
                   \/ x \in map /\ Live(q[x]) /\ ~At(x, "locate")
                   \/ \A h \in Hosts : x \in locations'[h]
         \/ /\ \E l \in BaseAts : \E cs \in CallLists(x) :
                 l \in LowerAts /\ stack' = Calls(x, l, cs)
            /\ Live(q'[x]) => Live(q[x]) /\ ~At(x, "locate")
            /\ map' = map,
         map' \subseteq map \cup {x}, UNCHANGED <<up, work>>,
         \A y \in Queries : y # x => q'[y] = q[y],
         \A y \in Queries, h \in Hosts : y \in locations[h] => y \in locations'[h]
  PROVE  HostsInv'
  <2> USE <1>OwnHosts
  <2>1. /\ x \in Procs /\ Worker \in Procs /\ Worker # x /\ TypeInv /\ ShapeOK(stack[x])
        /\ map \subseteq Queries /\ Queries \subseteq Procs
    BY ServerAssumption, Zenon DEF Procs, Inv, ServerInv, TypeInv
  <2>2. \A l \in NewAts \cup BaseAts : GoesOn(Top(x).at, l) /\ l \notin CallAts
    BY Zenon DEF NewAts, BaseAts, CallAts, GoesOn
  <2>3. /\ \A j \in Procs : j # x => stack'[j] = stack[j] /\ Top(j)' = Top(j)
        /\ x \notin Dml /\ Top(x)'.at \in {"fetch_wait", "fetch_next"} => ~q'[x].eos
        /\ x \in map' /\ Live(q'[x]) /\ Top(x)'.at # "locate" =>
             \/ x \in map /\ Live(q[x]) /\ ~At(x, "locate")
             \/ \A h \in Hosts : x \in locations'[h]
    <3>1. ASSUME NEW l \in NewAts \cup BaseAts, stack' = Goto(x, l)
          PROVE  Top(x)'.at = l /\ \A j \in Procs : j # x => stack'[j] = stack[j] /\ Top(j)' = Top(j)
      BY <2>1, <2>2, <3>1, AfterGoto, Zenon
    <3>2. ASSUME NEW l \in BaseAts, NEW cs \in CallLists(x), l \in LowerAts, stack' = Calls(x, l, cs)
          PROVE  /\ Top(x)'.at \notin {"fetch_wait", "fetch_next"}
                 /\ \A j \in Procs : j # x => stack'[j] = stack[j] /\ Top(j)' = Top(j)
      <4>1. /\ \A j \in Procs : j # x => stack'[j] = stack[j] /\ Top(j)' = Top(j)
            /\ \/ Top(x)'.at = l /\ Top(x)'.x = Top(x).x
               \/ cs # <<>> /\ Top(x)'.at = "find" /\ Top(x)'.x = x
        BY <2>1, <2>2, <3>2, AfterCalls, Zenon
      <4> QED BY <3>2, <4>1, Zenon DEF LowerAts
    <3> QED BY <3>1, <3>2, Zenon
  <2>4. stack'[Worker] = stack[Worker]
    BY <2>1, <2>3, Zenon
  <2>5. \A y \in Queries, h \in Hosts : Noticed(y, h) => Noticed(y, h)'
    BY <2>4, Zenon DEF Noticed
  <2>6. ASSUME NEW y \in map', Live(q'[y]), Top(y)'.at # "locate", NEW h \in Hosts
        PROVE  Noticed(y, h)'
    <3>1. y \in Queries /\ y \in Procs
      BY <2>1, Zenon
    <3>2. CASE y # x
      <4>1. y \in map /\ Live(q[y]) /\ ~At(y, "locate")
        BY <2>3, <2>6, <3>1, <3>2, Zenon DEF At
      <4> QED BY <2>5, <3>1, <4>1, Zenon DEF HostsInv, HostsOK
    <3>3. CASE y = x
      <4>1. CASE x \in map /\ Live(q[x]) /\ ~At(x, "locate")
        BY <2>5, <3>3, <4>1, Zenon DEF HostsInv, HostsOK
      <4>2. CASE \A g \in Hosts : x \in locations'[g]
        BY <3>3, <4>2, Zenon DEF Noticed
      <4> QED BY <2>3, <2>6, <3>3, <4>1, <4>2, Zenon
    <3> QED BY <3>2, <3>3, Zenon
  <2>7. \A y \in map' : HostsOK(y)'
    BY <2>6, Zenon DEF HostsOK, At
  <2>8. ASSUME NEW y \in Queries PROVE FetchOK(y)'
    <3>1. y \in Procs /\ FetchOK(y)
      BY <2>1, Zenon DEF HostsInv
    <3> QED BY <2>3, <3>1, Zenon DEF FetchOK
  <2> QED BY <2>7, <2>8, Zenon DEF HostsInv
\* UpdateQueryStatus, Coordinator::Cancel and QueryExecState::Cancel leave eos_ alone and make
\* no query live, and a query that was cancelled is not live
<1>RecordLive.
  ASSUME NEW r \in QES, NEW cause \in Causes
  PROVE  /\ Failed(r).eos = r.eos /\ (Live(Failed(r)) => Live(r))
         /\ CoordCancelled(r).eos = r.eos /\ (Live(CoordCancelled(r)) => Live(r))
         /\ Cancelled(r, cause).eos = r.eos /\ ~Live(Cancelled(r, cause))
  <2> USE <1>RecordLive
  <2>1. ASSUME NEW r1 \in QES
        PROVE  Failed(r1).eos = r1.eos /\ (Live(Failed(r1)) => Live(r1))
    <3>1. CASE r1.status = "OK"
      <4> DEFINE f == [r1 EXCEPT !.status = "ERROR", !.state = "EXCEPTION"]
      <4>1. f.eos = r1.eos /\ f.state = "EXCEPTION" /\ Failed(r1) = f
        BY <3>1, Zenon DEF QES, Failed
      <4> QED BY <4>1, Zenon DEF Live
    <3>2. CASE r1.status # "OK"
      BY <3>2, Zenon DEF Failed
    <3> QED BY <3>1, <3>2, Zenon
  <2>2. ASSUME NEW r1 \in QES
        PROVE  /\ CoordCancelled(r1).eos = r1.eos /\ CoordCancelled(r1).state = r1.state
               /\ Live(CoordCancelled(r1)) => Live(r1)
    <3>1. CASE r1.coord = "OK"
      <4> DEFINE fr == IF r1.fragments = "running" THEN "cancelled" ELSE r1.fragments
                 f == [r1 EXCEPT !.coord = "BAD", !.fragments = fr]
      <4>1. CoordCancelled(r1) = f
        BY <3>1, Zenon DEF CoordCancelled
      <4>2. fr # "running"
        BY Zenon
      <4> HIDE DEF fr
      <4>3. f.eos = r1.eos /\ f.state = r1.state /\ f.fragments = fr
        BY Zenon DEF QES
      <4> QED BY <4>1, <4>2, <4>3, Zenon DEF Live
    <3>2. CASE r1.coord # "OK"
      BY <3>2, Zenon DEF CoordCancelled
    <3> QED BY <3>1, <3>2, Zenon
  <2>3. Cancelled(r, cause).eos = r.eos /\ ~Live(Cancelled(r, cause))
    <3> DEFINE a == IF cause = None THEN r ELSE Failed(r)
               b == [a EXCEPT !.state = "EXCEPTION"]
               c == IF r.eos \/ r.state = "EXCEPTION" THEN r ELSE CoordCancelled(b)
               d == [c EXCEPT !.lock = None]
    <3>1. a \in QES /\ a.eos = r.eos
      BY <2>1, RecordSteps, Zenon DEF Follows
    <3> HIDE DEF a
    <3>2. b \in QES /\ b.eos = r.eos /\ b.state = "EXCEPTION"
      BY <3>1, SMTT(40) DEF QES
    <3> HIDE DEF b
    <3>3. c \in QES /\ c.eos = r.eos /\ ~Live(c)
      <4>1. CASE r.eos \/ r.state = "EXCEPTION"
        BY <4>1, Zenon DEF Live
      <4>2. CASE ~(r.eos \/ r.state = "EXCEPTION")
        <5>1. CoordCancelled(b) \in QES
          BY <3>2, RecordSteps, Zenon DEF Follows
        <5>2. CoordCancelled(b).eos = r.eos /\ CoordCancelled(b).state = "EXCEPTION"
          BY <2>2, <3>2, Zenon
        <5> QED BY <4>2, <5>1, <5>2, Zenon DEF Live
      <4> QED BY <4>1, <4>2, Zenon
    <3> HIDE DEF c
    <3>4. d.eos = c.eos /\ d.state = c.state /\ d.fragments = c.fragments
      BY <3>3, Zenon DEF QES
    <3>5. Cancelled(r, cause) = d
      BY Zenon DEF Cancelled, a, b, c, d
    <3> QED BY <3>3, <3>4, <3>5, Zenon DEF Live
  <2> QED BY <2>1, <2>2, <2>3, Zenon
\* One field of a QueryExecState changes that does not matter here
<1>OneField.
  ASSUME NEW x \in Queries, NEW r, q \in [Queries -> QES], q' = [q EXCEPT ![x] = r],
         r.eos = q[x].eos, Live(r) => Live(q[x])
  PROVE  \A y \in Queries : q'[y].eos = q[y].eos /\ (Live(q'[y]) => Live(q[y]))
  <2> USE <1>OneField
  <2>1. q'[x] = r /\ \A y \in Queries : y # x => q'[y] = q[y]
    BY Zenon
  <2> QED BY <2>1, Zenon
\* CancelInternal
<1>CancelHosts.
  ASSUME Inv, ServerInv, HostsInv, NEW i \in Procs, Find(i) \/ Lock(i) \/ Cancel(i)
  PROVE  HostsInv'
  <2> USE <1>CancelHosts
  <2> DEFINE x == Top(i).x
  <2>1. /\ TypeInv /\ q \in [Queries -> QES] /\ ShapeOK(stack[i])
        /\ Top(i).at \in {"find", "lock", "cancel"} /\ Top(i).at \in CallAts
        /\ UNCHANGED <<map, up, work, locations>>
    BY Zenon DEF Find, Lock, Cancel, At, Inv, TypeInv, ServerInv, CallAts
  <2>2. x \in Queries /\ q[x] \in QES /\ Top(i).cause \in Causes
    <3>1. x \in Queries /\ Top(i) \in Frame
      BY <2>1, TopOK, Zenon
    <3> QED BY <2>1, <3>1, Zenon DEF Frame
  <2>3. ASSUME \A j \in Procs : j # i => stack'[j] = stack[j] /\ Top(j)' = Top(j),
               Top(i)'.at \in LowerAts \cup CallAts,
               \A y \in Queries : q'[y].eos = q[y].eos /\ (Live(q'[y]) => Live(q[y])),
               \A y \in map : Live(q'[y]) /\ Has(stack[i], CallAts, y) =>
                                Has(stack'[i], CallAts, y)
        PROVE  HostsInv'
    BY <2>1, <2>3, <1>CallHosts, Zenon
  <2>4. ASSUME NEW l \in {"lock", "cancel"}, GoesOn(Top(i).at, l), stack' = Goto(i, l)
        PROVE  /\ \A j \in Procs : j # i => stack'[j] = stack[j] /\ Top(j)' = Top(j)
               /\ Top(i)'.at \in LowerAts \cup CallAts
               /\ \A y : Has(stack[i], CallAts, y) => Has(stack'[i], CallAts, y)
    <3>1. l \in CallAts \cup NewAts \cup BaseAts /\ l \in CallAts
      BY Zenon DEF CallAts
    <3>2. /\ \A j \in Procs : j # i => stack'[j] = stack[j] /\ Top(j)' = Top(j)
          /\ Top(i)'.at = l
          /\ \A ats, y : Has(stack[i], ats, y) <=>
               (Top(i).at \in ats /\ Top(i).x = y) \/ Has(Tail(stack[i]), ats, y)
          /\ \A ats, y : Has(stack'[i], ats, y) <=>
               (l \in ats /\ Top(i).x = y) \/ Has(Tail(stack[i]), ats, y)
      BY <2>1, <2>4, <3>1, AfterGoto, Zenon
    <3> QED BY <3>1, <3>2, Zenon
  <2>5. ASSUME stack' = Return(i)
        PROVE  /\ \A j \in Procs : j # i => stack'[j] = stack[j] /\ Top(j)' = Top(j)
               /\ Top(i)'.at \in LowerAts \cup CallAts
               /\ \A y : Has(stack[i], CallAts, y) /\ y # x => Has(stack'[i], CallAts, y)
    <3>1. /\ \A j \in Procs : j # i => stack'[j] = stack[j] /\ Top(j)' = Top(j)
          /\ Top(i)'.at \in LowerAts
          /\ \A ats, y : Has(stack[i], ats, y) <=>
               (Top(i).at \in ats /\ Top(i).x = y) \/ Has(stack'[i], ats, y)
      BY <2>1, <2>5, AfterReturn, Zenon
    <3> QED BY <3>1, Zenon
  <2>6. CASE Find(i)
    <3>1. q' = q /\ Top(i).at = "find"
      BY <2>6, Zenon DEF Find, At
    <3>2. CASE x \in map
      <4>1. stack' = Goto(i, "lock") /\ GoesOn(Top(i).at, "lock")
        BY <2>6, <3>1, <3>2, Zenon DEF Find, GoesOn
      <4> QED BY <2>3, <2>4, <3>1, <4>1, Zenon
    <3>3. CASE x \notin map
      <4>1. stack' = Return(i)
        BY <2>6, <3>3, Zenon DEF Find
      <4> QED BY <2>3, <2>5, <3>1, <3>3, <4>1, Zenon
    <3> QED BY <3>2, <3>3, Zenon
  <2>7. CASE Lock(i)
    <3> DEFINE r == [q[x] EXCEPT !.lock = i]
    <3>1. q' = [q EXCEPT ![x] = r] /\ stack' = Goto(i, "cancel") /\ GoesOn(Top(i).at, "cancel")
      BY <2>7, Zenon DEF Lock, At, GoesOn
    <3>2. r.eos = q[x].eos /\ r.state = q[x].state /\ r.fragments = q[x].fragments
      BY <2>2, Zenon DEF QES
    <3>3. Live(r) => Live(q[x])
      BY <3>2, Zenon DEF Live
    <3> HIDE DEF r
    <3>4. \A y \in Queries : q'[y].eos = q[y].eos /\ (Live(q'[y]) => Live(q[y]))
      BY <2>1, <2>2, <3>1, <3>2, <3>3, <1>OneField, Zenon
    <3> QED BY <2>3, <2>4, <3>1, <3>4, Zenon
  <2>8. CASE Cancel(i)
    <3>1. ASSUME NEW c \in ChildrenOf(x), q' = [q EXCEPT ![c].is_running = FALSE],
                 stack' = Calls(i, "cancel", IF Rejected THEN <<>>
                                  ELSE CancelInternal(c, None) \o UnregisterQuery(c, None))
          PROVE  HostsInv'
      <4> DEFINE r == [q[c] EXCEPT !.is_running = FALSE]
                 cs == IF Rejected THEN <<>>
                       ELSE CancelInternal(c, None) \o UnregisterQuery(c, None)
      <4>1. c \in Queries
        <5>1. q[x].child_queries \in Seq(Queries)
          BY <2>2, Zenon DEF QES
        <5>2. PICK k \in DOMAIN q[x].child_queries : c = q[x].child_queries[k]
          BY <3>1, Zenon DEF ChildrenOf, Range
        <5> QED BY ONLY <5>1, <5>2
      <4>2. q' = [q EXCEPT ![c] = r] /\ stack' = Calls(i, "cancel", cs)
        BY <3>1, Zenon
      <4>3. cs \in CallLists(c)
        BY <4>1, InLists, Zenon DEF Causes
      <4> HIDE DEF cs
      <4>4. q[c] \in QES
        BY <2>1, <4>1, Zenon
      <4>5. r.eos = q[c].eos /\ r.state = q[c].state /\ r.fragments = q[c].fragments
        BY <4>4, Zenon DEF QES
      <4>6. Live(r) => Live(q[c])
        BY <4>5, Zenon DEF Live
      <4> HIDE DEF r
      <4>7. \A y \in Queries : q'[y].eos = q[y].eos /\ (Live(q'[y]) => Live(q[y]))
        BY <2>1, <4>1, <4>2, <4>5, <4>6, <1>OneField, Zenon
      <4>8. /\ "cancel" \in CallAts \cup NewAts \cup BaseAts /\ GoesOn(Top(i).at, "cancel")
            /\ "cancel" \in CallAts /\ "cancel" \in LowerAts /\ "find" \in CallAts
        BY <2>8, Zenon DEF CallAts, GoesOn, LowerAts, Cancel, At
      <4>9. /\ \A j \in Procs : j # i => stack'[j] = stack[j] /\ Top(j)' = Top(j)
            /\ \/ Top(i)'.at = "cancel" /\ Top(i)'.x = Top(i).x
               \/ cs # <<>> /\ Top(i)'.at = "find" /\ Top(i)'.x = c
            /\ \A ats, y : Has(stack[i], ats, y) <=>
                 (Top(i).at \in ats /\ Top(i).x = y) \/ Has(Tail(stack[i]), ats, y)
            /\ \A ats, y : Has(stack'[i], ats, y) <=>
                 \/ Has(cs, ats, y)
                 \/ "cancel" \in ats /\ Top(i).x = y
                 \/ Has(Tail(stack[i]), ats, y)
        BY <2>1, <4>1, <4>2, <4>3, <4>8, AfterCalls, Zenon
      <4>10. \A y : Has(stack[i], CallAts, y) => Has(stack'[i], CallAts, y)
        BY <4>8, <4>9, Zenon
      <4> QED BY <2>3, <4>7, <4>8, <4>9, <4>10, Zenon
    <3>2. CASE q' = [q EXCEPT ![x] = Cancelled(@, Top(i).cause)] /\ stack' = Return(i)
      <4> DEFINE r == Cancelled(q[x], Top(i).cause)
      <4>1. r.eos = q[x].eos /\ ~Live(r)
        BY <2>2, <1>RecordLive, Zenon
      <4>2. q' = [q EXCEPT ![x] = r]
        BY <3>2, Zenon
      <4> HIDE DEF r
      <4>3. \A y \in Queries : q'[y].eos = q[y].eos /\ (Live(q'[y]) => Live(q[y]))
        BY <2>1, <2>2, <4>1, <4>2, <1>OneField, Zenon
      <4>4. ~Live(q'[x])
        BY <2>1, <2>2, <4>1, <4>2, Zenon
      <4> QED BY <2>3, <2>5, <3>2, <4>3, <4>4, Zenon
    <3> QED BY <2>8, <3>1, <3>2, Zenon DEF Cancel
  <2> QED BY <2>6, <2>7, <2>8, Zenon
\* The rest of UnregisterQuery
<1>EraseHosts.
  ASSUME Inv, ServerInv, HostsInv, NEW i \in Procs, Erase(i) \/ Done(i)
  PROVE  HostsInv'
  <2> USE <1>EraseHosts
  <2> DEFINE x == Top(i).x
  <2>1. /\ TypeInv /\ q \in [Queries -> QES] /\ ShapeOK(stack[i])
        /\ Top(i).at \in {"erase", "done"} /\ Top(i).at \in CallAts
        /\ UNCHANGED <<up, work>> /\ map' \subseteq map /\ map \subseteq Queries
    BY Zenon DEF Erase, Done, At, Inv, TypeInv, ServerInv, CallAts
  <2>2. x \in Queries /\ q[x] \in QES
    <3>1. x \in Queries
      BY <2>1, TopOK, Zenon
    <3> QED BY <2>1, <3>1, Zenon
  <2>3. ASSUME NEW r, r.eos = q[x].eos, r.state = q[x].state, r.fragments = q[x].fragments,
               q' = [q EXCEPT ![x] = r]
        PROVE  \A y \in Queries : q'[y].eos = q[y].eos /\ (Live(q'[y]) => Live(q[y]))
    <3>1. Live(r) => Live(q[x])
      BY <2>3, Zenon DEF Live
    <3> QED BY <2>1, <2>2, <2>3, <3>1, <1>OneField, Zenon
  <2>4. ASSUME stack' = Return(i), x \notin map',
               \A y \in map', h \in Hosts : y \in locations[h] => y \in locations'[h],
               \A y \in Queries : q'[y].eos = q[y].eos /\ (Live(q'[y]) => Live(q[y]))
        PROVE  HostsInv'
    <3>1. /\ \A j \in Procs : j # i => stack'[j] = stack[j] /\ Top(j)' = Top(j)
          /\ Top(i)'.at \in LowerAts
          /\ \A ats, y : Has(stack[i], ats, y) <=>
               (Top(i).at \in ats /\ Top(i).x = y) \/ Has(stack'[i], ats, y)
      BY <2>1, <2>4, AfterReturn, Zenon
    <3>2. \A y \in map' : Has(stack[i], CallAts, y) => Has(stack'[i], CallAts, y)
      BY <2>4, <3>1, Zenon
    <3> QED BY <2>1, <2>4, <3>1, <3>2, <1>CallHosts, Zenon
  <2>5. CASE Erase(i) /\ x \in map
    <3>1. stack' = Goto(i, "done") /\ q' = q /\ locations' = locations
      BY <2>5, Zenon DEF Erase
    <3>2. /\ "done" \in CallAts \cup NewAts \cup BaseAts /\ GoesOn(Top(i).at, "done")
          /\ "done" \in CallAts
      BY <2>5, Zenon DEF CallAts, GoesOn, Erase, At
    <3>3. /\ \A j \in Procs : j # i => stack'[j] = stack[j] /\ Top(j)' = Top(j)
          /\ Top(i)'.at = "done"
          /\ \A ats, y : Has(stack[i], ats, y) <=>
               (Top(i).at \in ats /\ Top(i).x = y) \/ Has(Tail(stack[i]), ats, y)
          /\ \A ats, y : Has(stack'[i], ats, y) <=>
               ("done" \in ats /\ Top(i).x = y) \/ Has(Tail(stack[i]), ats, y)
      BY <2>1, <3>1, <3>2, AfterGoto, Zenon
    <3>4. \A y : Has(stack[i], CallAts, y) => Has(stack'[i], CallAts, y)
      BY <3>2, <3>3, Zenon
    <3> QED BY <2>1, <3>1, <3>2, <3>3, <3>4, <1>CallHosts, Zenon
  <2>6. CASE Erase(i) /\ x \notin map
    <3> DEFINE res == IF i = x THEN "BAD" ELSE q[x].result
               r == [q[x] EXCEPT !.result = res]
    <3>1. q' = [q EXCEPT ![x] = r] /\ stack' = Return(i) /\ map' = map /\ locations' = locations
      BY <2>6, Zenon DEF Erase
    <3> HIDE DEF res
    <3>2. r.eos = q[x].eos /\ r.state = q[x].state /\ r.fragments = q[x].fragments
      BY <2>2, Zenon DEF QES
    <3> HIDE DEF r
    <3>3. \A y \in Queries : q'[y].eos = q[y].eos /\ (Live(q'[y]) => Live(q[y]))
      BY <2>3, <3>1, <3>2, Zenon
    <3> QED BY <2>4, <2>6, <3>1, <3>3, Zenon
  <2>7. CASE Done(i)
    <3>1. x \notin map
      BY <2>2, <2>7, Zenon DEF Inv, Finishing, At, Done
    <3>2. stack' = Return(i) /\ map' = map /\ locations' = [h \in Hosts |-> locations[h] \ {x}]
      BY <2>7, Zenon DEF Done
    <3>3. \A y \in map', h \in Hosts : y \in locations[h] => y \in locations'[h]
      BY <3>1, <3>2, Zenon
    <3> DEFINE rel == IF q[x].coord = None THEN q[x].released ELSE q[x].released + 1
               n == q[x].ref_count + 1
               r == [q[x] EXCEPT !.ref_count = n, !.released = rel]
    <3>4. q' = [q EXCEPT ![x] = r]
      <4>1. q' = [q EXCEPT ![x].ref_count = @ + 1,
                           ![x].released = IF q[x].coord = None THEN @ ELSE @ + 1]
        BY <2>7, Zenon DEF Done
      <4> QED BY <2>1, <2>2, <4>1, Zenon DEF QES
    <3> HIDE DEF rel, n
    <3>5. r.eos = q[x].eos /\ r.state = q[x].state /\ r.fragments = q[x].fragments
      BY <2>2, Zenon DEF QES
    <3> HIDE DEF r
    <3>6. \A y \in Queries : q'[y].eos = q[y].eos /\ (Live(q'[y]) => Live(q[y]))
      BY <2>3, <3>4, <3>5, Zenon
    <3> QED BY <2>4, <3>1, <3>2, <3>3, <3>6, Zenon
  <2> QED BY <2>5, <2>6, <2>7, Zenon DEF Erase
\* As OwnHosts, of a step that does not start the fragments
<1>OwnKeepsHosts.
  ASSUME Inv, ServerInv, HostsInv, NEW x \in Queries, Top(x).at \notin CallAts,
         Top(x).at # "locate", UNCHANGED <<map, up, work, locations>>,
         \A y \in Queries : y # x => q'[y] = q[y], Live(q'[x]) => Live(q[x]),
         \/ \E l \in NewAts \cup BaseAts :
              /\ stack' = Goto(x, l)
              /\ l \in {"fetch_wait", "fetch_next"} /\ x \notin Dml => ~q'[x].eos
         \/ \E l \in BaseAts : \E cs \in CallLists(x) : l \in LowerAts /\ stack' = Calls(x, l, cs)
  PROVE  HostsInv'
  <2> USE <1>OwnKeepsHosts
  <2>1. ~At(x, "locate")
    BY Zenon DEF At
  <2> QED BY <2>1, <1>OwnHosts, Zenon
\* Execute
<1>ExecuteHosts.
  ASSUME Inv, ServerInv, HostsInv, NEW x \in Queries,
         \/ RegisterQuery(x) \/ Plan(x) \/ Exec(x) \/ Launch(x) \/ Locate(x) \/ Started(x)
         \/ ExecuteReturns(x)
  PROVE  HostsInv'
  <2> USE <1>ExecuteHosts
  <2>1. /\ q \in [Queries -> QES] /\ q[x] \in QES /\ map \subseteq Queries
        /\ "ERROR" \in Causes /\ UNCHANGED <<up, work>>
    <3>1. UNCHANGED <<up, work>>
      BY Zenon DEF RegisterQuery, Plan, Exec, Launch, Locate, Started, ExecuteReturns
    <3> QED BY <3>1, Zenon DEF Inv, TypeInv, Causes
  <2>2. Top(x).at \notin CallAts
    BY Zenon DEF RegisterQuery, Plan, Exec, Launch, Locate, Started, ExecuteReturns, At, CallAts
  <2>3. {"plan", "exec", "started", "launch", "locate", "check_fetch", "idle", "end", "failed"}
          \subseteq BaseAts /\ "failed" \in LowerAts
    BY Zenon DEF BaseAts, LowerAts
  <2>4. ASSUME NEW l \in BaseAts, l \notin {"fetch_wait", "fetch_next"}, stack' = Goto(x, l),
               NEW r, Live(r) => Live(q[x]), q' = [q EXCEPT ![x] = r],
               UNCHANGED <<map, locations>>, Top(x).at # "locate"
        PROVE  HostsInv'
    <3>1. q'[x] = r /\ \A y \in Queries : y # x => q'[y] = q[y]
      BY <2>1, <2>4, Zenon
    <3> QED BY <2>1, <2>2, <2>4, <3>1, <1>OwnKeepsHosts, Zenon
  <2>5. ASSUME NEW r \in QES, Live(r) => Live(q[x]), ExecuteFails(x, r),
               UNCHANGED <<map, locations>>, Top(x).at # "locate"
        PROVE  HostsInv'
    <3>1. q' = [q EXCEPT ![x] = Failed(r)]
          /\ stack' = Calls(x, "failed", UnregisterQuery(x, "ERROR"))
      BY <2>5, Zenon DEF ExecuteFails
    <3>2. Live(Failed(r)) => Live(r)
      BY <2>1, <1>RecordLive, Zenon
    <3>3. q'[x] = Failed(r) /\ \A y \in Queries : y # x => q'[y] = q[y]
      BY <2>1, <3>1, Zenon
    <3>4. UnregisterQuery(x, "ERROR") \in CallLists(x)
      BY <2>1, InLists, Zenon
    <3> QED BY <2>1, <2>2, <2>3, <2>5, <3>1, <3>2, <3>3, <3>4, <1>OwnKeepsHosts
  <2>6. CASE RegisterQuery(x)
    <3>1. q[x].fragments = "none"
      BY <2>6, Zenon DEF ServerInv, Fresh, RegisterQuery, At, NewAts
    <3>2. CASE Rejected
      <4>1. UNCHANGED <<map, locations>> /\ stack' = Goto(x, "failed") /\ q' = [q EXCEPT ![x] = q[x]]
            /\ Top(x).at # "locate"
        BY <2>1, <2>6, <3>2, Zenon DEF RegisterQuery, At
      <4> QED BY <2>3, <2>4, <4>1, Zenon
    <3>3. CASE ~Rejected
      <4> DEFINE r == [q[x] EXCEPT !.lock = x]
      <4>1. map' = map \cup {x} /\ stack' = Goto(x, "plan") /\ q' = [q EXCEPT ![x] = r]
            /\ locations' = locations
        BY <2>6, <3>3, Zenon DEF RegisterQuery
      <4>2. r.fragments = "none"
        BY <2>1, <3>1, Zenon DEF QES
      <4> HIDE DEF r
      <4>3. ~Live(q'[x]) /\ \A y \in Queries : y # x => q'[y] = q[y]
        BY <2>1, <4>1, <4>2, Zenon DEF Live
      <4> QED BY <2>1, <2>2, <2>3, <4>1, <4>3, <1>OwnHosts, Zenon
    <3> QED BY <3>2, <3>3, Zenon
  <2>7. CASE Plan(x)
    <3> DEFINE r == [q[x] EXCEPT !.lock = None]
    <3>1. UNCHANGED <<map, locations>> /\ Top(x).at # "locate"
          /\ (ExecuteFails(x, r) \/ (q' = [q EXCEPT ![x] = r] /\ stack' = Goto(x, "exec")))
      BY <2>7, Zenon DEF Plan, At
    <3>2. r \in QES /\ r.eos = q[x].eos /\ r.state = q[x].state /\ r.fragments = q[x].fragments
      BY <2>1, Zenon DEF QES
    <3>3. Live(r) => Live(q[x])
      BY <3>2, Zenon DEF Live
    <3> HIDE DEF r
    <3> QED BY <2>3, <2>4, <2>5, <3>1, <3>2, <3>3, Zenon
  <2>8. CASE Exec(x)
    <3> DEFINE n == q[x].ref_count + 1
               r == IF IsParent(x) THEN [q[x] EXCEPT !.ref_count = n, !.children = TRUE]
                    ELSE [q[x] EXCEPT !.ref_count = n, !.coord = "OK"]
    <3>1. UNCHANGED <<map, locations>> /\ Top(x).at # "locate" /\ q' = [q EXCEPT ![x] = r]
          /\ (stack' = Goto(x, "started") \/ stack' = Goto(x, "launch"))
      BY <2>8, Zenon DEF Exec, At
    <3> HIDE DEF n
    <3>2. r.eos = q[x].eos /\ r.state = q[x].state /\ r.fragments = q[x].fragments
      <4>1. CASE IsParent(x)
        BY <2>1, <4>1, Zenon DEF QES
      <4>2. CASE ~IsParent(x)
        BY <2>1, <4>2, Zenon DEF QES
      <4> QED BY <4>1, <4>2, Zenon
    <3>3. Live(r) => Live(q[x])
      BY <3>2, Zenon DEF Live
    <3> HIDE DEF r
    <3> QED BY <2>3, <2>4, <3>1, <3>3, Zenon
  <2>9. CASE Launch(x)
    <3>1. UNCHANGED <<map, locations>> /\ Top(x).at # "locate"
      BY <2>9, Zenon DEF Launch, At
    <3>2. CASE \E r \in {q[x], CoordCancelled(q[x])} : ExecuteFails(x, r)
      <4>1. CoordCancelled(q[x]) \in QES /\ (Live(CoordCancelled(q[x])) => Live(q[x]))
        BY <2>1, RecordSteps, <1>RecordLive, Zenon DEF Follows
      <4>2. PICK r \in {q[x], CoordCancelled(q[x])} : ExecuteFails(x, r)
        BY <3>2, Zenon
      <4>3. r \in QES /\ (Live(r) => Live(q[x]))
        BY <2>1, <4>1, Zenon
      <4> QED BY <2>5, <3>1, <4>2, <4>3, Zenon
    <3>3. CASE q' = [q EXCEPT ![x].fragments = "running"] /\ stack' = Goto(x, "locate")
      <4>1. \A y \in Queries : y # x => q'[y] = q[y]
        BY <2>1, <3>3, Zenon
      <4> QED BY <2>1, <2>2, <2>3, <3>1, <3>3, <4>1, <1>OwnHosts, Zenon
    <3> QED BY <2>9, <3>2, <3>3, Zenon DEF Launch
  <2>10. CASE Locate(x)
    <3>1. UNCHANGED <<map, q>> /\ stack' = Goto(x, "started")
          /\ locations' = [h \in Hosts |-> locations[h] \cup {x}]
      BY <2>10, Zenon DEF Locate
    <3>2. /\ \A h \in Hosts : x \in locations'[h]
          /\ \A y \in Queries, h \in Hosts : y \in locations[h] => y \in locations'[h]
      BY <3>1, Zenon
    <3> QED BY <2>1, <2>2, <2>3, <3>1, <3>2, <1>OwnHosts, Zenon
  <2>11. CASE Started(x)
    <3> DEFINE st == IF q[x].state = "CREATED" THEN "RUNNING" ELSE q[x].state
               w == IF IsParent(x) THEN "children" ELSE "coord"
               c == IsChild(x)
               r == [q[x] EXCEPT !.state = st, !.wait = w, !.is_running = c]
    <3>1. UNCHANGED <<map, locations>> /\ Top(x).at # "locate" /\ q' = [q EXCEPT ![x] = r]
          /\ (stack' = Goto(x, "check_fetch") \/ stack' = Goto(x, "idle"))
      BY <2>1, <2>11, Zenon DEF Started, At
    <3>2. st # "EXCEPTION" => q[x].state # "EXCEPTION"
      BY Zenon
    <3> HIDE DEF st, w, c
    <3>3. r.eos = q[x].eos /\ r.state = st /\ r.fragments = q[x].fragments
      BY <2>1, Zenon DEF QES
    <3>4. Live(r) => Live(q[x])
      BY <3>2, <3>3, Zenon DEF Live
    <3> HIDE DEF r
    <3> QED BY <2>3, <2>4, <3>1, <3>4, Zenon
  <2>12. CASE ExecuteReturns(x)
    <3> DEFINE c == IsChild(x)
               r == [q[x] EXCEPT !.is_running = c, !.result = "BAD"]
    <3>1. UNCHANGED <<map, locations>> /\ Top(x).at # "locate" /\ q' = [q EXCEPT ![x] = r]
          /\ stack' = Goto(x, "end")
      BY <2>12, Zenon DEF ExecuteReturns, At
    <3> HIDE DEF c
    <3>2. r.eos = q[x].eos /\ r.state = q[x].state /\ r.fragments = q[x].fragments
      BY <2>1, Zenon DEF QES
    <3>3. Live(r) => Live(q[x])
      BY <3>2, Zenon DEF Live
    <3> HIDE DEF r
    <3> QED BY <2>3, <2>4, <3>1, <3>3, Zenon
  <2> QED BY <2>6, <2>7, <2>8, <2>9, <2>10, <2>11, <2>12, Zenon
\* Fetch, and what a session's client calls
<1>FetchHosts.
  ASSUME Inv, ServerInv, HostsInv, NEW x \in Queries,
         Fetch(x) \/ FetchWait(x) \/ FetchNext(x) \/ ClientCalls(x)
  PROVE  HostsInv'
  <2> USE <1>FetchHosts
  <2>1. q \in [Queries -> QES] /\ q[x] \in QES /\ None \in Causes
    BY Zenon DEF Inv, TypeInv, Causes
  <2>2. /\ Top(x).at \notin CallAts /\ Top(x).at # "locate"
        /\ UNCHANGED <<map, up, work, locations>>
    BY Zenon DEF Fetch, FetchWait, FetchNext, ClientCalls, At, CallAts
  <2> DEFINE Going == \E l \in BaseAts : l \notin {"fetch_wait", "fetch_next"} /\ stack' = Goto(x, l)
             Closing == \E l \in BaseAts : \E cs \in CallLists(x) :
                          l \in LowerAts /\ stack' = Calls(x, l, cs)
             Reading == /\ stack' = Goto(x, "fetch_wait") \/ stack' = Goto(x, "fetch_next")
                        /\ x \notin Dml => ~q'[x].eos
  <2>3. ASSUME Going \/ Closing \/ Reading, NEW r, q' = [q EXCEPT ![x] = r], Live(r) => Live(q[x])
        PROVE  HostsInv'
    <3>1. q'[x] = r /\ \A y \in Queries : y # x => q'[y] = q[y]
      BY <2>1, <2>3, Zenon
    <3>2. CASE Going
      <4>1. PICK l \in BaseAts : l \notin {"fetch_wait", "fetch_next"} /\ stack' = Goto(x, l)
        BY <3>2, Zenon
      <4> QED BY <2>2, <2>3, <3>1, <4>1, <1>OwnKeepsHosts, Zenon
    <3>3. CASE Closing
      <4>1. PICK l \in BaseAts, cs \in CallLists(x) : l \in LowerAts /\ stack' = Calls(x, l, cs)
        BY <3>3, Zenon
      <4> QED BY <2>2, <2>3, <3>1, <4>1, <1>OwnKeepsHosts, Zenon
    <3>4. CASE Reading
      <4>1. {"fetch_wait", "fetch_next"} \subseteq BaseAts
        BY Zenon DEF BaseAts
      <4> QED BY <2>2, <2>3, <3>1, <3>4, <4>1, <1>OwnKeepsHosts, Zenon
    <3> QED BY <2>3, <3>2, <3>3, <3>4, Zenon
  <2>4. FetchFails(x) => Closing
    <3>1. {"check_close", "end"} \subseteq BaseAts \cap LowerAts
      BY Zenon DEF BaseAts, LowerAts
    <3>2. UnregisterQuery(x, None) \in CallLists(x)
      BY <2>1, InLists, Zenon
    <3> QED BY <3>1, <3>2, Zenon DEF FetchFails
  <2>5. \A more \in BOOLEAN : FetchReturns(x, more) => Going
    <3>1. {"check_close", "idle", "check_fetch"} \subseteq BaseAts
      BY Zenon DEF BaseAts
    <3> QED BY <3>1, Zenon DEF FetchReturns
  <2>6. FetchException(x) => Going \/ Closing
    BY <2>4, <2>5, Zenon DEF FetchException
  <2>7. ASSUME Going \/ Closing, q' = q PROVE HostsInv'
    <3>1. q' = [q EXCEPT ![x] = q[x]]
      BY <2>1, <2>7, Zenon
    <3> HIDE DEF Going, Closing, Reading
    <3> QED BY <2>3, <2>7, <3>1, Zenon
  <2>8. CASE ClientCalls(x)
    <3>1. {"fetch", "end"} \subseteq BaseAts /\ "end" \in LowerAts
      BY Zenon DEF BaseAts, LowerAts
    <3>2. UnregisterQuery(x, None) \in CallLists(x)
      BY <2>1, InLists
    <3>3. (Going \/ Closing) /\ q' = q
      BY <2>8, <3>1, <3>2, Zenon DEF ClientCalls
    <3> QED BY <2>7, <3>3, Zenon
  <2>9. CASE Fetch(x)
    <3>1. CASE q' = q /\ (FetchFails(x) \/ FetchException(x) \/ FetchReturns(x, FALSE))
      BY <2>4, <2>5, <2>6, <2>7, <3>1, Zenon
    <3>2. CASE /\ ~q[x].eos /\ q' = [q EXCEPT ![x].ref_count = @ + 1]
               /\ stack' = Goto(x, "fetch_wait")
      <4> DEFINE n == q[x].ref_count + 1
                 r == [q[x] EXCEPT !.ref_count = n]
      <4>1. q' = [q EXCEPT ![x] = r]
        BY <3>2, Zenon
      <4> HIDE DEF n
      <4>2. r.eos = q[x].eos /\ r.state = q[x].state /\ r.fragments = q[x].fragments
        BY <2>1, Zenon DEF QES
      <4> HIDE DEF r
      <4>3. Live(r) => Live(q[x])
        BY <4>2, Zenon DEF Live
      <4>4. Reading
        BY <2>1, <3>2, <4>1, <4>2, Zenon
      <4> HIDE DEF Going, Closing, Reading
      <4> QED BY <2>3, <4>1, <4>3, <4>4, Zenon
    <3> QED BY <2>9, <3>1, <3>2, Zenon DEF Fetch
  <2>10. CASE FetchError(x)
    <3> DEFINE f == Failed(q[x])
               n == q[x].ref_count - 1
               r == [f EXCEPT !.ref_count = n]
    <3>1. q' = [q EXCEPT ![x] = r] /\ Closing
      BY <2>4, <2>10, Zenon DEF FetchError
    <3> HIDE DEF n
    <3>2. f \in QES /\ (Live(f) => Live(q[x]))
      BY <2>1, RecordSteps, <1>RecordLive, Zenon DEF Follows
    <3> HIDE DEF f
    <3>3. r.eos = f.eos /\ r.state = f.state /\ r.fragments = f.fragments
      BY <3>2, Zenon DEF QES
    <3> HIDE DEF r
    <3>4. Live(r) => Live(q[x])
      BY <3>2, <3>3, Zenon DEF Live
    <3> HIDE DEF Going, Closing, Reading
    <3> QED BY <2>3, <3>1, <3>4, Zenon
  <2>11. CASE FetchCancelled(x)
    <3> DEFINE n == q[x].ref_count - 1
               r == [q[x] EXCEPT !.ref_count = n]
    <3>1. q' = [q EXCEPT ![x] = r] /\ (Going \/ Closing)
      BY <2>6, <2>11, Zenon DEF FetchCancelled
    <3> HIDE DEF n
    <3>2. r.eos = q[x].eos /\ r.state = q[x].state /\ r.fragments = q[x].fragments
      BY <2>1, Zenon DEF QES
    <3> HIDE DEF r
    <3>3. Live(r) => Live(q[x])
      BY <3>2, Zenon DEF Live
    <3> HIDE DEF Going, Closing, Reading
    <3> QED BY <2>3, <3>1, <3>3, Zenon
  <2>12. FetchOK(x)
    BY Zenon DEF HostsInv
  <2>13. CASE FetchWait(x)
    <3>1. CASE /\ q[x].state # "EXCEPTION" /\ q' = [q EXCEPT ![x].state = "FINISHED"]
               /\ stack' = Goto(x, "fetch_next")
      <4> DEFINE r == [q[x] EXCEPT !.state = "FINISHED"]
      <4>1. q' = [q EXCEPT ![x] = r]
        BY <3>1, Zenon
      <4>2. r.eos = q[x].eos /\ r.fragments = q[x].fragments
        BY <2>1, Zenon DEF QES
      <4> HIDE DEF r
      <4>3. Live(r) => Live(q[x])
        BY <3>1, <4>2, Zenon DEF Live
      <4>4. Reading
        BY <2>1, <2>12, <2>13, <3>1, <4>1, <4>2, Zenon DEF FetchWait, FetchOK, At
      <4> HIDE DEF Going, Closing, Reading
      <4> QED BY <2>3, <4>1, <4>3, <4>4, Zenon
    <3> QED BY <2>10, <2>11, <2>13, <3>1, Zenon DEF FetchWait
  <2>14. CASE FetchNext(x)
    <3>1. ASSUME NEW eos \in IF x \in Dml THEN {TRUE} ELSE BOOLEAN,
                 q' = [q EXCEPT ![x].eos = eos, ![x].ref_count = @ - 1], FetchReturns(x, ~eos)
          PROVE  HostsInv'
      <4> DEFINE n == q[x].ref_count - 1
                 r == [q[x] EXCEPT !.eos = eos, !.ref_count = n]
      <4>1. q' = [q EXCEPT ![x] = r]
        BY <2>1, <3>1, Zenon
      <4> HIDE DEF n
      <4>2. r.eos = eos /\ r.state = q[x].state /\ r.fragments = q[x].fragments
        BY <2>1, Zenon DEF QES
      <4> HIDE DEF r
      <4>3. ~eos => x \notin Dml /\ ~q[x].eos
        BY <2>12, <2>14, Zenon DEF FetchNext, FetchOK, At
      <4>4. Live(r) => Live(q[x])
        BY <4>2, <4>3, Zenon DEF Live
      <4>5. (~eos) \in BOOLEAN
        BY Zenon
      <4>6. Going
        BY <2>5, <3>1, <4>5, Zenon
      <4> HIDE DEF Going, Closing, Reading
      <4> QED BY <2>3, <4>1, <4>4, <4>6, Zenon
    <3> QED BY <2>10, <2>11, <2>14, <3>1, Zenon DEF FetchNext
  <2> QED BY <2>8, <2>9, <2>13, <2>14, Zenon
\* The thread of the child queries
<1>ChildHosts.
  ASSUME Inv, ServerInv, HostsInv, NEW x \in Queries,
         CheckParentStatus(x) \/ CloseOperation(x) \/ ExecAndFetchReturns(x)
  PROVE  HostsInv'
  <2> USE <1>ChildHosts
  <2>1. q \in [Queries -> QES] /\ q[x] \in QES /\ None \in Causes
    BY Zenon DEF Inv, TypeInv, Causes
  <2>2. /\ Top(x).at \notin CallAts /\ Top(x).at # "locate"
        /\ UNCHANGED <<map, up, work, locations>>
    BY Zenon DEF CheckParentStatus, CloseOperation, ExecAndFetchReturns, At, CallAts
  <2>3. \A y \in Queries : y # x => q'[y] = q[y]
    BY <2>1, Zenon DEF CheckParentStatus, CloseOperation, ExecAndFetchReturns
  <2>4. Live(q'[x]) => Live(q[x])
    <3>1. CASE CheckParentStatus(x)
      <4> DEFINE r == [q[x] EXCEPT !.is_running = FALSE, !.result = "BAD"]
      <4>1. r.eos = q[x].eos /\ r.state = q[x].state /\ r.fragments = q[x].fragments
        BY <2>1, Zenon DEF QES
      <4>2. q' = q \/ q' = [q EXCEPT ![x] = r]
        BY <3>1, Zenon DEF CheckParentStatus
      <4> HIDE DEF r
      <4> QED BY <2>1, <4>1, <4>2, Zenon DEF Live
    <3>2. CASE CloseOperation(x)
      <4> DEFINE r == [q[x] EXCEPT !.result = "BAD"]
      <4>1. r.eos = q[x].eos /\ r.state = q[x].state /\ r.fragments = q[x].fragments
        BY <2>1, Zenon DEF QES
      <4>2. q' = q \/ q' = [q EXCEPT ![x] = r]
        BY <3>2, Zenon DEF CloseOperation
      <4> HIDE DEF r
      <4> QED BY <2>1, <4>1, <4>2 DEF Live
    <3>3. CASE ExecAndFetchReturns(x)
      <4> DEFINE res == IF q[x].result = None THEN "OK" ELSE q[x].result
                 r == [q[x] EXCEPT !.is_running = FALSE, !.result = res]
      <4>1. q' = [q EXCEPT ![x] = r]
        BY <2>1, <3>3, Zenon DEF ExecAndFetchReturns
      <4> HIDE DEF res
      <4>2. r.eos = q[x].eos /\ r.state = q[x].state /\ r.fragments = q[x].fragments
        BY <2>1, Zenon DEF QES
      <4> HIDE DEF r
      <4> QED BY <2>1, <4>1, <4>2, Zenon DEF Live
    <3> QED BY <3>1, <3>2, <3>3, Zenon
  <2>5. /\ {"end", "closed", "fetch", "close"} \subseteq BaseAts
        /\ {"end", "closed"} \subseteq LowerAts /\ "new" \in NewAts
    BY Zenon DEF BaseAts, LowerAts, NewAts
  <2>6. CASE CloseOperation(x) \/ ExecAndFetchReturns(x)
    <3>1. UnregisterQuery(x, None) \in CallLists(x)
      BY <2>1, InLists, Zenon
    <3>2. \/ stack' = Goto(x, "closed") \/ stack' = Goto(x, "end")
          \/ stack' = Calls(x, "closed", UnregisterQuery(x, None))
      BY <2>6, Zenon DEF CloseOperation, ExecAndFetchReturns
    <3>3. CASE stack' = Goto(x, "closed")
      BY <2>2, <2>3, <2>4, <2>5, <3>3, <1>OwnKeepsHosts, SMTT(40)
    <3>4. CASE stack' = Goto(x, "end")
      BY <2>2, <2>3, <2>4, <2>5, <3>4, <1>OwnKeepsHosts
    <3>5. CASE stack' = Calls(x, "closed", UnregisterQuery(x, None))
      BY <2>2, <2>3, <2>4, <2>5, <3>1, <3>5, <1>OwnKeepsHosts, Zenon
    <3> QED BY <3>2, <3>3, <3>4, <3>5, Zenon
  <2>7. CASE CheckParentStatus(x)
    <3>1. CASE q[ParentOf(x)].status = "OK"
      <4>1. stack' = Goto(x, After(Top(x).at)) /\ After(Top(x).at) \in {"new", "fetch", "close"}
        BY <2>7, <3>1, Zenon DEF CheckParentStatus, After
      <4> QED BY <2>2, <2>3, <2>4, <2>5, <4>1, <1>OwnKeepsHosts, Zenon
    <3>2. CASE q[ParentOf(x)].status # "OK"
      <4> DEFINE cs == IF ~q[x].is_running \/ Rejected THEN <<>>
                       ELSE CancelInternal(x, None) \o UnregisterQuery(x, None)
      <4>1. stack' = Calls(x, "end", cs)
        BY <2>7, <3>2, Zenon DEF CheckParentStatus
      <4>2. cs \in CallLists(x)
        BY <2>1, InLists, Zenon
      <4> HIDE DEF cs
      <4> QED BY <2>2, <2>3, <2>4, <2>5, <4>1, <4>2, <1>OwnKeepsHosts, Zenon
    <3> QED BY <3>1, <3>2, Zenon
  <2> QED BY <2>6, <2>7, Zenon
\* Wait, and what fills the queue of cancellations
<1>QueueHosts.
  ASSUME HasRoom, Inv, ServerInv, HostsInv,
         \/ \E x \in Queries : WaitStep(x) \/ ExpireQuery(x)
         \/ ExpireSession \/ MembershipCallback \/ \E h \in Hosts : BackendFails(h)
         \/ UNCHANGED vars
  PROVE  HostsInv'
  <2> USE <1>QueueHosts
  <2>1. TypeInv /\ map \subseteq Queries /\ locations \in [Hosts -> SUBSET Queries]
        /\ work \subseteq CancellationWork
    BY Zenon DEF Inv, TypeInv
  <2>2. UNCHANGED <<map, stack>>
    BY Zenon DEF WaitStep, WaitForChildQueries, CoordWait, UpdateCatalog, WaitFinish, ExpireQuery,
           ExpireSession, MembershipCallback, BackendFails, vars
  <2>3. \A y \in Queries : Top(y)' = Top(y)
    BY <2>2, Zenon DEF Top
  <2>4. ASSUME UNCHANGED q, \A y \in map, h \in Hosts : Noticed(y, h) => Noticed(y, h)'
        PROVE  HostsInv'
    BY <2>1, <2>2, <2>3, <2>4, <1>StillHosts, Zenon
  <2>5. ASSUME UNCHANGED <<q, locations>>, up' \subseteq up, work \subseteq work'
        PROVE  HostsInv'
    <3>1. \A y \in map, h \in Hosts : Noticed(y, h) => Noticed(y, h)'
      BY <2>2, <2>5, Zenon DEF Noticed
    <3> QED BY <2>4, <2>5, <3>1, Zenon
  <2>6. ASSUME NEW x \in Queries, WaitStep(x) PROVE HostsInv'
    <3>1. UNCHANGED <<locations, up, work>>
      BY <2>6, Zenon DEF WaitStep, WaitForChildQueries, CoordWait, UpdateCatalog, WaitFinish
    <3>2. [Next]_vars
      BY <2>6, Zenon DEF Next
    <3>3. \A y \in Queries : q[y].state = "EXCEPTION" => q'[y].state = "EXCEPTION"
      BY <3>2, NextInv, Zenon
    <3>4. \A y \in Queries : /\ q'[y].lock = q[y].lock
                             /\ q'[y].is_running = q[y].is_running
                             /\ q'[y].fragments = q[y].fragments
                             /\ q[y].eos => q'[y].eos
                             /\ y \notin Dml /\ q'[y].eos => q[y].eos
      BY <2>1, <2>6, WaitFields, Zenon
    <3>5. \A y \in Queries : Live(q'[y]) => Live(q[y])
      BY <3>3, <3>4, Zenon DEF Live
    <3>6. \A y \in map', h \in Hosts : Noticed(y, h) => Noticed(y, h)'
      BY <2>2, <3>1, Zenon DEF Noticed
    <3> QED BY <2>1, <2>2, <2>3, <3>4, <3>5, <3>6, <1>StillHosts, Zenon
  <2>7. ASSUME NEW x \in Queries, ExpireQuery(x) PROVE HostsInv'
    BY <2>5, <2>7, Zenon DEF ExpireQuery
  <2>8. CASE ExpireSession
    BY <2>5, <2>8, Zenon DEF ExpireSession
  <2>9. ASSUME NEW h \in Hosts, BackendFails(h) PROVE HostsInv'
    BY <2>5, <2>9, Zenon DEF BackendFails
  <2>10. CASE UNCHANGED vars
    BY <2>5, <2>10, Zenon DEF vars
  <2>11. CASE MembershipCallback
    <3> DEFINE lost == UNION {locations[h] : h \in Hosts \ up}
    <3>1. lost \in SUBSET Queries
      BY <2>1, Zenon
    <3>2. ~(Cardinality(work) + Cardinality(lost) > MaxQueue)
      BY <2>1, <3>1, Zenon DEF HasRoom
    <3>3. /\ UNCHANGED <<q, up>>
          /\ locations' = [h \in Hosts |-> IF h \in up THEN locations[h] ELSE {}]
          /\ work' = work \cup {[x |-> x, unregister |-> FALSE] : x \in lost}
      BY <2>11, <3>2, Zenon DEF MembershipCallback
    <3>4. ASSUME NEW y \in map, NEW h \in Hosts, Noticed(y, h) PROVE Noticed(y, h)'
      <4>1. CASE y \in locations[h] /\ h \in up
        BY <3>3, <4>1, Zenon DEF Noticed
      <4>2. CASE y \in locations[h] /\ h \notin up
        <5> DEFINE w == [x |-> y, unregister |-> FALSE]
        <5>1. y \in lost
          BY <4>2, Zenon
        <5> HIDE DEF lost
        <5>2. w \in work' /\ w.x = y
          BY <3>3, <5>1, Zenon
        <5> HIDE DEF w
        <5> QED BY <3>3, <4>2, <5>2, Zenon DEF Noticed
      <4>3. CASE y \notin locations[h]
        <5> HIDE DEF lost
        <5> QED BY <2>2, <3>3, <3>4, <4>3, Zenon DEF Noticed
      <4> QED BY <4>1, <4>2, <4>3, Zenon
    <3> QED BY <2>4, <3>3, <3>4, Zenon
  <2> QED BY <2>6, <2>7, <2>8, <2>9, <2>10, <2>11, Zenon
\* The threads that execute no query
<1>PoolHosts.
  ASSUME Inv, ServerInv, HostsInv,
         OtherCalls \/ CloseSession \/ CancelSessionQueries \/ CancelFromThreadPool
  PROVE  HostsInv'
  <2> USE <1>PoolHosts
  <2>1. /\ TypeInv /\ map \subseteq Queries /\ stack \in [Procs -> Seq(Frame)] /\ "ERROR" \in Causes
        /\ {Other, Closer, Worker} \subseteq Procs /\ Queries \subseteq Procs
        /\ Queries \cap {Other, Closer, Worker} = {} /\ Worker \notin {Other, Closer}
    BY ServerAssumption, Zenon DEF Inv, TypeInv, Causes, Procs
  <2>2. UNCHANGED <<map, q, up, locations>>
    BY Zenon DEF OtherCalls, CloseSession, CancelSessionQueries, CancelFromThreadPool
  <2>3. ASSUME NEW i \in {Other, Closer}, NEW s, stack' = [stack EXCEPT ![i] = s], work' = work
        PROVE  HostsInv'
    <3>1. \A j \in Procs : j # i => stack'[j] = stack[j]
      BY <2>1, <2>3, Zenon
    <3>2. stack'[Worker] = stack[Worker] /\ \A y \in Queries : Top(y)' = Top(y)
      BY <2>1, <3>1, Zenon DEF Top
    <3>3. \A y \in map', h \in Hosts : Noticed(y, h) => Noticed(y, h)'
      BY <2>2, <2>3, <3>2, Zenon DEF Noticed
    <3> QED BY <2>1, <2>2, <3>2, <3>3, <1>StillHosts, Zenon
  <2>4. CASE OtherCalls
    <3>1. PICK calls : stack' = Calls(Other, "idle", calls)
      BY <2>4, Zenon DEF OtherCalls
    <3>2. work' = work
      BY <2>4, Zenon DEF OtherCalls
    <3> QED BY <2>3, <3>1, <3>2, Zenon DEF Calls
  <2>5. CASE CloseSession
    BY <2>3, <2>5, Zenon DEF CloseSession, Goto
  <2>6. CASE CancelSessionQueries
    <3>1. CASE session.todo = {}
      BY <2>3, <2>6, <3>1, Zenon DEF CancelSessionQueries, Goto
    <3>2. CASE session.todo # {}
      BY <2>3, <2>6, <3>2, Zenon DEF CancelSessionQueries, Calls
    <3> QED BY <3>1, <3>2, Zenon
  <2>7. CASE CancelFromThreadPool
    <3>1. PICK w \in work :
            /\ work' = work \ {w}
            /\ stack' = Calls(Worker, "idle", IF w.unregister THEN UnregisterQuery(w.x, "ERROR")
                                              ELSE CancelInternal(w.x, "ERROR"))
      BY <2>7, Zenon DEF CancelFromThreadPool
    <3> DEFINE y == w.x
               cs == IF w.unregister THEN UnregisterQuery(y, "ERROR") ELSE CancelInternal(y, "ERROR")
    <3>2. y \in Queries
      BY <2>1, Zenon DEF TypeInv, CancellationWork
    <3>3. cs \in CallLists(y) /\ Has(cs, CallAts, y)
      BY <2>1, <3>2, InLists, UnregisterHas, Zenon
    <3>4. stack' = Calls(Worker, "idle", cs)
      BY <3>1, Zenon
    <3> HIDE DEF y, cs
    <3>5. /\ Worker \in Procs /\ ShapeOK(stack[Worker]) /\ GoesOn(Top(Worker).at, "idle")
          /\ "idle" \in CallAts \cup NewAts \cup BaseAts /\ "idle" \in LowerAts
          /\ Top(Worker).at \notin CallAts
      BY <2>1, <2>7, Zenon DEF CancelFromThreadPool, At, ServerInv, GoesOn, CallAts, BaseAts, LowerAts
    <3>6. /\ \A j \in Procs : j # Worker => stack'[j] = stack[j] /\ Top(j)' = Top(j)
          /\ \A ats, x : Has(stack[Worker], ats, x) <=>
               (Top(Worker).at \in ats /\ Top(Worker).x = x) \/ Has(Tail(stack[Worker]), ats, x)
          /\ \A ats, x : Has(stack'[Worker], ats, x) <=>
               \/ Has(cs, ats, x)
               \/ "idle" \in ats /\ Top(Worker).x = x
               \/ Has(Tail(stack[Worker]), ats, x)
      BY <2>1, <3>2, <3>3, <3>4, <3>5, AfterCalls, Zenon
    <3>7. /\ \A x : Has(stack[Worker], CallAts, x) => Has(stack'[Worker], CallAts, x)
          /\ Has(stack'[Worker], CallAts, y)
      BY <3>3, <3>5, <3>6, Zenon
    <3>8. ASSUME NEW x \in map', NEW h \in Hosts, Noticed(x, h) PROVE Noticed(x, h)'
      <4>1. CASE x = y
        BY <2>2, <3>7, <3>8, <4>1, Zenon DEF Noticed
      <4>2. CASE x # y
        <5>1. \A v \in work : v.x = x => v \in work'
          BY <3>1, <4>2, Zenon DEF y
        <5> QED BY <2>2, <3>7, <3>8, <5>1, Zenon DEF Noticed
      <4> QED BY <4>1, <4>2, Zenon
    <3>9. \A x \in Queries : Top(x)' = Top(x)
      BY <2>1, <3>6, Zenon
    <3> QED BY <2>1, <2>2, <3>8, <3>9, <1>StillHosts, Zenon
  <2> QED BY <2>4, <2>5, <2>6, <2>7, Zenon
<1> SUFFICES ASSUME HasRoom, Inv, ServerInv, HostsInv, [Next]_vars
             PROVE  HostsInv'
  BY Zenon
<1>1. ASSUME NEW i \in Procs, Unregistering(i) PROVE HostsInv'
  BY <1>1, <1>CancelHosts, <1>EraseHosts, Zenon DEF Unregistering
<1>2. ASSUME NEW x \in Queries, Executing(x) \/ Child(x) \/ ClientCalls(x) PROVE HostsInv'
  BY <1>2, <1>ExecuteHosts, <1>FetchHosts, <1>ChildHosts, Zenon DEF Executing, Child
<1>3. CASE \/ \E x \in Queries : WaitStep(x) \/ ExpireQuery(x)
           \/ ExpireSession \/ MembershipCallback \/ \E h \in Hosts : BackendFails(h)
           \/ UNCHANGED vars
  BY <1>3, <1>QueueHosts, Zenon
<1>4. CASE OtherCalls \/ CloseSession \/ CancelSessionQueries \/ CancelFromThreadPool
  BY <1>4, <1>PoolHosts, Zenon
<1> QED BY <1>1, <1>2, <1>3, <1>4, Zenon DEF Next

INSTANCE FiniteSetTheorems

\* There are at most two cancellations of a query in the queue
LEMMA WorkBound ==
    ASSUME NEW W \in SUBSET CancellationWork, NEW L \in SUBSET Queries, IsFiniteSet(Queries)
    PROVE  /\ IsFiniteSet(W) /\ IsFiniteSet(L)
           /\ Cardinality(W) + Cardinality(L) <= 3 * Cardinality(Queries)
<1> DEFINE n == Cardinality(Queries)
<1>1. ASSUME NEW b \in BOOLEAN, NEW U, U = {w \in W : w.unregister = b}
      PROVE  IsFiniteSet(U) /\ Cardinality(U) <= n
  <2> DEFINE f == [w \in U |-> w.x]
  <2>1. f \in [U -> Queries]
    BY <1>1, Zenon DEF CancellationWork
  <2>2. \A v, w \in U : v.x = w.x => v = w
    BY <1>1 DEF CancellationWork
  <2>3. IsInjective(f)
    BY <2>2, Zenon DEF IsInjective
  <2> HIDE DEF f
  <2>4. f \in Injection(U, Queries)
    BY <2>1, <2>3, Zenon DEF Injection
  <2> QED BY <2>4, FS_Injection, Zenon
<1> DEFINE T == {w \in W : w.unregister = TRUE}
           F == {w \in W : w.unregister = FALSE}
<1>2. W = T \cup F
  BY Zenon DEF CancellationWork
<1>3. IsFiniteSet(T) /\ Cardinality(T) <= n /\ IsFiniteSet(F) /\ Cardinality(F) <= n
  BY <1>1, Zenon
<1> HIDE DEF T, F
<1>4. /\ n \in Nat /\ Cardinality(T) \in Nat /\ Cardinality(F) \in Nat
      /\ Cardinality(T \cap F) \in Nat
  <2>1. IsFiniteSet(T \cap F)
    BY <1>3, FS_Subset, Zenon
  <2> QED BY <1>3, <2>1, FS_CardinalityType, Zenon
<1>5. Cardinality(W) = Cardinality(T) + Cardinality(F) - Cardinality(T \cap F)
  BY <1>2, <1>3, FS_Union, Zenon
<1>6. Cardinality(L) \in Nat /\ Cardinality(L) <= n
  BY FS_Subset, FS_CardinalityType, Zenon
<1>7. IsFiniteSet(W) /\ IsFiniteSet(L)
  BY <1>2, <1>3, FS_Union, FS_Subset, Zenon
<1> QED BY <1>3, <1>4, <1>5, <1>6, <1>7

\* A queue that suffices has room.
LEMMA RoomSuffices == QueueSuffices => HasRoom
<1> SUFFICES ASSUME QueueSuffices, NEW W \in SUBSET CancellationWork, NEW L \in SUBSET Queries
             PROVE  ~(Cardinality(W) + Cardinality(L) > MaxQueue)
  BY Zenon DEF HasRoom
<1>1. /\ IsFiniteSet(W) /\ IsFiniteSet(L) /\ IsFiniteSet(Queries)
      /\ Cardinality(W) + Cardinality(L) <= 3 * Cardinality(Queries)
  BY WorkBound, Zenon DEF QueueSuffices
<1>2. Cardinality(W) \in Nat /\ Cardinality(L) \in Nat /\ Cardinality(Queries) \in Nat
  BY <1>1, FS_CardinalityType, Zenon
<1> QED BY <1>1, <1>2, ServerAssumption DEF QueueSuffices

\* For any number of queries, threads and backends, if the queue of cancellations has room for
\* every query: a running query with fragments at a failed backend is still listed at it, or
\* its cancellation is queued or under way.  Only Execute makes a query live, and enters it at
\* every host before it goes on; MembershipCallback queues what it erases; and the thread of
\* the pool takes a cancellation out of the queue only to execute it.
THEOREM FailedHostsAreNoticed ==
    ASSUME QueueSuffices
    PROVE  Spec => []FailedHostsNoticed
<1>1. Init => HostsInv
  <2> SUFFICES ASSUME Init PROVE HostsInv
    BY Zenon
  <2>1. map = {}
    BY Zenon DEF Init
  <2>2. ASSUME NEW x \in Queries PROVE FetchOK(x)
    <3>1. ~q[x].eos
      BY DEF Init, NewQuery
    <3> QED BY <3>1, Zenon DEF FetchOK
  <2> QED BY <2>1, <2>2, Zenon DEF HostsInv
<1>2. Inv /\ ServerInv /\ HostsInv /\ [Next]_vars => HostsInv'
  BY NextHosts, RoomSuffices, Zenon
<1>3. Inv /\ ServerInv /\ HostsInv => FailedHostsNoticed
  <2> SUFFICES ASSUME Inv, ServerInv, HostsInv, NEW x \in map, NEW h \in Hosts \ up, Live(q[x]),
                      \A k \in 1..Len(stack[x]) : stack[x][k].at # "locate"
               PROVE  \/ x \in locations[h]
                      \/ \E w \in work : w.x = x
                      \/ \E k \in 1..Len(stack[Worker]) : stack[Worker][k].x = x
    BY Zenon DEF FailedHostsNoticed, Live
  <2>1. x \in Queries /\ x \in Procs /\ StackOK(stack[x])
    BY Zenon DEF Inv, TypeInv, Procs
  <2>2. 1 \in 1..Len(stack[x]) /\ Top(x) = stack[x][1]
    <3>1. stack[x] \in Seq(Frame) /\ stack[x] # <<>>
      BY <2>1, Zenon DEF StackOK
    <3> QED BY ONLY <3>1 DEF Top
  <2>3. ~At(x, "locate")
    BY <2>2, Zenon DEF At
  <2>4. Noticed(x, h)
    BY <2>3, Zenon DEF HostsInv, HostsOK
  <2> QED BY <2>4, Zenon DEF Noticed, Has
<1> QED BY <1>1, <1>2, <1>3, ServerInvariant, PTL DEF Spec
================================================================================
