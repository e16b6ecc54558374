------------------------- MODULE ResourceBrokerProofs --------------------------
(***************************************************************************)
(* ResourceBroker, for every set of queries, every number of attempts and    *)
(* every number of faults: a notification only reaches a Reserve that has    *)
(* not returned, what Llama says of a reservation is heard, and a query that *)
(* is gone has left no reservation behind.                                   *)
(***************************************************************************)
EXTENDS ResourceBroker, SequenceTheorems, TLAPS

States == {"pending", "granted", "rejected", "preempted", "released", "lost"}
Reservation == [q : Queries, state : States, start : Nat]
Pcs == {"new", "send", "register", "add", "wait", "erase", "validate", "run", "finish",
        "remove", "gone"}
Notes == [id : Nat, kind : {"granted", "rejected", "preempted"}, handle : Nat,
          checked : BOOLEAN]
Thread == [pc : Pcs, attempts : Nat, id : Nat, reservation_id : Nat, am_handle : Nat,
           current : Nat, request : {None, "reserve", "release"},
           promise : {None, "granted", "rejected"}, timed_out : BOOLEAN, excused : BOOLEAN]

TypeOK ==
    /\ llama \in [start : Nat, reservations : Seq(Reservation)]
    /\ notes \subseteq Notes
    /\ llama_handle \in Nat
    /\ thread \in [Queries -> Thread]

-------------------------------------------------------------------------------
(* The inductive invariant *)

\* Handles only grow, from this process to Llama
HandlesOrdered ==
    llama_handle <= llama.start /\ \A q \in Queries : thread[q].am_handle <= llama_handle

\* A pending id is the one its thread waits for
PendingWaits ==
    \A id \in DOMAIN pending : pending[id] # None =>
        /\ pending[id] \in Queries
        /\ thread[pending[id]].pc \in {"wait", "erase"} /\ thread[pending[id]].id = id

Final(id) == llama.reservations[id].state \in {"rejected", "released", "lost"}

\* A rejection that is on its way is true
RejectionsTrue == \A n \in notes : n.kind = "rejected" => n.id \in Ids /\ Final(n.id)

Reserving(t) == t.pc = "new" \/ (t.pc \in {"send", "register"} /\ t.request = "reserve")
Waiting(t) == t.pc \in {"add", "wait", "erase"}

\* What a thread knows of the reservation it waits for
Waits(t) ==
    /\ t.pc \in {"send", "register"} => t.request # None
    /\ Waiting(t) => t.id \in Ids /\ llama.reservations[t.id].start <= llama_handle
    /\ Reserving(t) \/ t.pc = "add" => t.promise = None
    /\ t.pc \in {"wait", "erase"} /\ t.promise = "rejected" => Final(t.id)
    /\ t.pc \in {"wait", "erase"} /\ t.promise = "granted" => t.reservation_id = t.id
    /\ t.pc = "erase" /\ ~t.timed_out => t.promise \in {"granted", "rejected"}

\* A reservation Llama may hold for a thread that is not excused
MayHold(t, id) ==
    /\ ~Reserving(t)
    /\ Waiting(t) => id = t.id
    /\ ~Waiting(t) => id = t.reservation_id \/ Final(id)
    /\ t.pc \in {"remove", "gone"} => Final(id)

Holds(q) ==
    ~thread[q].excused =>
        \A id \in Ids : llama.reservations[id].q = q => MayHold(thread[q], id)

Inv ==
    /\ TypeOK /\ HandlesOrdered /\ PendingWaits /\ RejectionsTrue
    /\ \A q \in Queries : Waits(thread[q]) /\ Holds(q)

-------------------------------------------------------------------------------
(* What Llama does *)

\* No step takes back what was said of a reservation
Kept ==
    /\ llama' \in [start : Nat, reservations : Seq(Reservation)]
    /\ llama.start <= llama'.start
    /\ \A id \in Ids :
         /\ id \in Ids'
         /\ llama'.reservations[id].q = llama.reservations[id].q
         /\ llama'.reservations[id].start = llama.reservations[id].start
         /\ Final(id) => Final(id)'

\* Reserve appends reservations of its query and changes no other
LEMMA Accepted ==
    ASSUME TypeOK, NEW q \in Queries, NEW n \in {1, 2}, Accept(q, n)
    PROVE  /\ Kept /\ llama'.start = llama.start
           /\ Len(llama'.reservations) = Len(llama.reservations) + n
           /\ \A id \in Ids' \ Ids : /\ llama'.reservations[id].q = q
                                     /\ llama'.reservations[id].start = llama.start
<1> DEFINE r == [q |-> q, state |-> "pending", start |-> llama.start]
           s == llama.reservations
           t == [k \in 1..n |-> r]
<1>1. llama.start \in Nat /\ s \in Seq(Reservation)
  BY Zenon DEF TypeOK
<1>2. r \in Reservation
  BY <1>1, Zenon DEF Reservation, States
<1>3. t \in Seq(Reservation) /\ Len(t) = n /\ \A k \in 1..n : t[k] = r
  BY <1>2
<1>4. llama' = [start |-> llama.start, reservations |-> s \o t]
  BY Zenon DEF Accept, TypeOK
<1> HIDE DEF t, s
<1>5. /\ s \o t \in Seq(Reservation)
      /\ Len(s \o t) = Len(s) + Len(t)
      /\ \A i \in 1..(Len(s) + Len(t)) :
            (s \o t)[i] = IF i <= Len(s) THEN s[i] ELSE t[i - Len(s)]
  BY <1>1, <1>3, ConcatProperties, Zenon
<1>6. Len(s) \in Nat /\ n \in Nat
  BY <1>1, LenProperties
<1>7. Ids = 1..Len(s) /\ Ids' = 1..(Len(s) + n)
  BY <1>3, <1>4, <1>5, Zenon DEF Ids, s
<1>8. \A id \in Ids : llama'.reservations[id] = s[id] /\ id \in Ids'
  BY <1>3, <1>4, <1>5, <1>6, <1>7
<1>9. \A id \in Ids' \ Ids : llama'.reservations[id] = r
  <2> TAKE id \in Ids' \ Ids
  <2>1. id - Len(s) \in 1..n /\ ~(id <= Len(s)) /\ id \in 1..(Len(s) + n)
    BY <1>6, <1>7
  <2> QED BY <1>3, <1>4, <1>5, <2>1, Zenon
<1>10. Kept
  <2>1. llama' \in [start : Nat, reservations : Seq(Reservation)] /\ llama'.start = llama.start
    BY <1>1, <1>4, <1>5, Zenon
  <2>2. \A id \in Ids : Final(id) => Final(id)'
    BY <1>8, Zenon DEF Final, s
  <2> QED BY <1>1, <1>8, <2>1, <2>2 DEF Kept, s
<1>11. Len(llama'.reservations) = Len(s) + n /\ llama'.start = llama.start
  BY <1>3, <1>4, <1>5, Zenon
<1> QED BY <1>9, <1>10, <1>11 DEF s

SetState(id, v) == llama' = [llama EXCEPT !.reservations[id].state = v]

\* A change of the state of one reservation that is not final, or to a final state
LEMMA Restated ==
    ASSUME TypeOK, NEW id \in Nat, NEW v \in States,
           \/ id \in Ids /\ ~Final(id)
           \/ v \in {"rejected", "released", "lost"},
           SetState(id, v)
    PROVE  /\ Kept /\ llama'.start = llama.start /\ Ids' = Ids
           /\ id \in Ids => llama'.reservations[id].state = v
<1> DEFINE s == llama.reservations
           s2 == [s EXCEPT ![id].state = v]
<1>1. llama.start \in Nat /\ s \in Seq(Reservation)
  BY Zenon DEF TypeOK
<1>2. llama' = [start |-> llama.start, reservations |-> s2]
  BY Zenon DEF SetState, TypeOK
<1>3. s \in [1..Len(s) -> Reservation] /\ Len(s) \in Nat
  BY <1>1
<1>4. s2 \in [1..Len(s) -> Reservation]
  BY <1>3, Zenon DEF Reservation
<1>5. s2 \in Seq(Reservation) /\ Len(s2) = Len(s)
  BY <1>3, <1>4, IsASeq, LenProperties
<1>6. \A i \in 1..Len(s) : /\ s2[i].q = s[i].q /\ s2[i].start = s[i].start
                           /\ s2[i].state = IF i = id THEN v ELSE s[i].state
  BY <1>3, Zenon DEF Reservation
<1>7. Ids = 1..Len(s) /\ Ids' = 1..Len(s)
  BY <1>2, <1>5, Zenon DEF Ids
<1> HIDE DEF s, s2
<1>8. Kept
  <2>1. llama' \in [start : Nat, reservations : Seq(Reservation)] /\ llama'.start = llama.start
    BY <1>1, <1>2, <1>5, Zenon
  <2>2. \A i \in Ids : Final(i) => Final(i)'
    BY <1>2, <1>6, <1>7, Zenon DEF Final, s
  <2> QED BY <1>1, <1>2, <1>6, <1>7, <2>1, <2>2 DEF Kept, s
<1> QED BY <1>2, <1>6, <1>7, <1>8, Zenon DEF s

\* A restart forgets every reservation
LEMMA Forgotten ==
    ASSUME TypeOK, LlamaRestarts
    PROVE  Kept /\ llama'.start = llama.start + 1 /\ Ids' = Ids
<1> DEFINE s == llama.reservations
           s2 == [id \in Ids |-> [s[id] EXCEPT !.state = "lost"]]
<1>1. llama.start \in Nat /\ s \in Seq(Reservation)
  BY Zenon DEF TypeOK
<1>2. s \in [1..Len(s) -> Reservation] /\ Len(s) \in Nat /\ Ids = 1..Len(s)
  BY <1>1 DEF Ids
<1>3. s2 \in [1..Len(s) -> Reservation]
  BY <1>2, Zenon DEF Reservation, States
<1>4. s2 \in Seq(Reservation) /\ Len(s2) = Len(s)
  BY <1>2, <1>3, IsASeq, LenProperties
<1>5. \A i \in Ids : s2[i].q = s[i].q /\ s2[i].start = s[i].start /\ s2[i].state = "lost"
  BY <1>2, Zenon DEF Reservation
<1>6. llama'.start = llama.start + 1 /\ llama'.reservations = s2
      /\ llama' = [start |-> llama.start + 1, reservations |-> s2]
  BY Zenon DEF LlamaRestarts
<1> HIDE DEF s2
<1>7. Ids' = Ids
  BY <1>2, <1>4, <1>6, Zenon DEF Ids
<1>8. llama' \in [start : Nat, reservations : Seq(Reservation)]
  BY <1>1, <1>4, <1>6
<1>9. llama.start <= llama'.start
  BY <1>1, <1>6
<1>10. \A i \in Ids : Final(i)'
  BY <1>5, <1>6, Zenon DEF Final
<1> QED BY <1>5, <1>6, <1>7, <1>8, <1>9, <1>10, Zenon DEF Kept

\* A step of a query's thread that is no RPC leaves every reservation as it is
LEMMA KeptUnchanged ==
    ASSUME TypeOK, UNCHANGED llama
    PROVE  Kept /\ Ids' = Ids /\ llama'.start = llama.start
BY DEF TypeOK, Kept, Ids, Final

-------------------------------------------------------------------------------
(* The threads *)

\* What is true of a thread stays so while others move
LEMMA OthersKeep ==
    ASSUME TypeOK, Kept, NEW p \in Queries, Waits(thread[p]), Holds(p),
           thread'[p] = thread[p], llama_handle' \in Nat, llama_handle <= llama_handle',
           \A id \in Ids' \ Ids : llama'.reservations[id].q # p
    PROVE  Waits(thread[p])' /\ Holds(p)'
<1> DEFINE t == thread[p]
<1>1. t \in Thread /\ llama_handle \in Nat
  BY Zenon DEF TypeOK
<1>2. \A id \in Ids : llama.reservations[id].start \in Nat
  <2>1. \A id \in Ids : llama.reservations[id] \in Reservation
    BY DEF TypeOK, Ids
  <2> QED BY <2>1, Zenon DEF Reservation
<1>3. Waits(t)'
  <2>1. Waiting(t) => t.id \in Ids' /\ llama'.reservations[t.id].start <= llama_handle'
    BY <1>1, <1>2 DEF Waits, Kept
  <2>2. t.pc \in {"wait", "erase"} /\ t.promise = "rejected" => Final(t.id)'
    BY Zenon DEF Waits, Kept, Waiting
  <2> QED BY <2>1, <2>2, Zenon DEF Waits, Waiting, Reserving, Final
<1>4. ASSUME ~t.excused, NEW id \in Ids', llama'.reservations[id].q = p
      PROVE  MayHold(t, id)'
  <2>1. id \in Ids
    BY <1>4, Zenon
  <2>2. MayHold(t, id) /\ (Final(id) => Final(id)')
    BY <1>4, <2>1, Zenon DEF Holds, Kept
  <2> QED BY <2>2, Zenon DEF MayHold, Waiting, Reserving
<1> QED BY <1>3, <1>4, Zenon DEF Holds

\* What a step of the thread of q leaves
Moved(q) ==
    /\ Kept
    /\ llama_handle' \in Nat /\ llama_handle <= llama_handle' /\ llama_handle' <= llama'.start
    /\ thread' = [thread EXCEPT ![q] = thread'[q]]
    /\ thread'[q] \in Thread /\ thread'[q].am_handle <= llama_handle'
    /\ Waits(thread[q])' /\ Holds(q)'
    /\ \A id \in Ids' \ Ids : llama'.reservations[id].q = q

\* Such a step keeps the invariant, except for the notifications and pending ids
LEMMA MovedKeeps ==
    ASSUME Inv, NEW q \in Queries, Moved(q), notes' \subseteq notes
    PROVE  TypeOK' /\ HandlesOrdered' /\ RejectionsTrue'
           /\ \A p \in Queries : Waits(thread[p])' /\ Holds(p)'
<1>1. TypeOK'
  BY Zenon DEF Inv, TypeOK, Moved, Kept
<1>2. \A p \in Queries : p # q => thread'[p] = thread[p]
  BY Zenon DEF Inv, TypeOK, Moved
<1>3. HandlesOrdered'
  <2>1. \A p \in Queries : thread[p].am_handle \in Nat
    BY Zenon DEF Inv, TypeOK, Thread
  <2>2. llama_handle \in Nat
    BY Zenon DEF Inv, TypeOK
  <2> QED BY <1>2, <2>1, <2>2 DEF Inv, HandlesOrdered, Moved
<1>4. RejectionsTrue'
  BY Zenon DEF Inv, RejectionsTrue, Moved, Kept
<1>5. ASSUME NEW p \in Queries PROVE Waits(thread[p])' /\ Holds(p)'
  <2>1. CASE p = q
    BY <2>1, Zenon DEF Moved
  <2>2. CASE p # q
    BY <1>2, <2>2, OthersKeep, Zenon DEF Inv, Moved
  <2> QED BY <2>1, <2>2, Zenon
<1> QED BY <1>1, <1>3, <1>4, <1>5, Zenon
-------------------------------------------------------------------------------
(* The actions of a thread *)

\* The thread of q goes on as u, and nothing that the invariant says of it is lost
Becomes(q, u) ==
    /\ thread' = [thread EXCEPT ![q] = u]
    /\ u \in Thread /\ u.am_handle <= llama_handle /\ u.excused = thread[q].excused
    /\ Waits(u) /\ \A id \in Ids : MayHold(thread[q], id) => MayHold(u, id)

\* A step of one query's thread alone keeps the invariant but for the pending ids
LEMMA ThreadOnly ==
    ASSUME Inv, NEW q \in Queries, NEW u, Becomes(q, u), UNCHANGED <<llama, llama_handle>>
    PROVE  Moved(q)
<1>1. thread'[q] = u /\ thread' = [thread EXCEPT ![q] = thread'[q]]
  BY Zenon DEF Inv, TypeOK, Becomes
<1>2. Kept /\ Ids' = Ids
  BY KeptUnchanged, Zenon DEF Inv
<1>3. llama_handle' \in Nat /\ llama_handle <= llama_handle' /\ llama_handle' <= llama'.start
  BY DEF Inv, TypeOK, HandlesOrdered
<1>4. Waits(thread[q])'
  BY <1>1, <1>2 DEF Becomes, Waits, Final, Waiting, Reserving
<1>5. Holds(q)'
  <2>1. ~u.excused => \A id \in Ids : llama.reservations[id].q = q => MayHold(u, id)
    BY Zenon DEF Inv, Holds, Becomes
  <2> QED BY <1>1, <1>2, <2>1, Zenon DEF Holds, MayHold, Final, Waiting, Reserving
<1>6. thread'[q] \in Thread /\ thread'[q].am_handle <= llama_handle'
  BY <1>1, Zenon DEF Becomes
<1> QED BY <1>1, <1>2, <1>3, <1>4, <1>5, <1>6, Zenon DEF Moved

\* The steps that change the thread, and at most the pending and active ids
LEMMA LocalSteps ==
    ASSUME Inv, NEW q \in Queries,
           \/ Schedule(q) \/ Restarted(q) \/ AddPending(q) \/ Get(q) \/ ReserveReturns(q)
           \/ Activate(q) \/ Finish(q) \/ Remove(q)
    PROVE  Moved(q)
<1> DEFINE t == thread[q]
<1>1. t \in Thread /\ llama_handle \in Nat /\ t.am_handle <= llama_handle /\ Waits(t)
  BY Zenon DEF Inv, TypeOK, HandlesOrdered
<1>2. llama_handle <= llama_handle
  BY <1>1
<1>3. UNCHANGED <<llama, llama_handle>>
  BY Zenon DEF Schedule, Restarted, AddPending, Get, ReserveReturns, Activate, Finish, Remove
<1>4. CASE Schedule(q)
  <2> DEFINE u == [t EXCEPT !.pc = "send", !.request = "reserve", !.am_handle = llama_handle]
  <2>1. thread' = [thread EXCEPT ![q] = u]
    BY <1>4, Zenon DEF Schedule, Step
  <2>2. u \in Thread /\ u.am_handle <= llama_handle /\ u.excused = t.excused
    BY <1>1, <1>2, Zenon DEF Thread, Pcs
  <2>3. Waits(u) /\ \A id \in Ids : MayHold(t, id) => MayHold(u, id)
    BY <1>1, <1>4, Zenon DEF Schedule, None, Step, Thread, Waits, MayHold, Waiting, Reserving
  <2>4. Becomes(q, u)
    BY <2>1, <2>2, <2>3, Zenon DEF Becomes
  <2> QED BY <1>3, <2>4, ThreadOnly, Zenon
<1>5. CASE Restarted(q)
  <2> DEFINE u == [t EXCEPT !.pc = "register", !.current = llama_handle]
  <2>1. thread' = [thread EXCEPT ![q] = u]
    BY <1>5, Zenon DEF Restarted, Step
  <2>2. u \in Thread /\ u.am_handle <= llama_handle /\ u.excused = t.excused
    BY <1>1, <1>2, Zenon DEF Thread, Pcs
  <2>3. Waits(u) /\ \A id \in Ids : MayHold(t, id) => MayHold(u, id)
    BY <1>1, <1>5, Zenon DEF Restarted, Step, Thread, Waits, MayHold, Waiting, Reserving
  <2>4. Becomes(q, u)
    BY <2>1, <2>2, <2>3, Zenon DEF Becomes
  <2> QED BY <1>3, <2>4, ThreadOnly, Zenon
<1>6. CASE AddPending(q)
  <2> DEFINE u == [t EXCEPT !.pc = "wait"]
  <2>1. thread' = [thread EXCEPT ![q] = u]
    BY <1>6, Zenon DEF AddPending, Step
  <2>2. u \in Thread /\ u.am_handle <= llama_handle /\ u.excused = t.excused
    BY <1>1, <1>2, Zenon DEF Thread, Pcs
  <2>3. Waits(u) /\ \A id \in Ids : MayHold(t, id) => MayHold(u, id)
    BY <1>1, <1>6, Zenon DEF AddPending, None, Step, Thread, Waits, MayHold, Waiting, Reserving
  <2>4. Becomes(q, u)
    BY <2>1, <2>2, <2>3, Zenon DEF Becomes
  <2> QED BY <1>3, <2>4, ThreadOnly, Zenon
<1>7. CASE Get(q)
  <2> DEFINE u == [t EXCEPT !.pc = "erase", !.timed_out = (t.promise = None)]
  <2>1. thread' = [thread EXCEPT ![q] = u]
    BY <1>7, Zenon DEF Get, Step
  <2>2. u \in Thread /\ u.am_handle <= llama_handle /\ u.excused = t.excused
    BY <1>1, <1>2, Zenon DEF Thread, Pcs
  <2>3. Waits(u) /\ \A id \in Ids : MayHold(t, id) => MayHold(u, id)
    <3>1. u.timed_out <=> t.promise = None
      BY <1>1, Zenon DEF Thread
    <3>2. u.pc = "erase" /\ u.id = t.id /\ u.promise = t.promise /\ t.pc = "wait"
          /\ u.reservation_id = t.reservation_id /\ t.promise \in {None, "granted", "rejected"}
      BY <1>1, <1>7, Zenon DEF Get, Step, Thread
    <3> HIDE DEF u
    <3> QED BY <1>1, <3>1, <3>2, Zenon DEF Waits, MayHold, Waiting, Reserving
  <2>4. Becomes(q, u)
    BY <2>1, <2>2, <2>3, Zenon DEF Becomes
  <2> QED BY <1>3, <2>4, ThreadOnly, Zenon
<1>8. CASE Remove(q)
  <2> DEFINE u == [t EXCEPT !.pc = "gone"]
  <2>1. thread' = [thread EXCEPT ![q] = u]
    BY <1>8, Zenon DEF Remove, Step
  <2>2. u \in Thread /\ u.am_handle <= llama_handle /\ u.excused = t.excused
    BY <1>1, <1>2, Zenon DEF Thread, Pcs
  <2>3. Waits(u) /\ \A id \in Ids : MayHold(t, id) => MayHold(u, id)
    BY <1>1, <1>8, Zenon DEF Remove, Step, Thread, Waits, MayHold, Waiting, Reserving
  <2>4. Becomes(q, u)
    BY <2>1, <2>2, <2>3, Zenon DEF Becomes
  <2> QED BY <1>3, <2>4, ThreadOnly, Zenon
<1>9. CASE ReserveReturns(q)
  <2>1. CASE t.timed_out
    <3> DEFINE u == [t EXCEPT !.reservation_id = t.id, !.pc = "finish"]
    <3>1. thread' = [thread EXCEPT ![q] = u] /\ t.pc = "erase"
      BY <1>9, <2>1, Zenon DEF ReserveReturns, Step
    <3>2. u \in Thread /\ u.am_handle <= llama_handle /\ u.excused = t.excused
      BY <1>1, Zenon DEF Thread, Pcs
    <3>3. Waits(u) /\ \A id \in Ids : MayHold(t, id) => MayHold(u, id)
      BY <1>1, <3>1, Zenon DEF Thread, Waits, MayHold, Waiting, Reserving
    <3>4. Becomes(q, u)
      BY <3>1, <3>2, <3>3, Zenon DEF Becomes
    <3> QED BY <1>3, <3>4, ThreadOnly, Zenon
  <2>2. CASE ~t.timed_out
    <3> DEFINE l == IF t.promise = "rejected" THEN "finish" ELSE "validate"
               u == [t EXCEPT !.pc = l]
    <3>1. thread' = [thread EXCEPT ![q] = u] /\ t.pc = "erase"
      BY <1>9, <2>2, Zenon DEF ReserveReturns, Step
    <3>2. l \in {"finish", "validate"}
      BY Zenon
    <3>3. (t.promise = "rejected" /\ Final(t.id)) \/ t.reservation_id = t.id
      BY <1>1, <2>2, <3>1, Zenon DEF Waits
    <3> HIDE DEF l
    <3>4. u \in Thread /\ u.am_handle <= llama_handle /\ u.excused = t.excused
      BY <1>1, <3>2, Zenon DEF Thread, Pcs
    <3>5. Waits(u) /\ \A id \in Ids : MayHold(t, id) => MayHold(u, id)
      BY <1>1, <3>1, <3>2, <3>3, Zenon DEF Thread, Waits, MayHold, Waiting, Reserving
    <3>6. Becomes(q, u)
      BY <3>1, <3>4, <3>5, Zenon DEF Becomes
    <3> QED BY <1>3, <3>6, ThreadOnly, Zenon
  <2> QED BY <2>1, <2>2, Zenon
<1>10. CASE Activate(q)
  <2>1. PICK l \in {"run", "finish"} : thread' = [thread EXCEPT ![q].pc = l]
    BY <1>10, Zenon DEF Activate
  <2> DEFINE u == [t EXCEPT !.pc = l]
  <2>2. thread' = [thread EXCEPT ![q] = u] /\ t.pc = "validate"
    BY <1>10, <2>1, Zenon DEF Activate, Step
  <2>3. u \in Thread /\ u.am_handle <= llama_handle /\ u.excused = t.excused
    BY <1>1, Zenon DEF Thread, Pcs
  <2>4. Waits(u) /\ \A id \in Ids : MayHold(t, id) => MayHold(u, id)
    BY <1>1, <2>2, Zenon DEF Thread, Waits, MayHold, Waiting, Reserving
  <2>5. Becomes(q, u)
    BY <2>2, <2>3, <2>4, Zenon DEF Becomes
  <2> QED BY <1>3, <2>5, ThreadOnly, Zenon
<1>11. CASE Finish(q)
  <2>1. CASE t.reservation_id = 0
    <3> DEFINE u == [t EXCEPT !.pc = "remove"]
    <3>1. thread' = [thread EXCEPT ![q] = u] /\ t.pc \in {"run", "finish"}
      BY <1>11, <2>1, Zenon DEF Finish
    <3>2. u \in Thread /\ u.am_handle <= llama_handle /\ u.excused = t.excused
      BY <1>1, Zenon DEF Thread, Pcs
    <3>3. \A id \in Ids : id # 0
      BY DEF Inv, TypeOK, Ids
    <3>4. Waits(u) /\ \A id \in Ids : MayHold(t, id) => MayHold(u, id)
      BY <1>1, <2>1, <3>1, <3>3, Zenon DEF Thread, Waits, MayHold, Waiting, Reserving
    <3>5. Becomes(q, u)
      BY <3>1, <3>2, <3>4, Zenon DEF Becomes
    <3> QED BY <1>3, <3>5, ThreadOnly, Zenon
  <2>2. CASE t.reservation_id # 0
    <3> DEFINE u == [t EXCEPT !.pc = "send", !.request = "release", !.attempts = 0,
                              !.am_handle = llama_handle]
    <3>1. thread' = [thread EXCEPT ![q] = u] /\ t.pc \in {"run", "finish"}
      BY <1>11, <2>2, Zenon DEF Finish
    <3>2. u \in Thread /\ u.am_handle <= llama_handle /\ u.excused = t.excused
      BY <1>1, <1>2, Zenon DEF Thread, Pcs
    <3>3. Waits(u) /\ \A id \in Ids : MayHold(t, id) => MayHold(u, id)
      BY <1>1, <3>1, Zenon DEF Thread, Waits, MayHold, Waiting, Reserving, None
    <3>4. Becomes(q, u)
      BY <3>1, <3>2, <3>3, Zenon DEF Becomes
    <3> QED BY <1>3, <3>4, ThreadOnly, Zenon
  <2> QED BY <2>1, <2>2, Zenon
<1> QED BY <1>4, <1>5, <1>6, <1>7, <1>8, <1>9, <1>10, <1>11, Zenon

\* An attempt of Reserve's RPC, which makes one or two reservations or none
LEMMA SendReserveMoves ==
    ASSUME Inv, NEW q \in Queries, SendReserve(q)
    PROVE  Moved(q)
<1> DEFINE t == thread[q]
<1>1. t \in Thread /\ llama_handle \in Nat /\ t.am_handle <= llama_handle /\ Waits(t)
  BY Zenon DEF Inv, TypeOK, HandlesOrdered
<1>2. t.pc = "send" /\ t.request = "reserve" /\ llama_handle' = llama_handle
  BY Zenon DEF SendReserve, Step
<1>3. llama_handle = llama.start
  BY <1>1 DEF SendReserve, Known, Inv, TypeOK, HandlesOrdered, Thread
<1>4. ~t.excused => \A id \in Ids : llama.reservations[id].q # q
  BY <1>2, Zenon DEF Inv, Holds, MayHold, Reserving
<1>5. ASSUME NEW n \in {1, 2}, NEW u \in Thread, Accept(q, n),
             thread' = [thread EXCEPT ![q] = u], u.am_handle = t.am_handle,
             u.request = t.request,
             \/ u.excused /\ ~Waiting(u) /\ (Reserving(u) => u.promise = None)
             \/ /\ u.pc = "add" /\ u.id = Len(llama.reservations) + n /\ u.promise = None
                /\ u.excused \/ (n = 1 /\ u.excused = t.excused)
      PROVE  Moved(q)
  <2>1. /\ Kept /\ llama'.start = llama.start
        /\ Len(llama'.reservations) = Len(llama.reservations) + n
        /\ \A id \in Ids' \ Ids : /\ llama'.reservations[id].q = q
                                  /\ llama'.reservations[id].start = llama.start
    BY <1>5, Accepted, Zenon DEF Inv
  <2>2. Len(llama.reservations) \in Nat
    BY LenProperties, Zenon DEF Inv, TypeOK
  <2>3. Ids = 1..Len(llama.reservations) /\ Ids' = 1..(Len(llama.reservations) + n)
    BY <2>1, Zenon DEF Ids
  <2>4. Len(llama.reservations) + n \in Ids' \ Ids
    BY <2>2, <2>3
  <2>5. thread'[q] = u /\ thread' = [thread EXCEPT ![q] = thread'[q]]
    BY <1>5, Zenon DEF Inv, TypeOK
  <2>6. Waits(u)'
    <3>1. CASE u.excused /\ ~Waiting(u) /\ (Reserving(u) => u.promise = None)
      BY <1>2, <1>5, <3>1, Zenon DEF Waits, Waiting, Reserving, None
    <3>2. CASE u.pc = "add" /\ u.id = Len(llama.reservations) + n /\ u.promise = None
      <4>1. u.id \in Ids' /\ llama'.reservations[u.id].start <= llama_handle'
        BY <1>1, <1>2, <1>3, <2>1, <2>4, <3>2
      <4> QED BY <3>2, <4>1, Zenon DEF Waits, Waiting, Reserving
    <3> QED BY <1>5, <3>1, <3>2, Zenon
  <2>7. ASSUME ~u.excused, NEW id \in Ids', llama'.reservations[id].q = q
        PROVE  MayHold(u, id)'
    <3>1. u.pc = "add" /\ u.id = Len(llama.reservations) + n /\ n = 1 /\ ~t.excused
      BY <1>5, <2>7, Zenon
    <3>2. id \notin Ids
      BY <1>4, <2>1, <2>7, <3>1, Zenon DEF Kept
    <3>3. id = u.id
      BY <2>2, <2>3, <2>7, <3>1, <3>2
    <3> QED BY <3>1, <3>3, Zenon DEF MayHold, Waiting, Reserving
  <2>8. Waits(thread[q])' /\ Holds(q)'
    BY <2>5, <2>6, <2>7, Zenon DEF Holds
  <2>9. thread'[q] \in Thread /\ thread'[q].am_handle <= llama_handle'
    BY <1>1, <1>2, <1>5, <2>5, Zenon
  <2>10. llama_handle' \in Nat /\ llama_handle <= llama_handle' /\ llama_handle' <= llama'.start
    BY <1>1, <1>2, <1>3, <2>1
  <2> QED BY <2>1, <2>5, <2>8, <2>9, <2>10, Zenon DEF Moved
<1> DEFINE L == Len(llama.reservations)
<1>6. t.promise = None /\ L \in Nat
  BY <1>1, <1>2, LenProperties, Zenon DEF Waits, Reserving, Inv, TypeOK
<1>7. ASSUME NEW id \in Nat
      PROVE  LET u == Answered(t, id) IN
             /\ u \in Thread /\ u.am_handle = t.am_handle /\ u.promise = None
             /\ u.request = t.request
             /\ \/ u.excused /\ u.pc = "finish"
                \/ u.pc = "add" /\ u.id = id /\ u.excused = t.excused
  BY <1>1, <1>6, Zenon DEF Answered, Thread, Pcs
<1>8. CASE Accept(q, 1) /\ thread' = [thread EXCEPT ![q] = Answered(t, L + 1)]
  <2> DEFINE u == Answered(t, L + 1)
  <2>1. /\ u \in Thread /\ u.am_handle = t.am_handle /\ u.promise = None
        /\ u.request = t.request
        /\ \/ u.excused /\ u.pc = "finish"
           \/ u.pc = "add" /\ u.id = L + 1 /\ u.excused = t.excused
    BY <1>6, <1>7
  <2> HIDE DEF u
  <2> QED BY <1>5, <1>8, <2>1, Zenon DEF Waiting, Reserving, u
<1>9. CASE Accept(q, 2) /\ thread' = [thread EXCEPT ![q] =
                                         [Answered(t, L + 2) EXCEPT !.excused = TRUE]]
  <2> DEFINE v == Answered(t, L + 2)
             u == [v EXCEPT !.excused = TRUE]
  <2>1. /\ v \in Thread /\ v.am_handle = t.am_handle /\ v.promise = None
        /\ v.request = t.request
        /\ \/ v.pc = "finish"
           \/ v.pc = "add" /\ v.id = L + 2
    BY <1>6, <1>7
  <2> HIDE DEF v
  <2>2. /\ u \in Thread /\ u.am_handle = t.am_handle /\ u.promise = None /\ u.excused
        /\ u.request = t.request
        /\ \/ u.pc = "finish"
           \/ u.pc = "add" /\ u.id = L + 2
    BY <2>1, Zenon DEF Thread
  <2>3. thread' = [thread EXCEPT ![q] = u]
    BY <1>9, Zenon DEF v
  <2> HIDE DEF u
  <2> QED BY <1>5, <1>9, <2>2, <2>3, Zenon DEF Waiting, Reserving
<1>10. CASE Accept(q, 1) /\ thread' = [thread EXCEPT ![q] = Again(t)]
  <2> DEFINE u == Again(t)
  <2>1. u \in Thread /\ u.am_handle = t.am_handle /\ u.promise = None /\ u.excused
        /\ u.pc \in {"finish", "send"} /\ u.request = t.request
    <3>1. CASE t.attempts + 1 >= LLAMA_MAX_REQUEST_ATTEMPTS
      <4> DEFINE v == [t EXCEPT !.pc = "finish", !.attempts = 0, !.excused = TRUE]
      <4>1. u = v
        BY <1>2, <3>1, Zenon DEF Again
      <4>2. v \in Thread /\ v.am_handle = t.am_handle /\ v.promise = t.promise
            /\ v.excused /\ v.pc = "finish" /\ v.request = t.request
        BY <1>1, Zenon DEF Thread, Pcs
      <4> HIDE DEF u, v
      <4> QED BY <1>6, <4>1, <4>2, Zenon
    <3>2. CASE ~(t.attempts + 1 >= LLAMA_MAX_REQUEST_ATTEMPTS)
      <4> DEFINE v == [t EXCEPT !.attempts = @ + 1, !.excused = TRUE]
      <4>1. u = v
        BY <3>2, Zenon DEF Again
      <4>2. t.attempts + 1 \in Nat
        BY <1>1 DEF Thread
      <4>3. v \in Thread /\ v.am_handle = t.am_handle /\ v.promise = t.promise
            /\ v.excused /\ v.pc = t.pc /\ v.request = t.request
        BY <1>1, <4>2, Zenon DEF Thread
      <4> HIDE DEF u, v
      <4> QED BY <1>2, <1>6, <4>1, <4>3, Zenon
    <3> QED BY <3>1, <3>2, Zenon
  <2> HIDE DEF u
  <2> QED BY <1>5, <1>10, <2>1, Zenon DEF Waiting, Reserving, u
<1>11. CASE UNCHANGED llama /\ thread' = [thread EXCEPT ![q].pc = "finish"]
  <2> DEFINE u == [t EXCEPT !.pc = "finish"]
  <2>1. thread' = [thread EXCEPT ![q] = u]
    BY <1>11, Zenon
  <2>2. u \in Thread /\ u.am_handle <= llama_handle /\ u.excused = t.excused
    BY <1>1, Zenon DEF Thread, Pcs
  <2>3. Waits(u) /\ \A id \in Ids : MayHold(t, id) => MayHold(u, id)
    BY <1>1, <1>2, Zenon DEF Thread, Waits, MayHold, Waiting, Reserving
  <2>4. Becomes(q, u)
    BY <2>1, <2>2, <2>3, Zenon DEF Becomes
  <2> QED BY <1>2, <1>11, <2>4, ThreadOnly, Zenon
<1> QED BY <1>8, <1>9, <1>10, <1>11, Zenon DEF SendReserve

\* A registration, and what becomes of the request that needed it
LEMMA RegisterMoves ==
    ASSUME Inv, NEW q \in Queries, RegisterWithLlama(q)
    PROVE  Moved(q)
<1> DEFINE t == thread[q]
           h == IF llama_handle = t.current THEN llama.start ELSE llama_handle
           end == IF t.request = "reserve" THEN "finish" ELSE "remove"
           failed == [t EXCEPT !.pc = end, !.attempts = 0, !.excused = @ \/ t.request = "release"]
           again == [t EXCEPT !.pc = "send", !.attempts = @ + 1, !.am_handle = h]
<1>1. t \in Thread /\ llama_handle \in Nat /\ t.am_handle <= llama_handle /\ Waits(t)
      /\ llama.start \in Nat /\ llama_handle <= llama.start
  BY Zenon DEF Inv, TypeOK, HandlesOrdered
<1>2. h \in Nat /\ llama_handle <= h /\ h <= llama.start
  BY <1>1
<1>3. t.pc = "register" /\ UNCHANGED llama /\ llama_handle' \in {llama_handle, h}
      /\ \/ thread' = [thread EXCEPT ![q] = failed]
         \/ thread' = [thread EXCEPT ![q] = again] /\ llama_handle' = h
  BY Zenon DEF RegisterWithLlama, Step
<1> HIDE DEF h
<1>4. llama_handle' \in Nat /\ llama_handle <= llama_handle' /\ llama_handle' <= llama'.start
  BY <1>1, <1>2, <1>3
<1>5. Kept /\ Ids' = Ids
  BY <1>3, KeptUnchanged, Zenon DEF Inv
<1>6. ~t.excused => \A id \in Ids : llama.reservations[id].q = q => MayHold(t, id)
  BY Zenon DEF Inv, Holds
<1>7. ASSUME NEW u \in Thread, thread' = [thread EXCEPT ![q] = u],
             u.am_handle <= llama_handle', u.request = t.request, u.promise = t.promise,
             u.pc \in {"send", "finish", "remove"}, u.pc = "finish" => u.request = "reserve",
             u.excused \/ (u.excused = t.excused /\ u.pc # "remove"),
             u.reservation_id = t.reservation_id
      PROVE  Moved(q)
  <2>1. thread'[q] = u /\ thread' = [thread EXCEPT ![q] = thread'[q]]
    BY <1>7, Zenon DEF Inv, TypeOK
  <2>2. Waits(u)'
    BY <1>1, <1>3, <1>7, Zenon DEF Waits, Waiting, Reserving
  <2>3. Holds(q)'
    <3>1. \A id \in Ids : u.pc # "remove" => (MayHold(t, id) => MayHold(u, id))
      BY <1>3, <1>7, Zenon DEF MayHold, Waiting, Reserving
    <3>2. ~u.excused => \A id \in Ids : llama.reservations[id].q = q => MayHold(u, id)
      BY <1>6, <1>7, <3>1, Zenon
    <3> QED BY <1>3, <1>5, <2>1, <3>2, Zenon DEF Holds, MayHold, Final, Waiting, Reserving
  <2>4. Waits(thread[q])' /\ thread'[q] \in Thread /\ thread'[q].am_handle <= llama_handle'
    BY <1>7, <2>1, <2>2, Zenon
  <2> QED BY <1>4, <1>5, <2>1, <2>3, <2>4, Zenon DEF Moved
<1>8. t.request \in {"reserve", "release"}
  BY <1>1, <1>3, Zenon DEF Waits, Thread
<1>9. CASE thread' = [thread EXCEPT ![q] = failed]
  <2>1. end \in {"finish", "remove"} /\ (end = "finish" <=> t.request = "reserve")
    BY Zenon
  <2> HIDE DEF end
  <2>2. failed \in Thread /\ failed.am_handle = t.am_handle /\ failed.pc = end
        /\ failed.reservation_id = t.reservation_id /\ failed.request = t.request
        /\ failed.promise = t.promise
        /\ failed.excused = (t.excused \/ t.request = "release")
    BY <1>1, <2>1, ZenonT(60) DEF Thread, Pcs
  <2> HIDE DEF failed
  <2>3. failed.excused \/ (failed.excused = t.excused /\ failed.pc # "remove")
    BY <1>1, <1>8, <2>1, <2>2, Zenon DEF Thread
  <2>4. failed.am_handle <= llama_handle'
    <3>1. t.am_handle \in Nat
      BY <1>1, Zenon DEF Thread
    <3> QED BY <1>1, <1>4, <2>2, <3>1
  <2> QED BY <1>7, <1>9, <2>1, <2>2, <2>3, <2>4, Zenon
<1>10. CASE thread' = [thread EXCEPT ![q] = again] /\ llama_handle' = h
  <2>1. t.attempts + 1 \in Nat
    BY <1>1 DEF Thread
  <2>2. again \in Thread /\ again.am_handle = h /\ again.excused = t.excused
        /\ again.pc = "send" /\ again.request = t.request /\ again.promise = t.promise
        /\ again.reservation_id = t.reservation_id
    BY <1>1, <1>2, <2>1, Zenon DEF Thread, Pcs
  <2> HIDE DEF again
  <2>3. again.am_handle <= llama_handle'
    BY <1>2, <1>10, <2>2
  <2> QED BY <1>7, <1>10, <2>2, <2>3, Zenon
<1> QED BY <1>3, <1>9, <1>10, Zenon

\* An attempt of Release's RPC: the reservation is final, or the query excused
LEMMA SendReleaseMoves ==
    ASSUME Inv, NEW q \in Queries, SendRelease(q)
    PROVE  Moved(q)
<1> DEFINE t == thread[q]
           r == t.reservation_id
           v == IF llama.reservations[r].state = "lost" THEN "lost" ELSE "released"
           released == [llama EXCEPT !.reservations[r].state =
                          IF @ = "lost" THEN @ ELSE "released"]
<1>1. t \in Thread /\ llama_handle \in Nat /\ t.am_handle <= llama_handle /\ Waits(t)
      /\ llama_handle <= llama.start
  BY Zenon DEF Inv, TypeOK, HandlesOrdered
<1>2. t.pc = "send" /\ t.request = "release" /\ llama_handle' = llama_handle
      /\ llama' \in {llama, released}
  BY Zenon DEF SendRelease, Step
<1>3. r \in Nat /\ v \in {"lost", "released"}
  BY <1>1, Zenon DEF Thread
<1>4. llama' = released => SetState(r, v)
  BY Zenon DEF SetState, TypeOK, Inv
<1> HIDE DEF released, v, r
<1>5. /\ Kept /\ llama'.start = llama.start /\ Ids' = Ids
      /\ llama' = released /\ r \in Ids => llama'.reservations[r].state \in {"lost", "released"}
  <2>1. CASE llama' = llama
    <3>1. Kept /\ llama'.start = llama.start /\ Ids' = Ids
      BY <2>1, KeptUnchanged, Zenon DEF Inv
    <3>2. llama' = released /\ r \in Ids => llama'.reservations[r].state \in {"lost", "released"}
      BY <1>3, <1>4, Restated, Zenon DEF States, Inv
    <3> QED BY <2>1, <3>1, <3>2, Zenon
  <2>2. CASE llama' = released
    BY <1>3, <1>4, <2>2, Restated, Zenon DEF States, Inv
  <2> QED BY <1>2, <2>1, <2>2, Zenon
<1>6. ASSUME NEW u \in Thread, thread' = [thread EXCEPT ![q] = u], u.am_handle = t.am_handle,
             u.request = "release", u.pc \in {"send", "remove"},
             u.excused \/ (u.pc = "remove" /\ u.excused = t.excused /\ llama' = released)
      PROVE  Moved(q)
  <2>1. thread'[q] = u /\ thread' = [thread EXCEPT ![q] = thread'[q]]
    BY <1>6, Zenon DEF Inv, TypeOK
  <2>2. Waits(u)'
    BY <1>6, Zenon DEF Waits, Waiting, Reserving, None
  <2>3. ASSUME ~u.excused, NEW id \in Ids', llama'.reservations[id].q = q
        PROVE  MayHold(u, id)'
    <3>1. u.pc = "remove" /\ ~t.excused /\ llama' = released /\ id \in Ids
      BY <1>5, <1>6, <2>3, Zenon
    <3>2. id = r \/ Final(id)
      BY <1>2, <1>5, <2>3, <3>1, Zenon DEF Inv, Holds, MayHold, Waiting, Kept, r
    <3>3. Final(id)'
      BY <1>5, <3>1, <3>2, Zenon DEF Kept, Final
    <3> QED BY <3>1, <3>3, Zenon DEF MayHold, Waiting, Reserving
  <2>4. Waits(thread[q])' /\ Holds(q)'
    BY <2>1, <2>2, <2>3, Zenon DEF Holds
  <2>5. thread'[q] \in Thread /\ thread'[q].am_handle <= llama_handle'
    BY <1>1, <1>2, <1>6, <2>1, Zenon
  <2>6. llama_handle' \in Nat /\ llama_handle <= llama_handle' /\ llama_handle' <= llama'.start
    BY <1>1, <1>2, <1>5
  <2> QED BY <1>5, <2>1, <2>4, <2>5, <2>6, Zenon DEF Moved
<1>7. CASE llama' = released /\ thread' = [thread EXCEPT ![q].pc = "remove"]
  <2> DEFINE u == [t EXCEPT !.pc = "remove"]
  <2>1. u \in Thread /\ u.am_handle = t.am_handle /\ u.request = "release"
        /\ u.pc = "remove" /\ u.excused = t.excused
    BY <1>1, <1>2, Zenon DEF Thread, Pcs
  <2>2. thread' = [thread EXCEPT ![q] = u]
    BY <1>7, Zenon
  <2> HIDE DEF u
  <2> QED BY <1>6, <1>7, <2>1, <2>2, Zenon
<1>8. CASE thread' = [thread EXCEPT ![q] = [t EXCEPT !.pc = "remove", !.excused = TRUE]]
  <2> DEFINE u == [t EXCEPT !.pc = "remove", !.excused = TRUE]
  <2>1. u \in Thread /\ u.am_handle = t.am_handle /\ u.request = "release"
        /\ u.pc = "remove" /\ u.excused
    BY <1>1, <1>2, Zenon DEF Thread, Pcs
  <2>2. thread' = [thread EXCEPT ![q] = u]
    BY <1>8, Zenon
  <2> HIDE DEF u
  <2> QED BY <1>6, <2>1, <2>2, Zenon
<1>9. CASE thread' = [thread EXCEPT ![q] = Again(t)]
  <2> DEFINE u1 == [t EXCEPT !.pc = "remove", !.attempts = 0, !.excused = TRUE]
             u2 == [t EXCEPT !.attempts = @ + 1, !.excused = TRUE]
  <2>1. Again(t) \in {u1, u2}
    BY <1>2, Zenon DEF Again
  <2>2. t.attempts + 1 \in Nat
    BY <1>1 DEF Thread
  <2>3. u1 \in Thread /\ u1.am_handle = t.am_handle /\ u1.request = "release"
        /\ u1.pc = "remove" /\ u1.excused
    BY <1>1, <1>2, Zenon DEF Thread, Pcs
  <2>4. u2 \in Thread /\ u2.am_handle = t.am_handle /\ u2.request = "release"
        /\ u2.pc = "send" /\ u2.excused
    BY <1>1, <1>2, <2>2, Zenon DEF Thread
  <2> HIDE DEF u1, u2
  <2>5. CASE Again(t) = u1
    BY <1>6, <1>9, <2>3, <2>5, Zenon
  <2>6. CASE Again(t) = u2
    BY <1>6, <1>9, <2>4, <2>6, Zenon
  <2> QED BY <2>1, <2>5, <2>6, Zenon
<1>10. \/ llama' = released /\ thread' = [thread EXCEPT ![q].pc = "remove"]
       \/ thread' = [thread EXCEPT ![q] = [t EXCEPT !.pc = "remove", !.excused = TRUE]]
       \/ thread' = [thread EXCEPT ![q] = Again(t)]
  BY Zenon DEF SendRelease, released, r
<1> QED BY <1>7, <1>8, <1>9, <1>10, Zenon

-------------------------------------------------------------------------------
(* The pending ids *)

\* A thread that is not waiting has no pending id, and none when it moves
LEMMA PendingKept ==
    ASSUME Inv, NEW q \in Queries, Moved(q), UNCHANGED pending,
           thread[q].pc \notin {"wait", "erase"}
    PROVE  PendingWaits'
BY Zenon DEF Inv, TypeOK, PendingWaits, Moved

\* Entering the promise, Promise::Get and its removal: an id that is pending waits
LEMMA PendingSteps ==
    ASSUME Inv, NEW q \in Queries, AddPending(q) \/ Get(q) \/ ReserveReturns(q)
    PROVE  PendingWaits'
<1> DEFINE t == thread[q]
<1>1. t \in Thread /\ thread \in [Queries -> Thread]
  BY Zenon DEF Inv, TypeOK
<1>2. \A p \in Queries : p # q => thread'[p] = thread[p]
  BY <1>1, Zenon DEF AddPending, Get, ReserveReturns
<1>3. CASE AddPending(q)
  <2>1. thread'[q].pc = "wait" /\ thread'[q].id = t.id /\ t.pc = "add"
    BY <1>1, <1>3, Zenon DEF AddPending, Step, Thread
  <2>2. ASSUME NEW id \in DOMAIN pending', pending'[id] # None
        PROVE  /\ pending'[id] \in Queries
               /\ thread'[pending'[id]].pc \in {"wait", "erase"}
               /\ thread'[pending'[id]].id = id
    <3>1. CASE id = t.id
      <4>1. pending'[id] = q
        BY <1>3, <2>2, <3>1, Zenon DEF AddPending, With
      <4> QED BY <2>1, <3>1, <4>1, Zenon
    <3>2. CASE id # t.id
      <4>1. id \in DOMAIN pending /\ pending'[id] = pending[id]
        BY <1>3, <2>2, <3>2, Zenon DEF AddPending, With
      <4>2. pending[id] \in Queries /\ thread[pending[id]].pc \in {"wait", "erase"}
            /\ thread[pending[id]].id = id
        BY <2>2, <4>1, Zenon DEF Inv, PendingWaits
      <4>3. pending[id] # q
        BY <2>1, <4>2, Zenon
      <4> QED BY <1>2, <4>1, <4>2, <4>3, Zenon
    <3> QED BY <3>1, <3>2, Zenon
  <2> QED BY <2>2, Zenon DEF PendingWaits
<1>4. CASE Get(q)
  <2>1. thread'[q].pc = "erase" /\ thread'[q].id = t.id /\ pending' = pending
    BY <1>1, <1>4, Zenon DEF Get, Thread
  <2> QED BY <1>2, <2>1 DEF Inv, PendingWaits
<1>5. CASE ReserveReturns(q)
  <2>1. pending' = Without(pending, t.id)
    BY <1>5, Zenon DEF ReserveReturns
  <2>2. ASSUME NEW id \in DOMAIN pending', pending'[id] # None
        PROVE  /\ pending'[id] \in Queries
               /\ thread'[pending'[id]].pc \in {"wait", "erase"}
               /\ thread'[pending'[id]].id = id
    <3>1. id \in DOMAIN pending /\ pending'[id] = pending[id] /\ id # t.id
      BY <2>1, <2>2, Zenon DEF Without
    <3>2. pending[id] \in Queries /\ thread[pending[id]].pc \in {"wait", "erase"}
          /\ thread[pending[id]].id = id
      BY <2>2, <3>1, Zenon DEF Inv, PendingWaits
    <3>3. pending[id] # q
      BY <3>1, <3>2, Zenon
    <3> QED BY <1>2, <3>1, <3>2, <3>3, Zenon
  <2> QED BY <2>2 DEF PendingWaits
<1> QED BY <1>3, <1>4, <1>5, Zenon
-------------------------------------------------------------------------------
(* Llama's steps and its notifications *)

\* A step in which no thread moves keeps what the threads know of Llama
LEMMA ThreadsStay ==
    ASSUME Inv, Kept, Ids' = Ids, UNCHANGED <<llama_handle, thread, pending>>,
           notes' \subseteq Notes,
           RejectionsTrue'
    PROVE  Inv'
<1>1. TypeOK'
  BY Zenon DEF Inv, TypeOK, Kept
<1>2. HandlesOrdered'
  BY DEF Inv, TypeOK, HandlesOrdered, Kept
<1>3. PendingWaits'
  BY Zenon DEF Inv, PendingWaits
<1>4. llama_handle' \in Nat /\ llama_handle <= llama_handle'
  BY DEF Inv, TypeOK
<1>5. \A p \in Queries : Waits(thread[p])' /\ Holds(p)'
  BY <1>4, OthersKeep, Zenon DEF Inv
<1> QED BY <1>1, <1>2, <1>3, <1>5, Zenon DEF Inv

\* Llama grants, rejects, preempts or restarts: no notification lies about a rejection
LEMMA LlamaSteps ==
    ASSUME Inv, (\E id \in Ids : Decide(id) \/ Preempt(id)) \/ LlamaRestarts
    PROVE  Inv'
<1>1. ASSUME NEW id \in Ids, NEW kind \in {"granted", "rejected", "preempted"},
             ~Final(id), SetState(id, kind), notes' = notes \cup {Note(id, kind)},
             UNCHANGED <<llama_handle, thread, pending>>
      PROVE  Inv'
  <2>1. id \in Nat /\ llama.start \in Nat
    BY DEF Inv, TypeOK, Ids
  <2>2. Kept /\ Ids' = Ids /\ llama'.reservations[id].state = kind
    BY <1>1, <2>1, Restated, Zenon DEF Inv, States
  <2>3. notes' \subseteq Notes
    <3>1. Note(id, kind) \in Notes
      BY <2>1, Zenon DEF Note, Notes
    <3> QED BY <1>1, <3>1, Zenon DEF Inv, TypeOK
  <2>4. ASSUME NEW n \in notes', n.kind = "rejected" PROVE n.id \in Ids' /\ Final(n.id)'
    <3>1. CASE n \in notes
      BY <2>2, <2>4, <3>1, Zenon DEF Inv, RejectionsTrue, Kept
    <3>2. CASE n = Note(id, kind)
      <4>1. n.id = id /\ kind = "rejected"
        BY <2>4, <3>2, Zenon DEF Note
      <4>2. Final(id)'
        BY <2>2, <4>1, Zenon DEF Final
      <4> QED BY <2>2, <4>1, <4>2, Zenon DEF Final
    <3> QED BY <1>1, <2>4, <3>1, <3>2, Zenon
  <2>5. RejectionsTrue'
    BY <2>4, Zenon DEF RejectionsTrue
  <2> QED BY <1>1, <2>2, <2>3, <2>5, ThreadsStay, Zenon
<1>2. ASSUME NEW id \in Ids, Decide(id) PROVE Inv'
  <2>1. PICK kind \in {"granted", "rejected"} :
          SetState(id, kind) /\ notes' = notes \cup {Note(id, kind)}
    BY <1>2, Zenon DEF Decide, SetState
  <2>2. ~Final(id) /\ UNCHANGED <<llama_handle, thread, pending>>
    BY <1>2, Zenon DEF Decide, Final
  <2> QED BY <1>1, <2>1, <2>2, Zenon
<1>3. ASSUME NEW id \in Ids, Preempt(id) PROVE Inv'
  <2>1. SetState(id, "preempted") /\ notes' = notes \cup {Note(id, "preempted")}
    BY <1>3, Zenon DEF Preempt, SetState
  <2>2. ~Final(id) /\ UNCHANGED <<llama_handle, thread, pending>>
    BY <1>3, Zenon DEF Preempt, Final
  <2> QED BY <1>1, <2>1, <2>2, Zenon
<1>4. CASE LlamaRestarts
  <2>1. Kept /\ Ids' = Ids
    BY <1>4, Forgotten, Zenon DEF Inv
  <2>2. notes' = notes /\ UNCHANGED <<llama_handle, thread, pending>>
    BY <1>4, Zenon DEF LlamaRestarts
  <2>3. RejectionsTrue'
    BY <2>1, <2>2, Zenon DEF Inv, RejectionsTrue, Kept
  <2> QED BY <2>1, <2>2, <2>3, ThreadsStay, Zenon DEF Inv, TypeOK
<1> QED BY <1>2, <1>3, <1>4, Zenon

\* AMNotification compares the handle: at most the notification is dropped
LEMMA CheckSteps ==
    ASSUME Inv, NEW n \in notes, CheckHandle(n)
    PROVE  Inv'
<1> DEFINE m == [n EXCEPT !.checked = TRUE]
<1>1. n \in Notes /\ notes' \subseteq notes \cup {m}
  BY Zenon DEF CheckHandle, Inv, TypeOK
<1>2. m \in Notes /\ m.id = n.id /\ m.kind = n.kind
  BY <1>1, Zenon DEF Notes
<1> HIDE DEF m
<1>3. notes' \subseteq Notes
  BY <1>1, <1>2, Zenon DEF Inv, TypeOK
<1>4. UNCHANGED <<llama, llama_handle, thread, pending>>
  BY Zenon DEF CheckHandle
<1>5. Kept /\ Ids' = Ids
  BY <1>4, KeptUnchanged, Zenon DEF Inv
<1>6. RejectionsTrue'
  BY <1>1, <1>2, <1>5 DEF Inv, RejectionsTrue, Kept
<1> QED BY <1>3, <1>4, <1>5, <1>6, ThreadsStay, Zenon

\* AMNotification sets the promise of the Reserve that waits for the id, or of none
LEMMA NotificationSteps ==
    ASSUME Inv, NEW n \in notes, AMNotification(n)
    PROVE  Inv'
<1> DEFINE q == IF n.id \in DOMAIN pending THEN pending[n.id] ELSE None
           t == thread[q]
           rid == IF n.kind = "granted" THEN n.id ELSE t.reservation_id
           u == Notified(t, n)
<1>1. notes' \subseteq notes /\ UNCHANGED <<llama, llama_handle>>
  BY Zenon DEF AMNotification
<1>2. n.id \in Nat /\ n.kind \in {"granted", "rejected", "preempted"}
  BY Zenon DEF Inv, TypeOK, Notes
<1>3. Kept /\ Ids' = Ids
  BY <1>1, KeptUnchanged, Zenon DEF Inv
<1>4. RejectionsTrue'
  BY <1>1, <1>3, Zenon DEF Inv, RejectionsTrue, Kept
<1>5. CASE UNCHANGED <<pending, thread>>
  <2>1. notes' \subseteq Notes
    BY <1>1, Zenon DEF Inv, TypeOK
  <2> QED BY <1>1, <1>3, <1>4, <1>5, <2>1, ThreadsStay, Zenon
<1>6. CASE n.kind # "preempted" /\ pending' = With(pending, n.id, q)
           /\ thread' = IF q = None THEN thread ELSE [thread EXCEPT ![q] = u]
  <2>1. CASE q = None
    <3>1. TypeOK' /\ HandlesOrdered' /\ \A p \in Queries : Waits(thread[p])' /\ Holds(p)'
      <4>1. TypeOK' /\ HandlesOrdered'
        BY <1>1, <1>6, <2>1, Zenon DEF Inv, TypeOK, HandlesOrdered
      <4>2. llama_handle' \in Nat /\ llama_handle <= llama_handle' /\ thread' = thread
        BY <1>1, <1>6, <2>1 DEF Inv, TypeOK
      <4> QED BY <1>3, <4>1, <4>2, OthersKeep, Zenon DEF Inv
    <3>2. ASSUME NEW id \in DOMAIN pending', pending'[id] # None
          PROVE  id \in DOMAIN pending /\ pending'[id] = pending[id]
      BY <1>6, <2>1, <3>2, Zenon DEF With
    <3>3. PendingWaits'
      BY <1>6, <2>1, <3>2 DEF Inv, PendingWaits
    <3> QED BY <1>4, <3>1, <3>3, Zenon DEF Inv
  <2>2. CASE q # None
    <3>1. n.id \in DOMAIN pending /\ q = pending[n.id] /\ q \in Queries
          /\ t.pc \in {"wait", "erase"} /\ t.id = n.id
      BY <2>2, Zenon DEF Inv, PendingWaits
    <3>2. t \in Thread /\ Waits(t) /\ t.am_handle <= llama_handle
      BY <3>1, Zenon DEF Inv, TypeOK, HandlesOrdered
    <3>3. rid \in Nat /\ (n.kind = "granted" => rid = n.id)
      BY <1>2, <3>2, Zenon DEF Thread
    <3>4. n.kind = "rejected" => Final(n.id)
      BY Zenon DEF Inv, RejectionsTrue
    <3>5. thread' = [thread EXCEPT ![q] = u]
      BY <1>6, <2>2, Zenon
    <3> HIDE DEF q
    <3>6. u \in Thread /\ u.pc = t.pc /\ u.id = t.id /\ u.promise = n.kind
          /\ u.reservation_id = rid /\ u.am_handle = t.am_handle /\ u.excused = t.excused
      BY <1>2, <1>6, <3>2, <3>3, Zenon DEF Thread, Notified
    <3> HIDE DEF u, rid
    <3>7. Waits(u)
      BY <1>2, <1>6, <3>1, <3>2, <3>3, <3>4, <3>6, Zenon DEF Waits, Waiting, Reserving
    <3>8. \A id \in Ids : MayHold(t, id) => MayHold(u, id)
      BY <3>1, <3>6, Zenon DEF MayHold, Waiting, Reserving
    <3>9. Becomes(q, u)
      BY <3>2, <3>5, <3>6, <3>7, <3>8, Zenon DEF Becomes
    <3>10. Moved(q)
      BY <1>1, <3>1, <3>9, ThreadOnly, Zenon
    <3>11. TypeOK' /\ HandlesOrdered' /\ \A p \in Queries : Waits(thread[p])' /\ Holds(p)'
      BY <1>1, <3>1, <3>10, MovedKeeps, Zenon
    <3>12. \A id : id \in DOMAIN pending' =>
             id \in DOMAIN pending /\ pending'[id] = pending[id]
      BY <1>6, <3>1, Zenon DEF With
    <3>13. \A p \in Queries : thread'[p].pc = thread[p].pc /\ thread'[p].id = thread[p].id
      BY <3>1, <3>5, <3>6, Zenon DEF Inv, TypeOK
    <3>14. PendingWaits'
      BY <3>12, <3>13 DEF Inv, PendingWaits
    <3> QED BY <1>4, <3>11, <3>14, Zenon DEF Inv
  <2> QED BY <2>1, <2>2, Zenon
<1>7. CASE n.kind # "preempted"
  <2>1. pending' = With(pending, n.id, q)
    BY <1>7, Zenon DEF AMNotification
  <2>2. CASE q = None
    BY <1>6, <1>7, <2>1, <2>2, Zenon DEF AMNotification
  <2>3. CASE q # None
    <3>1. thread' = [thread EXCEPT ![q] = u]
      BY <1>7, <2>3, Zenon DEF AMNotification
    <3> QED BY <1>6, <1>7, <2>1, <2>3, <3>1, Zenon
  <2> QED BY <2>2, <2>3
<1>8. CASE n.kind = "preempted"
  BY <1>5, <1>8, Zenon DEF AMNotification
<1> QED BY <1>7, <1>8, Zenon
-------------------------------------------------------------------------------
(* The theorems *)

\* The invariant holds when the broker has registered and no query has come
LEMMA InitInv == Init => Inv
<1> SUFFICES ASSUME Init PROVE Inv
  BY Zenon
<1>1. NewThread \in Thread
  BY Zenon DEF NewThread, Thread, Pcs
<1>2. \A q \in Queries : thread[q] = NewThread
  BY Zenon DEF Init
<1>3. llama.start = 1 /\ llama.reservations = <<>> /\ llama_handle = 1 /\ Ids = {}
  BY DEF Init, Ids
<1>4. TypeOK
  BY <1>1 DEF Init, TypeOK
<1>5. HandlesOrdered /\ PendingWaits /\ RejectionsTrue
  BY <1>2, <1>3 DEF Init, HandlesOrdered, PendingWaits, RejectionsTrue, NewThread
<1>6. \A q \in Queries : Waits(thread[q]) /\ Holds(q)
  BY <1>2, <1>3 DEF Waits, Waiting, Reserving, Holds, NewThread
<1> QED BY <1>4, <1>5, <1>6, Zenon DEF Inv

\* Every step of a thread of Reserve or Release, of Llama and of AMNotification keeps it
LEMMA NextInv == Inv /\ [Next]_vars => Inv'
<1> SUFFICES ASSUME Inv, [Next]_vars PROVE Inv'
  BY Zenon
<1>1. ASSUME NEW q \in Queries, ThreadStep(q) PROVE Inv'
  <2>1. Moved(q)
    BY <1>1, LocalSteps, SendReserveMoves, RegisterMoves, SendReleaseMoves, Zenon DEF ThreadStep
  <2>2. notes' = notes
    BY <1>1, Zenon DEF ThreadStep, Schedule, SendReserve, Restarted, RegisterWithLlama, AddPending,
                Get, ReserveReturns, Activate, Finish, SendRelease, Remove
  <2>3. PendingWaits'
    <3>1. CASE AddPending(q) \/ Get(q) \/ ReserveReturns(q)
      BY <3>1, PendingSteps, Zenon
    <3>2. CASE ~(AddPending(q) \/ Get(q) \/ ReserveReturns(q))
      <4>1. pending' = pending /\ thread[q].pc \notin {"wait", "erase"}
        BY <1>1, <3>2, Zenon DEF ThreadStep, Schedule, SendReserve, Restarted, RegisterWithLlama,
                          Activate, Finish, SendRelease, Remove, Step
      <4> QED BY <2>1, <4>1, PendingKept, Zenon
    <3> QED BY <3>1, <3>2, Zenon
  <2> QED BY <2>1, <2>2, <2>3, MovedKeeps, Zenon DEF Inv
<1>2. CASE (\E id \in Ids : Decide(id) \/ Preempt(id)) \/ LlamaRestarts
  BY <1>2, LlamaSteps, Zenon
<1>3. ASSUME NEW n \in notes, CheckHandle(n) \/ AMNotification(n) PROVE Inv'
  BY <1>3, CheckSteps, NotificationSteps, Zenon
<1>4. CASE CancelPreempted \/ UNCHANGED vars
  <2>1. UNCHANGED <<llama, notes, llama_handle, pending, thread>>
    BY <1>4, Zenon DEF CancelPreempted, vars
  <2>2. Kept /\ Ids' = Ids /\ RejectionsTrue'
    BY <2>1, KeptUnchanged, Zenon DEF Inv, RejectionsTrue, Ids, Final
  <2> QED BY <2>1, <2>2, ThreadsStay, Zenon DEF Inv, TypeOK
<1> QED BY <1>1, <1>2, <1>3, <1>4, Zenon DEF Next

\* So it holds for ever: what the three theorems about the broker rest on
LEMMA Inductive == Spec => []Inv
BY InitInv, NextInv, PTL DEF Spec

\* For every set of queries, number of attempts and number of faults: AMNotification only
\* sets the promise of a Reserve that has not returned, however its timeout, the removal of
\* the pending id and the notification interleave.
THEOREM PromiseOutlivesNotification == Spec => []PromiseIsAlive
<1>1. Inv => PromiseIsAlive
  BY Zenon DEF Inv, PendingWaits, PromiseIsAlive, Step
<1> QED BY <1>1, Inductive, PTL

\* However many threads find that Llama was restarted and register again, a notification of
\* the Llama that runs about a reservation that a thread waits for carries llama_handle.
THEOREM NotificationIsHeard == Spec => []NotificationsHeard
<1>1. ASSUME Inv PROVE NotificationsHeard
  <2>1. ASSUME NEW q \in Queries, thread[q].pc \in {"add", "wait"},
               llama.reservations[thread[q].id].start = llama.start
        PROVE  llama_handle = llama.start
    <3>1. llama.start <= llama_handle
      BY <1>1, <2>1, Zenon DEF Inv, Waits, Waiting
    <3> QED BY <1>1, <3>1 DEF Inv, HandlesOrdered, TypeOK
  <2> QED BY <2>1, Zenon DEF NotificationsHeard
<1> QED BY <1>1, Inductive, PTL

\* A query that is gone, and met none of the faults after which the code gives up on a
\* reservation, has left none in Llama: whatever it was granted in time, too late or before
\* its promise was entered has been released, or forgotten in a restart.
THEOREM NothingLeftReserved == Spec => []ReservationsReturned
<1>1. Inv => ReservationsReturned
  BY Zenon DEF Inv, Holds, MayHold, Final, ReservationsReturned, Step
<1> QED BY <1>1, Inductive, PTL
================================================================================
