--------------------------- MODULE ThreadPoolProofs ---------------------------
(***************************************************************************)
(* Proofs about ThreadPool: for any number of workers, offering threads and  *)
(* items, and any capacity, no wakeup is lost, no item is lost or handed out *)
(* twice, and DrainAndShutdown returns only when what had been accepted      *)
(* before it was called is processed.                                        *)
(***************************************************************************)
EXTENDS ThreadPool, FiniteSetTheorems, TLAPS

\* g differs from f at x only.
Only(f, g, x) ==
    /\ DOMAIN g = DOMAIN f
    /\ \A y \in DOMAIN f : y # x => g[y] = f[y]

At(f, x, pc) == IF f[x].pc = pc THEN 1 ELSE 0

\* How the number of threads at a place changes when one of them moves.
LEMMA CountMoves ==
    ASSUME NEW f, NEW g, NEW x \in DOMAIN f, NEW p, IsFiniteSet(DOMAIN f), Only(f, g, x)
    PROVE  /\ Cardinality(Waiting(f, p)) \in Nat
           /\ Cardinality(Waiting(g, p)) \in Nat
           /\ Cardinality(Waiting(g, p)) = Cardinality(Waiting(f, p)) + At(g, x, p) - At(f, x, p)
<1> DEFINE S == Waiting(f, p)
           T == Waiting(g, p)
<1>1. IsFiniteSet(S) /\ IsFiniteSet(T)
  BY FS_Subset, Zenon DEF Only, Waiting
<1>2. Cardinality(S) \in Nat /\ Cardinality(T) \in Nat
  BY <1>1, FS_CardinalityType, Zenon
<1>3. CASE f[x].pc = p /\ g[x].pc = p
  <2>1. T = S
    BY <1>3, Zenon DEF Only, Waiting
  <2> QED
    BY <2>1, <1>2, <1>3 DEF At
<1>4. CASE f[x].pc # p /\ g[x].pc # p
  <2>1. T = S
    BY <1>4, Zenon DEF Only, Waiting
  <2> QED
    BY <2>1, <1>2, <1>4 DEF At
<1>5. CASE f[x].pc = p /\ g[x].pc # p
  <2>1. T = S \ {x} /\ x \in S
    BY <1>5 DEF Only, Waiting
  <2>2. Cardinality(T) = Cardinality(S) - 1
    BY <2>1, <1>1, FS_RemoveElement, Zenon
  <2> QED
    BY <2>2, <1>2, <1>5 DEF At
<1>6. CASE f[x].pc # p /\ g[x].pc = p
  <2>1. T = S \cup {x} /\ x \notin S
    BY <1>6, Zenon DEF Only, Waiting
  <2>2. Cardinality(T) = Cardinality(S) + 1
    BY <2>1, <1>1, FS_AddElement, Zenon
  <2> QED
    BY <2>2, <1>2, <1>6 DEF At
<1> QED
  BY <1>3, <1>4, <1>5, <1>6, Zenon

LEMMA CountType ==
    ASSUME NEW f, NEW p, IsFiniteSet(DOMAIN f)
    PROVE  Cardinality(Waiting(f, p)) \in Nat
BY FS_Subset, FS_CardinalityType, Zenon DEF Waiting

-------------------------------------------------------------------------------

LEMMA InitType == Init => TypeOK
<1> SUFFICES ASSUME Init PROVE TypeOK
  BY Zenon
<1> USE PoolAssumption DEF Init
<1>1. list \in Seq(Items) /\ Len(list) <= QueueSize
  OBVIOUS
<1>2. /\ worker \in [Workers -> [pc : WorkerPcs, item : Items \cup {NoItem}]]
      /\ \A w \in Workers : worker[w].pc = "check" /\ worker[w].item = NoItem
  BY Zenon DEF WorkerPcs
<1>3. /\ offerer \in [Offerers -> [pc : OffererPcs, count : 0 .. MaxOffers]]
      /\ \A o \in Offerers : offerer[o].pc # "idle" => offerer[o].count > 0
  BY DEF OffererPcs
<1> QED
  BY <1>1, <1>2, <1>3, Zenon DEF TypeOK, CloserPcs

WorkerType ==
    /\ worker \in [Workers -> [pc : WorkerPcs, item : Items \cup {NoItem}]]
    /\ \A w \in Workers : IF worker[w].pc \in {"notify", "work"} THEN worker[w].item \in Items
                                                                 ELSE worker[w].item = NoItem
OffererType ==
    /\ offerer \in [Offerers -> [pc : OffererPcs, count : 0 .. MaxOffers]]
    /\ \A o \in Offerers : offerer[o].pc # "idle" => offerer[o].count > 0
ListType == list \in Seq(Items) /\ Len(list) <= QueueSize

\* A step preserves the types, one action at a time.
LEMMA NextType == TypeOK /\ [Next]_vars => TypeOK'
<1> SUFFICES ASSUME TypeOK, [Next]_vars PROVE TypeOK'
  BY Zenon
<1>0. /\ WorkerType /\ OffererType /\ ListType
      /\ queue_shutdown \in BOOLEAN /\ pool_shutdown \in BOOLEAN /\ closer \in CloserPcs
      /\ accepted \subseteq Items /\ processed \subseteq Items /\ owed \subseteq Items
  BY Zenon DEF TypeOK, WorkerType, OffererType, ListType
<1>a. ASSUME WorkerType', OffererType', ListType', queue_shutdown' \in BOOLEAN,
             pool_shutdown' \in BOOLEAN, closer' \in CloserPcs, accepted' \subseteq Items,
             processed' \subseteq Items, owed' \subseteq Items
      PROVE  TypeOK'
  BY <1>a, Zenon DEF TypeOK, WorkerType, OffererType, ListType
<1>b. list' = list => ListType'
  BY <1>0, Zenon DEF ListType
<1>c. worker' = worker => WorkerType'
  BY <1>0, Zenon DEF WorkerType
<1>d. offerer' = offerer => OffererType'
  BY <1>0, Zenon DEF OffererType
<1>1. ASSUME NEW o \in Offerers, OfferStart(o) PROVE TypeOK'
  <2>1. OffererType'
    BY <1>1, <1>0, PoolAssumption DEF OfferStart, OffererType, OffererPcs
  <2> QED
    BY <1>0, <1>a, <1>b, <1>c, <1>1, <2>1, Zenon DEF OfferStart
<1>2. ASSUME NEW o \in Offerers, Put(o) PROVE TypeOK'
  <2>1. OffererType'
    BY <1>2, <1>0, PoolAssumption DEF Put, OffererType, OffererPcs
  <2>2. <<o, offerer[o].count>> \in Items
    BY <1>2, <1>0, PoolAssumption DEF Put, OffererType, Items
  <2>3. \/ list' = list
        \/ Len(list) < QueueSize /\ list' = Append(list, <<o, offerer[o].count>>)
    BY <1>2, Zenon DEF Put
  <2>4. \A x \in Items : Append(list, x) \in Seq(Items) /\ Len(Append(list, x)) = Len(list) + 1
    BY <1>0 DEF ListType
  <2>5. ListType'
    BY <1>0, <2>2, <2>3, <2>4, PoolAssumption, SMTT(40) DEF ListType
  <2> QED
    BY <1>0, <1>a, <1>c, <1>2, <2>1, <2>2, <2>5, Zenon DEF Put
<1>3. ASSUME NEW o \in Offerers, PutNotify(o) PROVE TypeOK'
  <2>1. OffererType'
    BY <1>3, <1>0, Zenon DEF PutNotify, OffererType, OffererPcs
  <2>2. WorkerType'
    BY <1>3, <1>0 DEF PutNotify, WorkerType, WorkerPcs, NotifyOne, Waiting
  <2> QED
    BY <1>0, <1>a, <1>b, <1>3, <2>1, <2>2, Zenon DEF PutNotify
<1>4. ASSUME NEW o \in Offerers, PutSpurious(o) PROVE TypeOK'
  <2>1. OffererType'
    BY <1>4, <1>0, Zenon DEF PutSpurious, OffererType, OffererPcs
  <2> QED
    BY <1>0, <1>a, <1>b, <1>c, <1>4, <2>1, Zenon DEF PutSpurious
<1>5. ASSUME NEW w \in Workers, IsShutdown(w) PROVE TypeOK'
  <2>1. WorkerType'
    BY <1>5, <1>0 DEF IsShutdown, WorkerType, WorkerPcs
  <2> QED
    BY <1>0, <1>a, <1>b, <1>d, <1>5, <2>1, Zenon DEF IsShutdown
<1>6. ASSUME NEW w \in Workers, Get(w) PROVE TypeOK'
  <2>1. list # <<>> => Head(list) \in Items /\ Tail(list) \in Seq(Items) /\ Len(Tail(list)) <= QueueSize
    BY <1>0, PoolAssumption DEF ListType
  <2>2. WorkerType'
    BY <1>6, <1>0, <2>1 DEF Get, WorkerType, WorkerPcs
  <2>3. ListType'
    BY <1>6, <1>0, <2>1, Zenon DEF Get, ListType
  <2> QED
    BY <1>0, <1>a, <1>d, <1>6, <2>2, <2>3, Zenon DEF Get
<1>7. ASSUME NEW w \in Workers, GetNotify(w) PROVE TypeOK'
  <2>1. WorkerType'
    BY <1>7, <1>0 DEF GetNotify, WorkerType, WorkerPcs
  <2>2. OffererType'
    BY <1>7, <1>0 DEF GetNotify, OffererType, OffererPcs, NotifyOne, Waiting
  <2> QED
    BY <1>0, <1>a, <1>b, <1>7, <2>1, <2>2, Zenon DEF GetNotify
<1>8. ASSUME NEW w \in Workers, GetSpurious(w) PROVE TypeOK'
  <2>1. WorkerType'
    BY <1>8, <1>0 DEF GetSpurious, WorkerType, WorkerPcs
  <2> QED
    BY <1>0, <1>a, <1>b, <1>d, <1>8, <2>1, Zenon DEF GetSpurious
<1>9. ASSUME NEW w \in Workers, Work(w) PROVE TypeOK'
  <2>1. WorkerType'
    BY <1>9, <1>0, Zenon DEF Work, WorkerType, WorkerPcs
  <2>2. worker[w].item \in Items
    BY <1>9, <1>0, Zenon DEF Work, WorkerType
  <2> QED
    BY <1>0, <1>a, <1>b, <1>d, <1>9, <2>1, <2>2, Zenon DEF Work
<1>10. ASSUME NEW w \in Workers, CheckSize(w) PROVE TypeOK'
  <2>1. WorkerType'
    BY <1>10, <1>0 DEF CheckSize, WorkerType, WorkerPcs
  <2> QED
    BY <1>0, <1>a, <1>b, <1>d, <1>10, <2>1, Zenon DEF CheckSize
<1>11. ASSUME NEW w \in Workers, NotifyEmpty(w) PROVE TypeOK'
  <2>1. WorkerType'
    BY <1>11, <1>0 DEF NotifyEmpty, WorkerType, WorkerPcs
  <2>2. closer' \in CloserPcs
    BY <1>11, <1>0, Zenon DEF NotifyEmpty, CloserPcs
  <2> QED
    BY <1>0, <1>a, <1>b, <1>d, <1>11, <2>1, <2>2, Zenon DEF NotifyEmpty
<1>12. CASE DrainStart \/ ShutdownStart \/ DrainSpurious
  BY <1>0, <1>a, <1>b, <1>c, <1>d, <1>12
    , Zenon DEF DrainStart, ShutdownStart, DrainSpurious, CloserMoves, CloserPcs
<1>13. CASE CloserStep
  <2>1. WorkerType'
    BY <1>13, <1>0 DEF CloserStep, DrainCheck, DrainWait, ShutdownPool, ShutdownQueue,
       WakeGetters, WakePutters, Join, NotifyAll, WorkerType, WorkerPcs
  <2>2. OffererType'
    BY <1>13, <1>0 DEF CloserStep, DrainCheck, DrainWait, ShutdownPool, ShutdownQueue,
       WakeGetters, WakePutters, Join, NotifyAll, OffererType, OffererPcs
  <2> QED
    BY <1>0, <1>a, <1>b, <1>13, <2>1, <2>2
      , Zenon DEF CloserStep, DrainCheck, DrainWait, ShutdownPool, ShutdownQueue,
       WakeGetters, WakePutters, Join, CloserMoves, CloserPcs
<1>14. CASE UNCHANGED vars
  BY <1>0, <1>a, <1>b, <1>c, <1>d, <1>14, Zenon DEF vars
<1> QED
  BY <1>1, <1>2, <1>3, <1>4, <1>5, <1>6, <1>7, <1>8, <1>9, <1>10, <1>11, <1>12, <1>13,
     <1>14, Zenon DEF Next, OffererStep, WorkerStep

-------------------------------------------------------------------------------
(* No lost wakeup.  Each invariant is a count, inductive on its own: a step  *)
(* that adds an item (or a free slot) also adds a notification, and a        *)
(* notification is used up only for a thread that is now about to look.      *)

LEMMA Domains ==
    ASSUME TypeOK
    PROVE  /\ DOMAIN worker = Workers /\ IsFiniteSet(DOMAIN worker)
           /\ DOMAIN offerer = Offerers /\ IsFiniteSet(DOMAIN offerer)
BY PoolAssumption, Zenon DEF TypeOK

\* What a step that moves one worker, or one offering thread, does to the counts.
LEMMA WorkerMoves ==
    ASSUME TypeOK, NEW w \in Workers, Only(worker, worker', w), NEW p
    PROVE  /\ Cardinality(Waiting(worker, p)) \in Nat
           /\ Cardinality(Waiting(worker', p)) \in Nat
           /\ Cardinality(Waiting(worker', p)) =
                 Cardinality(Waiting(worker, p)) + (IF worker'[w].pc = p THEN 1 ELSE 0)
                      - (IF worker[w].pc = p THEN 1 ELSE 0)
           /\ worker'[w].pc # p => Waiting(worker', p) \subseteq Waiting(worker, p)
<1>1. worker'[w].pc # p => Waiting(worker', p) \subseteq Waiting(worker, p)
  BY Domains, Zenon DEF Only, Waiting
<1>2. w \in DOMAIN worker /\ IsFiniteSet(DOMAIN worker)
  BY Domains, Zenon
<1>3. /\ Cardinality(Waiting(worker, p)) \in Nat
      /\ Cardinality(Waiting(worker', p)) \in Nat
      /\ Cardinality(Waiting(worker', p)) =
            Cardinality(Waiting(worker, p)) + At(worker', w, p) - At(worker, w, p)
  BY <1>2, CountMoves, Zenon
<1> QED
  BY <1>1, <1>3, Zenon DEF At

LEMMA OffererMoves ==
    ASSUME TypeOK, NEW o \in Offerers, Only(offerer, offerer', o), NEW p
    PROVE  /\ Cardinality(Waiting(offerer, p)) \in Nat
           /\ Cardinality(Waiting(offerer', p)) \in Nat
           /\ Cardinality(Waiting(offerer', p)) =
                 Cardinality(Waiting(offerer, p)) + (IF offerer'[o].pc = p THEN 1 ELSE 0)
                      - (IF offerer[o].pc = p THEN 1 ELSE 0)
           /\ offerer'[o].pc # p => Waiting(offerer', p) \subseteq Waiting(offerer, p)
<1>1. offerer'[o].pc # p => Waiting(offerer', p) \subseteq Waiting(offerer, p)
  BY Domains, Zenon DEF Only, Waiting
<1>2. o \in DOMAIN offerer /\ IsFiniteSet(DOMAIN offerer)
  BY Domains, Zenon
<1>3. /\ Cardinality(Waiting(offerer, p)) \in Nat
      /\ Cardinality(Waiting(offerer', p)) \in Nat
      /\ Cardinality(Waiting(offerer', p)) =
            Cardinality(Waiting(offerer, p)) + At(offerer', o, p) - At(offerer, o, p)
  BY <1>2, CountMoves, Zenon
<1> QED
  BY <1>1, <1>3, Zenon DEF At

LEMMA Lengths ==
    ASSUME TypeOK
    PROVE  /\ Len(list) \in Nat
           /\ list # <<>> => Len(Tail(list)) = Len(list) - 1
           /\ list = <<>> => Len(list) = 0
           /\ \A o \in Offerers : offerer[o].pc = "put" =>
                 Len(Append(list, <<o, offerer[o].count>>)) = Len(list) + 1
<1>1. list \in Seq(Items)
  BY Zenon DEF TypeOK
<1>2. \A o \in Offerers : offerer[o].pc = "put" => <<o, offerer[o].count>> \in Items
  BY PoolAssumption DEF TypeOK, Items
<1>3. \A x \in Items : Len(Append(list, x)) = Len(list) + 1
  BY <1>1
<1> QED
  BY <1>1, <1>2, <1>3

\* Where the threads of each action go.
LEMMA OffererActions ==
    ASSUME TypeOK, NEW o \in Offerers,
           OfferStart(o) \/ Put(o) \/ PutNotify(o) \/ PutSpurious(o)
    PROVE  /\ Only(offerer, offerer', o)
           /\ OfferStart(o) => offerer[o].pc = "idle" /\ offerer'[o].pc = "put"
           /\ PutSpurious(o) => offerer[o].pc = "putwait" /\ offerer'[o].pc = "put"
           /\ PutNotify(o) => offerer[o].pc = "notify" /\ offerer'[o].pc = "idle"
           /\ Put(o) => /\ offerer[o].pc = "put"
                        /\ \/ queue_shutdown /\ offerer'[o].pc = "idle" /\ list' = list
                           \/ /\ Len(list) >= QueueSize
                              /\ offerer'[o].pc = "putwait"
                              /\ list' = list
                           \/ /\ Len(list) < QueueSize
                              /\ offerer'[o].pc = "notify"
                              /\ list' = Append(list, <<o, offerer[o].count>>)
<1>0. offerer \in [Offerers -> [pc : OffererPcs, count : 0 .. MaxOffers]]
  BY Zenon DEF TypeOK
<1>1. CASE OfferStart(o)
  BY <1>0, <1>1, Zenon DEF OfferStart, Put, PutNotify, PutSpurious, Only
<1>2. CASE Put(o)
  BY <1>0, <1>2, Zenon DEF OfferStart, Put, PutNotify, PutSpurious, Only
<1>3. CASE PutNotify(o)
  BY <1>0, <1>3, Zenon DEF OfferStart, Put, PutNotify, PutSpurious, Only
<1>4. CASE PutSpurious(o)
  BY <1>0, <1>4, Zenon DEF OfferStart, Put, PutNotify, PutSpurious, Only
<1> QED
  BY <1>1, <1>2, <1>3, <1>4, Zenon

LEMMA WorkerActions ==
    ASSUME TypeOK, NEW w \in Workers,
           WorkerStep(w) \/ GetSpurious(w)
    PROVE  /\ Only(worker, worker', w)
           /\ IsShutdown(w) => worker[w].pc = "check" /\ worker'[w].pc \in {"exit", "get"}
           /\ GetSpurious(w) => worker[w].pc = "getwait" /\ worker'[w].pc = "get"
           /\ GetNotify(w) => worker[w].pc = "notify" /\ worker'[w].pc = "work"
           /\ Work(w) => worker[w].pc = "work" /\ worker'[w].pc = "size"
           /\ CheckSize(w) => worker[w].pc = "size" /\ worker'[w].pc \in {"empty", "check"}
           /\ NotifyEmpty(w) => worker[w].pc = "empty" /\ worker'[w].pc = "check"
           /\ Get(w) => /\ worker[w].pc = "get"
                        /\ \/ /\ list # <<>> /\ list' = Tail(list)
                              /\ worker'[w].pc = "notify"
                           \/ /\ list = <<>> /\ list' = list
                              /\ worker'[w].pc \in {"size", "getwait"}
<1>0. worker \in [Workers -> [pc : WorkerPcs, item : Items \cup {NoItem}]]
  BY Zenon DEF TypeOK
<1> USE <1>0 DEF Only
<1>1. CASE IsShutdown(w)
  BY <1>1, Zenon DEF IsShutdown, GetSpurious, GetNotify, Work, CheckSize, NotifyEmpty, Get
<1>2. CASE Get(w)
  BY <1>2 DEF IsShutdown, GetSpurious, GetNotify, Work, CheckSize, NotifyEmpty, Get
<1>3. CASE GetNotify(w)
  BY <1>3, Zenon DEF IsShutdown, GetSpurious, GetNotify, Work, CheckSize, NotifyEmpty, Get
<1>4. CASE Work(w)
  BY <1>4, Zenon DEF IsShutdown, GetSpurious, GetNotify, Work, CheckSize, NotifyEmpty, Get
<1>5. CASE CheckSize(w)
  BY <1>5, Zenon DEF IsShutdown, GetSpurious, GetNotify, Work, CheckSize, NotifyEmpty, Get
<1>6. CASE NotifyEmpty(w)
  BY <1>6, Zenon DEF IsShutdown, GetSpurious, GetNotify, Work, CheckSize, NotifyEmpty, Get
<1>7. CASE GetSpurious(w)
  BY <1>7, Zenon DEF IsShutdown, GetSpurious, GetNotify, Work, CheckSize, NotifyEmpty, Get
<1> QED
  BY <1>1, <1>2, <1>3, <1>4, <1>5, <1>6, <1>7, Zenon DEF WorkerStep

LEMMA PutNotified ==
    ASSUME TypeOK, NEW o \in Offerers, PutNotify(o)
    PROVE  \/ Waiting(worker, "getwait") = {} /\ worker' = worker
           \/ \E x \in Workers : /\ Only(worker, worker', x)
                                 /\ worker[x].pc = "getwait" /\ worker'[x].pc = "get"
<1>0. worker \in [Workers -> [pc : WorkerPcs, item : Items \cup {NoItem}]]
  BY Zenon DEF TypeOK
<1> QED
  BY <1>0 DEF PutNotify, NotifyOne, Waiting, Only

LEMMA GetNotified ==
    ASSUME TypeOK, NEW w \in Workers, GetNotify(w)
    PROVE  \/ Waiting(offerer, "putwait") = {} /\ offerer' = offerer
           \/ \E x \in Offerers : /\ Only(offerer, offerer', x)
                                  /\ offerer[x].pc = "putwait" /\ offerer'[x].pc = "put"
<1>0. offerer \in [Offerers -> [pc : OffererPcs, count : 0 .. MaxOffers]]
  BY Zenon DEF TypeOK
<1> QED
  BY <1>0 DEF GetNotify, NotifyOne, Waiting, Only

\* A step keeps GettersWoken if nobody starts to wait and the notifications and
\* the threads about to look grow as much as the list does.
LEMMA GettersCount ==
    ASSUME GettersWoken,
           Waiting(worker', "getwait") \subseteq Waiting(worker, "getwait"),
           NEW n \in Nat, n = Cardinality(Waiting(offerer, "notify")),
           NEW g \in Nat, g = Cardinality(Waiting(worker, "get")),
           NEW n2 \in Nat, n2 = Cardinality(Waiting(offerer', "notify")),
           NEW g2 \in Nat, g2 = Cardinality(Waiting(worker', "get")),
           Len(list) \in Nat, Len(list') \in Nat,
           Len(list') - Len(list) <= (n2 + g2) - (n + g)
    PROVE  GettersWoken'
<1>1. SUFFICES ASSUME Waiting(worker', "getwait") # {} PROVE Len(list') <= n2 + g2
  BY Zenon DEF GettersWoken
<1>2. Len(list) <= n + g
  BY <1>1, Zenon DEF GettersWoken
<1> QED
  BY <1>2, SMTT(40)

LEMMA GettersStep ==
    ASSUME TypeOK, TypeOK', GettersWoken, [Next]_vars PROVE GettersWoken'
<1> DEFINE n == Cardinality(Waiting(offerer, "notify"))
           g == Cardinality(Waiting(worker, "get"))
           n2 == Cardinality(Waiting(offerer', "notify"))
           g2 == Cardinality(Waiting(worker', "get"))
<1>n. n \in Nat /\ g \in Nat /\ n2 \in Nat /\ g2 \in Nat
  <2>1. IsFiniteSet(DOMAIN worker') /\ IsFiniteSet(DOMAIN offerer')
    BY PoolAssumption, Zenon DEF TypeOK
  <2> QED
    BY <2>1, Domains, CountType, Zenon
<1>l. Len(list) \in Nat /\ Len(list') \in Nat
  BY DEF TypeOK
<1>a. ASSUME Waiting(worker', "getwait") \subseteq Waiting(worker, "getwait"),
             Len(list') - Len(list) <= (n2 + g2) - (n + g)
      PROVE  GettersWoken'
  BY <1>a, <1>n, <1>l, GettersCount, Zenon
<1>b. ASSUME Waiting(worker', "getwait") = {} PROVE GettersWoken'
  BY <1>b, Zenon DEF GettersWoken
<1>1. ASSUME NEW o \in Offerers, OfferStart(o) PROVE GettersWoken'
  <2>1. worker' = worker /\ list' = list
    BY <1>1, Zenon DEF OfferStart
  <2>2. n2 = n
    BY <1>1, OffererActions, OffererMoves
  <2> QED
    BY <1>a, <1>n, <1>l, <2>1, <2>2
<1>2. ASSUME NEW o \in Offerers, Put(o) PROVE GettersWoken'
  <2>1. worker' = worker
    BY <1>2, Zenon DEF Put
  <2>2. \/ n2 = n /\ list' = list
        \/ n2 = n + 1 /\ Len(list') = Len(list) + 1
    BY <1>n, <1>2, OffererActions, OffererMoves, Lengths
  <2> QED
    BY <1>a, <1>n, <1>l, <2>1, <2>2
<1>3. ASSUME NEW o \in Offerers, PutNotify(o) PROVE GettersWoken'
  <2>1. list' = list
    BY <1>3, Zenon DEF PutNotify
  <2>2. n2 = n - 1
    BY <1>3, <1>n, OffererActions, OffererMoves
  <2>3. CASE Waiting(worker, "getwait") = {} /\ worker' = worker
    BY <1>b, <2>3, Zenon
  <2>4. ASSUME NEW x \in Workers, Only(worker, worker', x),
               worker[x].pc = "getwait", worker'[x].pc = "get"
        PROVE  GettersWoken'
    <3>1. /\ g2 = g + 1
          /\ Waiting(worker', "getwait") \subseteq Waiting(worker, "getwait")
      BY <2>4, WorkerMoves
    <3> QED
      BY <1>a, <1>n, <1>l, <2>1, <2>2, <3>1
  <2> QED
    BY <1>3, <2>3, <2>4, PutNotified, Zenon
<1>4. ASSUME NEW o \in Offerers, PutSpurious(o) PROVE GettersWoken'
  <2>1. worker' = worker /\ list' = list
    BY <1>4, Zenon DEF PutSpurious
  <2>2. n2 = n
    BY <1>4, OffererActions, OffererMoves
  <2> QED
    BY <1>a, <1>n, <1>l, <2>1, <2>2
<1>5. ASSUME NEW w \in Workers, Get(w) PROVE GettersWoken'
  <2>1. offerer' = offerer
    BY <1>5, Zenon DEF Get
  <2>2. CASE list # <<>>
    <3>1. /\ Only(worker, worker', w) /\ worker[w].pc = "get" /\ worker'[w].pc = "notify"
          /\ Len(list') = Len(list) - 1
      BY <1>5, <2>2, WorkerActions, Lengths, Zenon DEF WorkerStep
    <3>2. /\ g2 = g - 1
          /\ Waiting(worker', "getwait") \subseteq Waiting(worker, "getwait")
      BY <1>n, <3>1, WorkerMoves
    <3> QED
      BY <1>a, <1>n, <1>l, <2>1, <3>1, <3>2
  <2>3. CASE list = <<>>
    <3>1. Len(list') = 0
      BY <1>5, <2>3, Lengths, Zenon DEF Get
    <3> QED
      BY <1>n, <3>1 DEF GettersWoken
  <2> QED
    BY <2>2, <2>3, Zenon
<1>6. ASSUME NEW w \in Workers, GetNotify(w) PROVE GettersWoken'
  <2>1. list' = list
    BY <1>6, Zenon DEF GetNotify
  <2>2. /\ g2 = g
        /\ Waiting(worker', "getwait") \subseteq Waiting(worker, "getwait")
    BY <1>6, <1>n, WorkerActions, WorkerMoves DEF WorkerStep
  <2>3. n2 = n
    BY <1>6, <1>n, GetNotified, OffererMoves
  <2> QED
    BY <1>a, <1>n, <1>l, <2>1, <2>2, <2>3
<1>7. ASSUME NEW w \in Workers,
             IsShutdown(w) \/ GetSpurious(w) \/ Work(w) \/ CheckSize(w) \/ NotifyEmpty(w)
      PROVE  GettersWoken'
  <2>1. list' = list /\ offerer' = offerer
    BY <1>7, Zenon DEF IsShutdown, GetSpurious, Work, CheckSize, NotifyEmpty
  <2>2. /\ g2 = g \/ g2 = g + 1
        /\ Waiting(worker', "getwait") \subseteq Waiting(worker, "getwait")
    <3>1. /\ Only(worker, worker', w) /\ worker'[w].pc # "getwait"
          /\ worker[w].pc # "get"
      BY <1>7, WorkerActions, Zenon DEF WorkerStep
    <3> QED
      BY <3>1, <1>n, WorkerMoves
  <2> QED
    BY <1>a, <1>n, <1>l, <2>1, <2>2
<1>8. CASE WakeGetters
  <2>1. Waiting(worker', "getwait") = {}
    BY <1>8 DEF WakeGetters, NotifyAll, Waiting, TypeOK
  <2> QED
    BY <1>b, <2>1, Zenon
<1>9. CASE WakePutters
  <2>1. worker' = worker /\ list' = list
    BY <1>9, Zenon DEF WakePutters
  <2>2. Waiting(offerer', "notify") = Waiting(offerer, "notify")
    BY <1>9 DEF WakePutters, NotifyAll, Waiting, TypeOK
  <2> QED
    BY <1>a, <1>n, <1>l, <2>1, <2>2
<1>10. CASE \/ DrainStart \/ ShutdownStart \/ DrainSpurious \/ DrainCheck \/ DrainWait
            \/ ShutdownPool \/ ShutdownQueue \/ Join \/ UNCHANGED vars
  <2>1. worker' = worker /\ list' = list /\ offerer' = offerer
    BY <1>10, Zenon DEF DrainStart, ShutdownStart, DrainSpurious, DrainCheck, DrainWait,
       ShutdownPool, ShutdownQueue, Join, vars
  <2> QED
    BY <2>1, Zenon DEF GettersWoken
<1> QED
  BY <1>1, <1>2, <1>3, <1>4, <1>5, <1>6, <1>7, <1>8, <1>9, <1>10
     DEF Next, OffererStep, WorkerStep, CloserStep

LEMMA SlotsMove ==
    ASSUME NEW n \in Nat, NEW g \in Nat, NEW n2 \in Nat, NEW g2 \in Nat,
           Len(list) \in Nat, Len(list') \in Nat,
           Len(list) - Len(list') <= (n2 + g2) - (n + g),
           QueueSize - Len(list) <= n + g
    PROVE  QueueSize - Len(list') <= n2 + g2
BY PoolAssumption

\* The same for the free slots.
LEMMA PuttersCount ==
    ASSUME PuttersWoken, ~ queue_shutdown' => ~ queue_shutdown,
           Waiting(offerer', "putwait") \subseteq Waiting(offerer, "putwait"),
           NEW n \in Nat, n = Cardinality(Waiting(worker, "notify")),
           NEW g \in Nat, g = Cardinality(Waiting(offerer, "put")),
           NEW n2 \in Nat, n2 = Cardinality(Waiting(worker', "notify")),
           NEW g2 \in Nat, g2 = Cardinality(Waiting(offerer', "put")),
           Len(list) \in Nat, Len(list') \in Nat,
           Len(list) - Len(list') <= (n2 + g2) - (n + g)
    PROVE  PuttersWoken'
<1>1. ~ queue_shutdown' /\ Waiting(offerer', "putwait") # {} =>
         QueueSize - Len(list) <= n + g
  BY Zenon DEF PuttersWoken
<1>2. QueueSize - Len(list) <= n + g => QueueSize - Len(list') <= n2 + g2
  BY SlotsMove, ZenonT(60)
<1> QED
  BY <1>1, <1>2, Zenon DEF PuttersWoken

LEMMA PuttersStep ==
    ASSUME TypeOK, TypeOK', PuttersWoken, [Next]_vars PROVE PuttersWoken'
<1> DEFINE n == Cardinality(Waiting(worker, "notify"))
           g == Cardinality(Waiting(offerer, "put"))
           n2 == Cardinality(Waiting(worker', "notify"))
           g2 == Cardinality(Waiting(offerer', "put"))
<1>n. n \in Nat /\ g \in Nat /\ n2 \in Nat /\ g2 \in Nat
  <2>1. IsFiniteSet(DOMAIN worker') /\ IsFiniteSet(DOMAIN offerer')
    BY PoolAssumption, Zenon DEF TypeOK
  <2> QED
    BY <2>1, Domains, CountType, Zenon
<1>l. Len(list) \in Nat /\ Len(list') \in Nat
  BY DEF TypeOK
<1>a. ASSUME Waiting(offerer', "putwait") \subseteq Waiting(offerer, "putwait"),
             queue_shutdown' = queue_shutdown,
             Len(list) - Len(list') <= (n2 + g2) - (n + g)
      PROVE  PuttersWoken'
  BY <1>a, <1>n, <1>l, PuttersCount, Zenon
<1>b. ASSUME Waiting(offerer', "putwait") = {} \/ queue_shutdown' PROVE PuttersWoken'
  BY <1>b, Zenon DEF PuttersWoken
<1>1. ASSUME NEW o \in Offerers, OfferStart(o) \/ PutSpurious(o) PROVE PuttersWoken'
  <2>1. worker' = worker /\ list' = list /\ queue_shutdown' = queue_shutdown
    BY <1>1, Zenon DEF OfferStart, PutSpurious
  <2>2. Only(offerer, offerer', o) /\ offerer[o].pc # "put" /\ offerer'[o].pc = "put"
    BY <1>1, OffererActions, Zenon
  <2>3. /\ g2 = g + 1
        /\ Waiting(offerer', "putwait") \subseteq Waiting(offerer, "putwait")
    BY <1>n, <2>2, OffererMoves
  <2> QED
    BY <1>a, <1>n, <1>l, <2>1, <2>3
<1>2. ASSUME NEW o \in Offerers, Put(o) PROVE PuttersWoken'
  <2>1. worker' = worker /\ queue_shutdown' = queue_shutdown
    BY <1>2, Zenon DEF Put
  <2>2. CASE queue_shutdown
    BY <1>b, <2>1, <2>2, Zenon
  <2>3. CASE Len(list) >= QueueSize /\ list' = list
    BY <1>n, <1>l, <2>3, PoolAssumption DEF PuttersWoken
  <2>4. CASE /\ Len(list) < QueueSize /\ offerer'[o].pc = "notify"
             /\ list' = Append(list, <<o, offerer[o].count>>)
    <3>1. Only(offerer, offerer', o) /\ offerer[o].pc = "put" /\ Len(list') = Len(list) + 1
      BY <1>2, <2>4, OffererActions, Lengths, Zenon
    <3>2. /\ g2 = g - 1
          /\ Waiting(offerer', "putwait") \subseteq Waiting(offerer, "putwait")
      <4>1. offerer'[o].pc # "put" /\ offerer'[o].pc # "putwait"
        BY <2>4, Zenon
      <4> QED BY <1>n, <3>1, <4>1, OffererMoves
    <3> QED
      BY <1>a, <1>n, <1>l, <2>1, <3>1, <3>2
  <2> QED
    BY <1>2, <2>2, <2>3, <2>4, OffererActions, Zenon
<1>3. ASSUME NEW o \in Offerers, PutNotify(o) PROVE PuttersWoken'
  <2>1. list' = list /\ queue_shutdown' = queue_shutdown
    BY <1>3, Zenon DEF PutNotify
  <2>2. Only(offerer, offerer', o) /\ offerer[o].pc = "notify" /\ offerer'[o].pc = "idle"
    BY <1>3, OffererActions, Zenon
  <2>3. /\ g2 = g
        /\ Waiting(offerer', "putwait") \subseteq Waiting(offerer, "putwait")
    BY <1>n, <2>2, OffererMoves
  <2>4. n2 = n
    BY <1>3, <1>n, PutNotified, WorkerMoves
  <2> QED
    BY <1>a, <1>n, <1>l, <2>1, <2>3, <2>4
<1>4. ASSUME NEW w \in Workers, Get(w) PROVE PuttersWoken'
  <2>1. offerer' = offerer /\ queue_shutdown' = queue_shutdown
    BY <1>4, Zenon DEF Get
  <2>2. CASE list # <<>>
    <3>1. /\ Only(worker, worker', w) /\ worker[w].pc = "get" /\ worker'[w].pc = "notify"
          /\ Len(list') = Len(list) - 1
      BY <1>4, <2>2, WorkerActions, Lengths, Zenon DEF WorkerStep
    <3>2. n2 = n + 1
      BY <1>n, <3>1, WorkerMoves
    <3> QED
      BY <1>a, <1>n, <1>l, <2>1, <3>1, <3>2
  <2>3. CASE list = <<>>
    <3>1. /\ Only(worker, worker', w) /\ worker[w].pc = "get" /\ worker'[w].pc # "notify"
          /\ list' = list
      BY <1>4, <2>3, WorkerActions, Zenon DEF WorkerStep
    <3>2. n2 = n
      BY <1>n, <3>1, WorkerMoves
    <3> QED
      BY <1>a, <1>n, <1>l, <2>1, <3>1, <3>2
  <2> QED
    BY <2>2, <2>3, Zenon
<1>5. ASSUME NEW w \in Workers, GetNotify(w) PROVE PuttersWoken'
  <2>1. list' = list /\ queue_shutdown' = queue_shutdown
    BY <1>5, Zenon DEF GetNotify
  <2>2. Only(worker, worker', w) /\ worker[w].pc = "notify" /\ worker'[w].pc = "work"
    BY <1>5, WorkerActions, Zenon DEF WorkerStep
  <2>3. n2 = n - 1
    BY <1>n, <2>2, WorkerMoves
  <2>4. CASE Waiting(offerer, "putwait") = {} /\ offerer' = offerer
    BY <1>b, <2>4, Zenon
  <2>5. ASSUME NEW x \in Offerers, Only(offerer, offerer', x),
               offerer[x].pc = "putwait", offerer'[x].pc = "put"
        PROVE  PuttersWoken'
    <3>1. /\ g2 = g + 1
          /\ Waiting(offerer', "putwait") \subseteq Waiting(offerer, "putwait")
      BY <1>n, <2>5, OffererMoves
    <3> QED
      BY <1>a, <1>n, <1>l, <2>1, <2>3, <3>1
  <2> QED
    BY <1>5, <2>4, <2>5, GetNotified, Zenon
<1>6. ASSUME NEW w \in Workers,
             IsShutdown(w) \/ GetSpurious(w) \/ Work(w) \/ CheckSize(w) \/ NotifyEmpty(w)
      PROVE  PuttersWoken'
  <2>1. list' = list /\ offerer' = offerer /\ queue_shutdown' = queue_shutdown
    BY <1>6, Zenon DEF IsShutdown, GetSpurious, Work, CheckSize, NotifyEmpty
  <2>2. Only(worker, worker', w) /\ worker'[w].pc # "notify" /\ worker[w].pc # "notify"
    BY <1>6, WorkerActions, Zenon DEF WorkerStep
  <2>3. n2 = n
    BY <1>n, <2>2, WorkerMoves
  <2> QED
    BY <1>a, <1>n, <1>l, <2>1, <2>3
<1>7. CASE WakeGetters
  <2>1. offerer' = offerer /\ list' = list /\ queue_shutdown' = queue_shutdown
    BY <1>7, Zenon DEF WakeGetters
  <2>2. Waiting(worker', "notify") = Waiting(worker, "notify")
    BY <1>7 DEF WakeGetters, NotifyAll, Waiting, TypeOK
  <2> QED
    BY <1>a, <1>n, <1>l, <2>1, <2>2
<1>8. CASE WakePutters
  <2>1. Waiting(offerer', "putwait") = {}
    BY <1>8 DEF WakePutters, NotifyAll, Waiting, TypeOK
  <2> QED
    BY <1>b, <2>1, Zenon
<1>9. CASE ShutdownQueue
  BY <1>b, <1>9, Zenon DEF ShutdownQueue
<1>10. CASE \/ DrainStart \/ ShutdownStart \/ DrainSpurious \/ DrainCheck \/ DrainWait
            \/ ShutdownPool \/ Join \/ UNCHANGED vars
  <2>1. worker' = worker /\ list' = list /\ offerer' = offerer
        /\ queue_shutdown' = queue_shutdown
    BY <1>10, Zenon DEF DrainStart, ShutdownStart, DrainSpurious, DrainCheck, DrainWait,
       ShutdownPool, Join, vars
  <2> QED
    BY <2>1, Zenon DEF PuttersWoken
<1> QED
  BY <1>1, <1>2, <1>3, <1>4, <1>5, <1>6, <1>7, <1>8, <1>9, <1>10
     DEF Next, OffererStep, WorkerStep, CloserStep

\* The wakeups theorem: GettersWoken and PuttersWoken hold of every pool, so
\* neither BlockingGet nor BlockingPut can sleep through what it waits for.
THEOREM NoLostWakeup == Spec => [](TypeOK /\ GettersWoken /\ PuttersWoken)
<1>1. Init => TypeOK /\ GettersWoken /\ PuttersWoken
  <2> SUFFICES ASSUME Init PROVE GettersWoken /\ PuttersWoken
    BY InitType, Zenon
  <2>1. Waiting(worker, "getwait") = {} /\ Waiting(offerer, "putwait") = {}
    BY Zenon DEF Init, Waiting
  <2> QED
    BY <2>1, Zenon DEF GettersWoken, PuttersWoken
<1>2. TypeOK /\ GettersWoken /\ PuttersWoken /\ [Next]_vars
      => (TypeOK /\ GettersWoken /\ PuttersWoken)'
  BY NextType, GettersStep, PuttersStep, Zenon
<1> QED
  BY <1>1, <1>2, PTL DEF Spec

-------------------------------------------------------------------------------
(* Items.  EveryItemOnce needs that an item about to be put has not been      *)
(* accepted before; DrainedIsProcessed that what is owed is not in the queue  *)
(* any more once DrainAndShutdown has seen it empty.                          *)

Fresh ==
    \A o \in Offerers, n \in 1 .. MaxOffers :
        <<o, n>> \in accepted =>
            /\ n <= offerer[o].count
            /\ offerer[o].pc \in {"put", "putwait"} => n < offerer[o].count

Closing == {"shutdown", "queue", "wakeget", "wakeput", "join", "done"}

Draining ==
    /\ owed \subseteq accepted
    /\ closer = "idle" => owed = {}
    /\ closer \in Closing => owed \cap Queued = {}
    /\ closer = "done" => \A w \in Workers : worker[w].pc = "exit"

ItemInv == EveryItemOnce /\ Fresh /\ Draining

Holds(w) == worker[w].pc \in {"notify", "work"}

LEMMA NoItemIsNone == NoItem \notin Items
BY DEF NoItem, Items

\* A step that moves no item keeps EveryItemOnce.
LEMMA NothingMoves ==
    ASSUME EveryItemOnce, list' = list, accepted' = accepted, processed' = processed,
           \A w \in Workers : worker'[w].item = worker[w].item /\ (Holds(w)' <=> Holds(w))
    PROVE  EveryItemOnce' /\ Queued' = Queued
<1>1. InHand' = InHand
  BY Zenon DEF InHand, Holds
<1>2. Queued' = Queued
  BY Zenon DEF Queued
<1> QED
  BY <1>1, <1>2 DEF EveryItemOnce

\* Where no item moves: all steps but Put's last branch, Get's first and Work.
LEMMA ItemsStay ==
    ASSUME TypeOK, EveryItemOnce,
           \/ \E o \in Offerers : OfferStart(o) \/ PutNotify(o) \/ PutSpurious(o)
           \/ \E w \in Workers : \/ IsShutdown(w) \/ GetNotify(w) \/ GetSpurious(w)
                                 \/ CheckSize(w) \/ NotifyEmpty(w)
           \/ DrainStart \/ ShutdownStart \/ DrainSpurious \/ CloserStep \/ UNCHANGED vars
    PROVE  /\ EveryItemOnce' /\ Queued' = Queued /\ accepted' = accepted
           /\ \A w \in Workers : worker[w].pc = "exit" => worker'[w].pc = "exit"
<1>0. worker \in [Workers -> [pc : WorkerPcs, item : Items \cup {NoItem}]]
  BY Zenon DEF TypeOK
<1>1. list' = list /\ accepted' = accepted /\ processed' = processed
  BY Zenon DEF OfferStart, PutNotify, PutSpurious, IsShutdown, GetNotify, GetSpurious,
     CheckSize, NotifyEmpty, DrainStart, ShutdownStart, DrainSpurious, CloserStep,
     DrainCheck, DrainWait, ShutdownPool, ShutdownQueue, WakeGetters, WakePutters, Join, vars
<1>2. /\ \A w \in Workers : worker'[w].item = worker[w].item /\ (Holds(w)' <=> Holds(w))
      /\ \A w \in Workers : worker[w].pc = "exit" => worker'[w].pc = "exit"
  <2>1. ASSUME NEW o \in Offerers, PutNotify(o) PROVE <1>2!1 /\ <1>2!2
    BY <1>0, <2>1 DEF PutNotify, NotifyOne, Waiting, Holds
  <2>2. ASSUME NEW w \in Workers, IsShutdown(w) \/ GetSpurious(w) PROVE <1>2!1 /\ <1>2!2
    BY <1>0, <2>2 DEF IsShutdown, GetSpurious, Holds
  <2>3. ASSUME NEW w \in Workers, GetNotify(w) PROVE <1>2!1 /\ <1>2!2
    BY <1>0, <2>3, Zenon DEF GetNotify, Holds
  <2>4. ASSUME NEW w \in Workers, CheckSize(w) \/ NotifyEmpty(w) PROVE <1>2!1 /\ <1>2!2
    BY <1>0, <2>4 DEF CheckSize, NotifyEmpty, Holds
  <2>5. CASE WakeGetters
    BY <1>0, <2>5, Zenon DEF WakeGetters, NotifyAll, Holds
  <2>6. CASE worker' = worker
    BY <2>6, Zenon DEF Holds
  <2> QED
    BY <2>1, <2>2, <2>3, <2>4, <2>5, <2>6, Zenon DEF OfferStart, PutSpurious, DrainStart,
       ShutdownStart, DrainSpurious, CloserStep, DrainCheck, DrainWait, ShutdownPool,
       ShutdownQueue, WakePutters, Join, vars
<1> QED
  BY <1>1, <1>2, NothingMoves, Zenon

\* Put adds an item that is new.
LEMMA PutItems ==
    ASSUME TypeOK, ItemInv, NEW o \in Offerers, Put(o)
    PROVE  /\ EveryItemOnce'
           /\ \/ Queued' = Queued /\ accepted' = accepted
              \/ \E x \in Items : /\ x \notin accepted
                                  /\ accepted' = accepted \cup {x}
                                  /\ Queued' = Queued \cup {x}
<1> DEFINE x == <<o, offerer[o].count>>
<1>0. worker' = worker /\ processed' = processed
  BY Zenon DEF Put
<1>1. CASE list' = list /\ accepted' = accepted
  BY <1>0, <1>1, NothingMoves, Zenon DEF ItemInv, Holds
<1>2. CASE list' = Append(list, x) /\ accepted' = accepted \cup {x}
  <2>1. x \in Items /\ x \notin accepted
    <3>1. offerer[o].pc = "put" /\ offerer[o].count \in 1 .. MaxOffers
      BY PoolAssumption DEF Put, TypeOK
    <3> QED
      BY <3>1 DEF ItemInv, Fresh, Items
  <2> HIDE DEF x
  <2>2. /\ Len(list) \in Nat /\ Len(list') = Len(list) + 1
        /\ \A i \in 1 .. Len(list) : list'[i] = list[i]
        /\ list'[Len(list) + 1] = x
    BY <1>2, <2>1 DEF TypeOK
  <2>3. Queued' = Queued \cup {x}
    BY <2>2 DEF Queued
  <2>4. InHand' = InHand
    BY <1>0, Zenon DEF InHand
  <2>5. x \notin Queued /\ x \notin InHand /\ x \notin processed
    BY <2>1, Zenon DEF ItemInv, EveryItemOnce
  <2>6. \A i, j \in 1 .. Len(list') : list'[i] = list'[j] => i = j
    <3>1. \A i \in 1 .. Len(list) : list[i] # x
      BY <2>5, Zenon DEF Queued
    <3>2. \A i, j \in 1 .. Len(list) : list[i] = list[j] => i = j
      BY Zenon DEF ItemInv, EveryItemOnce
    <3> QED
      BY <2>2, <3>1, <3>2
  <2>7. EveryItemOnce'
    BY <1>0, <1>2, <2>3, <2>4, <2>5, <2>6 DEF ItemInv, EveryItemOnce
  <2> QED
    BY <1>2, <2>1, <2>3, <2>7, Zenon
<1> QED
  BY <1>1, <1>2, Zenon DEF Put

\* Get hands the first item to one worker.
LEMMA GetItems ==
    ASSUME TypeOK, ItemInv, NEW w \in Workers, Get(w)
    PROVE  EveryItemOnce' /\ Queued' \subseteq Queued /\ accepted' = accepted
<1>0. worker \in [Workers -> [pc : WorkerPcs, item : Items \cup {NoItem}]]
  BY Zenon DEF TypeOK
<1>1. accepted' = accepted /\ processed' = processed /\ worker[w].pc = "get"
  BY Zenon DEF Get
<1>2. CASE list = <<>>
  <2>1. list' = list /\ worker' = [worker EXCEPT ![w].pc = IF queue_shutdown THEN "size" ELSE "getwait"]
    BY <1>2, Zenon DEF Get
  <2>2. \A v \in Workers : worker'[v].item = worker[v].item /\ (Holds(v)' <=> Holds(v))
    BY <1>0, <1>1, <2>1, Zenon DEF Holds
  <2> QED
    BY <1>1, <2>1, <2>2, NothingMoves, Zenon DEF ItemInv
<1>3. CASE list # <<>>
  <2> DEFINE x == Head(list)
  <2>1. list' = Tail(list) /\ worker' = [worker EXCEPT ![w] = [pc |-> "notify", item |-> x]]
    BY <1>3, Zenon DEF Get
  <2>2. /\ Len(list) \in Nat \ {0} /\ Len(list') = Len(list) - 1
        /\ \A i \in 1 .. Len(list') : list'[i] = list[i + 1]
        /\ x = list[1] /\ x \in Items
    BY <1>3, <2>1 DEF TypeOK
  <2> HIDE DEF x
  <2>3. \A i, j \in 1 .. Len(list) : list[i] = list[j] => i = j
    BY Zenon DEF ItemInv, EveryItemOnce
  <2>4. Queued = Queued' \cup {x} /\ x \notin Queued'
    <3>1. Queued \subseteq Queued' \cup {x}
      <4> SUFFICES ASSUME NEW i \in 1 .. Len(list), list[i] # x PROVE list[i] \in Queued'
        BY Zenon DEF Queued
      <4>1. i - 1 \in 1 .. Len(list') /\ list'[i - 1] = list[i]
        BY <2>2
      <4> QED
        BY <4>1, Zenon DEF Queued
    <3>2. Queued' \cup {x} \subseteq Queued
      BY <2>2 DEF Queued
    <3>3. x \notin Queued'
      BY <2>2, <2>3 DEF Queued
    <3> QED
      BY <3>1, <3>2, <3>3, Zenon
  <2>5. InHand' = InHand \cup {x}
    BY <1>0, <1>1, <2>1, Zenon DEF InHand
  <2>6. x \notin InHand /\ x \notin processed
    BY <2>4, Zenon DEF ItemInv, EveryItemOnce
  <2>7. \A i, j \in 1 .. Len(list') : list'[i] = list'[j] => i = j
    BY <2>2, <2>3
  <2>8. \A u, v \in Workers : worker'[u].item = worker'[v].item /\ worker'[v].item # NoItem
                              => u = v
    <3>1. \A v \in Workers : worker[v].item # NoItem => worker[v].item \in InHand
      BY Zenon DEF TypeOK, InHand
    <3>2. \A v \in Workers : worker[v].item # x
      BY <2>2, <2>6, <3>1, NoItemIsNone, Zenon
    <3>3. \A u, v \in Workers : worker[u].item = worker[v].item /\ worker[v].item # NoItem => u = v
      BY Zenon DEF ItemInv, EveryItemOnce
    <3>4. worker'[w].item = x /\ \A v \in Workers \ {w} : worker'[v] = worker[v]
      BY <1>0, <2>1, Zenon
    <3> QED
      BY <3>2, <3>3, <3>4
  <2>9. EveryItemOnce'
    BY <1>1, <2>4, <2>5, <2>6, <2>7, <2>8, Zenon DEF ItemInv, EveryItemOnce
  <2> QED
    BY <1>1, <2>4, <2>9, Zenon
<1> QED
  BY <1>2, <1>3, Zenon

\* The item of the worker that is done is processed.
LEMMA WorkItems ==
    ASSUME TypeOK, ItemInv, NEW w \in Workers, Work(w)
    PROVE  EveryItemOnce' /\ Queued' = Queued /\ accepted' = accepted
<1> DEFINE x == worker[w].item
<1>0. worker \in [Workers -> [pc : WorkerPcs, item : Items \cup {NoItem}]]
  BY Zenon DEF TypeOK
<1>1. /\ accepted' = accepted /\ list' = list /\ worker[w].pc = "work"
      /\ processed' = processed \cup {x}
      /\ worker' = [worker EXCEPT ![w] = [pc |-> "size", item |-> NoItem]]
  BY Zenon DEF Work
<1>2. x \in Items /\ x # NoItem
  BY <1>1, NoItemIsNone, Zenon DEF TypeOK
<1>3. \A v \in Workers \ {w} : worker[v].item # x
  BY <1>2, Zenon DEF ItemInv, EveryItemOnce
<1>4. Queued' = Queued
  BY <1>1, Zenon DEF Queued
<1>5. InHand = InHand' \cup {x} /\ x \notin InHand'
  BY <1>0, <1>1, <1>3, Zenon DEF InHand
<1>6. \A u, v \in Workers : worker'[u].item = worker'[v].item /\ worker'[v].item # NoItem
                            => u = v
  BY <1>0, <1>1, Zenon DEF ItemInv, EveryItemOnce
<1> QED
  BY <1>1, <1>4, <1>5, <1>6 DEF ItemInv, EveryItemOnce

\* An item about to be put is new.
LEMMA FreshStep ==
    ASSUME TypeOK, Fresh, [Next]_vars PROVE Fresh'
<1>0. /\ offerer \in [Offerers -> [pc : OffererPcs, count : 0 .. MaxOffers]]
      /\ MaxOffers \in Nat
  BY PoolAssumption, Zenon DEF TypeOK
<1>1. ASSUME accepted' = accepted,
             \A o \in Offerers :
                /\ offerer'[o].count = offerer[o].count
                /\ offerer'[o].pc \in {"put", "putwait"} => offerer[o].pc \in {"put", "putwait"}
      PROVE  Fresh'
  BY <1>1, Zenon DEF Fresh
<1>2. ASSUME NEW o \in Offerers, OfferStart(o) PROVE Fresh'
  <2>1. /\ accepted' = accepted /\ offerer[o].pc = "idle"
        /\ offerer'[o].count = offerer[o].count + 1
        /\ \A v \in Offerers \ {o} : offerer'[v] = offerer[v]
    BY <1>0, <1>2, Zenon DEF OfferStart
  <2> QED
    BY <1>0, <2>1 DEF Fresh
<1>3. ASSUME NEW o \in Offerers, Put(o) PROVE Fresh'
  <2>1. CASE accepted' = accepted
    <3>1. /\ offerer[o].pc = "put" /\ offerer'[o].count = offerer[o].count
          /\ \A v \in Offerers \ {o} : offerer'[v] = offerer[v]
      BY <1>0, <1>3 DEF Put
    <3> QED
      BY <1>1, <2>1, <3>1, Zenon
  <2>2. CASE accepted' = accepted \cup {<<o, offerer[o].count>>} /\ offerer'[o].pc = "notify"
    <3>1. /\ offerer'[o].count = offerer[o].count
          /\ \A v \in Offerers \ {o} : offerer'[v] = offerer[v]
      BY <1>0, <1>3 DEF Put
    <3> QED
      BY <1>0, <2>2, <3>1 DEF Fresh
  <2> QED
    BY <1>0, <1>3, <2>1, <2>2, Zenon DEF Put
<1>4. ASSUME NEW o \in Offerers, PutNotify(o) \/ PutSpurious(o) PROVE Fresh'
  BY <1>0, <1>1, <1>4 DEF PutNotify, PutSpurious
<1>5. ASSUME NEW w \in Workers, GetNotify(w) PROVE Fresh'
  BY <1>0, <1>1, <1>5 DEF GetNotify, NotifyOne, Waiting
<1>6. ASSUME NEW w \in Workers, \/ IsShutdown(w) \/ Get(w) \/ GetSpurious(w) \/ Work(w)
                                \/ CheckSize(w) \/ NotifyEmpty(w)
      PROVE  Fresh'
  BY <1>1, <1>6, Zenon DEF IsShutdown, Get, GetSpurious, Work, CheckSize, NotifyEmpty
<1>7. CASE WakePutters
  BY <1>0, <1>1, <1>7, Zenon DEF WakePutters, NotifyAll
<1>8. CASE \/ DrainStart \/ ShutdownStart \/ DrainSpurious \/ DrainCheck \/ DrainWait
           \/ ShutdownPool \/ ShutdownQueue \/ WakeGetters \/ Join \/ UNCHANGED vars
  BY <1>1, <1>8, Zenon DEF DrainStart, ShutdownStart, DrainSpurious, DrainCheck, DrainWait,
       ShutdownPool, ShutdownQueue, WakeGetters, Join, vars
<1> QED
  BY <1>2, <1>3, <1>4, <1>5, <1>6, <1>7, <1>8
     DEF Next, OffererStep, WorkerStep, CloserStep

\* What is owed was accepted, and is out of the queue once the pool closes.
LEMMA ItemInvStep ==
    ASSUME TypeOK, ItemInv, [Next]_vars PROVE ItemInv'
<1>1. Fresh'
  BY FreshStep, Zenon DEF ItemInv
<1>a. ASSUME owed' = owed, closer' = closer, accepted \subseteq accepted',
             Queued' \cap owed \subseteq Queued,
             \A w \in Workers : worker[w].pc = "exit" => worker'[w].pc = "exit"
      PROVE  Draining'
  BY <1>a, Zenon DEF ItemInv, Draining
<1>2. ASSUME NEW o \in Offerers, Put(o) PROVE ItemInv'
  <2>1. owed' = owed /\ closer' = closer /\ worker' = worker
    BY <1>2, Zenon DEF Put
  <2>2. accepted \subseteq accepted' /\ Queued' \cap owed \subseteq Queued
    BY <1>2, PutItems, Zenon DEF ItemInv, Draining
  <2>3. Draining'
    BY <1>a, <2>1, <2>2, Zenon
  <2> QED
    BY <1>1, <1>2, <2>3, PutItems, Zenon DEF ItemInv
<1>3. ASSUME NEW w \in Workers, Get(w) \/ Work(w) PROVE ItemInv'
  <2>1. owed' = owed /\ closer' = closer
    BY <1>3, Zenon DEF Get, Work
  <2>2. EveryItemOnce' /\ Queued' \subseteq Queued /\ accepted' = accepted
    BY <1>3, GetItems, WorkItems, Zenon
  <2>3. \A v \in Workers : worker[v].pc = "exit" => worker'[v].pc = "exit"
    BY <1>3, Zenon DEF Get, Work, TypeOK
  <2>4. Draining'
    BY <1>a, <2>1, <2>2, <2>3, Zenon
  <2> QED
    BY <1>1, <2>2, <2>4, Zenon DEF ItemInv
<1>4. ASSUME \/ \E o \in Offerers : OfferStart(o) \/ PutNotify(o) \/ PutSpurious(o)
             \/ \E w \in Workers : \/ IsShutdown(w) \/ GetNotify(w) \/ GetSpurious(w)
                                   \/ CheckSize(w) \/ NotifyEmpty(w)
             \/ DrainStart \/ ShutdownStart \/ DrainSpurious \/ CloserStep \/ UNCHANGED vars
      PROVE  ItemInv'
  <2>1. /\ EveryItemOnce' /\ Queued' = Queued /\ accepted' = accepted
        /\ \A w \in Workers : worker[w].pc = "exit" => worker'[w].pc = "exit"
    BY <1>4, ItemsStay, Zenon DEF ItemInv
  <2>2. CASE owed' = owed /\ closer' = closer
    BY <1>1, <1>a, <2>1, <2>2 DEF ItemInv
  <2>3. ASSUME NEW w \in Workers, NotifyEmpty(w) PROVE Draining'
    BY <2>1, <2>3, Zenon DEF NotifyEmpty, ItemInv, Draining, Closing
  <2>4. CASE DrainStart
    BY <1>1, <2>1, <2>4, Zenon DEF DrainStart, CloserMoves, ItemInv, Draining, Closing
  <2>5. CASE ShutdownStart \/ DrainSpurious \/ DrainWait
    BY <1>1, <2>1, <2>5, Zenon DEF ShutdownStart, DrainSpurious, DrainWait, CloserMoves, ItemInv,
       Draining, Closing
  <2>6. CASE DrainCheck
    <3>1. list = <<>> => Queued = {}
      BY DEF Queued
    <3> QED
      BY <1>1, <2>1, <2>6, <3>1, Zenon DEF DrainCheck, CloserMoves, ItemInv, Draining, Closing
  <2>7. CASE ShutdownPool \/ ShutdownQueue \/ WakeGetters \/ WakePutters \/ Join
    BY <1>1, <2>1, <2>7, Zenon DEF ShutdownPool, ShutdownQueue, WakeGetters, WakePutters, Join,
       CloserMoves, ItemInv, Draining, Closing
  <2> QED
    BY <1>1, <1>4, <2>1, <2>2, <2>3, <2>4, <2>5, <2>6, <2>7
       DEF ItemInv, OfferStart, PutNotify, PutSpurious, IsShutdown, GetNotify,
           GetSpurious, CheckSize, CloserStep, vars
<1> QED
  BY <1>2, <1>3, <1>4, Zenon DEF Next, OffererStep, WorkerStep

LEMMA ItemInvAlways == Spec => [](TypeOK /\ ItemInv)
<1>1. Init => TypeOK /\ ItemInv
  <2> SUFFICES ASSUME Init PROVE ItemInv
    BY InitType, Zenon
  <2>1. Queued = {} /\ InHand = {}
    BY DEF Init, Queued, InHand
  <2> QED
    BY <2>1 DEF Init, ItemInv, EveryItemOnce, Fresh, Draining, Closing
<1>2. TypeOK /\ ItemInv /\ [Next]_vars => (TypeOK /\ ItemInv)'
  BY NextType, ItemInvStep, Zenon
<1> QED
  BY <1>1, <1>2, PTL DEF Spec

\* No accepted item is lost, queued twice or given to two workers.
THEOREM NoItemLost == Spec => []EveryItemOnce
<1>1. TypeOK /\ ItemInv => EveryItemOnce
  BY Zenon DEF ItemInv
<1> QED
  BY <1>1, ItemInvAlways, PTL

\* When DrainAndShutdown returns, what had been accepted when it was called has
\* been processed.
THEOREM DrainFinishes == Spec => []DrainedIsProcessed
<1>1. TypeOK /\ ItemInv => DrainedIsProcessed
  <2> SUFFICES ASSUME ItemInv, closer = "done" PROVE owed \subseteq processed
    BY Zenon DEF DrainedIsProcessed
  <2>1. InHand = {}
    BY Zenon DEF ItemInv, Draining, InHand
  <2> QED
    BY <2>1, Zenon DEF ItemInv, Draining, Closing, EveryItemOnce
<1> QED
  BY <1>1, ItemInvAlways, PTL

-------------------------------------------------------------------------------
(* Shutdown wakes everybody: once the flag is set nobody starts to wait.      *)

Stopped ==
    /\ queue_shutdown <=> closer \in {"wakeget", "wakeput", "join", "done"}
    /\ closer \in {"wakeput", "join", "done"} => Waiting(worker, "getwait") = {}
    /\ closer \in {"join", "done"} => Waiting(offerer, "putwait") = {}

LEMMA StoppedStep == ASSUME TypeOK, Stopped, [Next]_vars PROVE Stopped'
<1>a. ASSUME queue_shutdown' = queue_shutdown,
             \/ closer' = closer
             \/ /\ {closer, closer'} \cap {"wakeget", "wakeput", "join", "done"} = {}
             \/ closer = "join" /\ closer' = "done",
             \/ ~ queue_shutdown
             \/ /\ Waiting(worker', "getwait") \subseteq Waiting(worker, "getwait")
                /\ Waiting(offerer', "putwait") \subseteq Waiting(offerer, "putwait")
      PROVE  Stopped'
  BY <1>a, Zenon DEF Stopped
<1>1. ASSUME NEW o \in Offerers, OfferStart(o) \/ Put(o) \/ PutNotify(o) \/ PutSpurious(o)
      PROVE  Stopped'
  <2>1. queue_shutdown' = queue_shutdown /\ closer' = closer
    BY <1>1, Zenon DEF OfferStart, Put, PutNotify, PutSpurious
  <2>2. ~ queue_shutdown \/ Waiting(offerer', "putwait") \subseteq Waiting(offerer, "putwait")
    <3>1. ~ queue_shutdown \/ offerer'[o].pc # "putwait"
      BY <1>1, OffererActions DEF Put, TypeOK
    <3> QED
      BY <1>1, <3>1, OffererActions, OffererMoves, Zenon
  <2>3. Waiting(worker', "getwait") \subseteq Waiting(worker, "getwait")
    <3>1. CASE PutNotify(o)
      BY <3>1, PutNotified, WorkerMoves, Zenon
    <3>2. CASE ~ PutNotify(o)
      BY <1>1, <3>2, Zenon DEF OfferStart, Put, PutSpurious
    <3> QED
      BY <3>1, <3>2, Zenon
  <2> QED
    BY <1>a, <2>1, <2>2, <2>3, Zenon
<1>2. ASSUME NEW w \in Workers, WorkerStep(w) \/ GetSpurious(w) PROVE Stopped'
  <2>1. /\ queue_shutdown' = queue_shutdown
        /\ closer' = closer \/ (closer = "drainwait" /\ closer' = "drain")
    BY <1>2, Zenon DEF WorkerStep, IsShutdown, Get, GetNotify, Work, CheckSize, NotifyEmpty,
       GetSpurious
  <2>2. ~ queue_shutdown \/ Waiting(worker', "getwait") \subseteq Waiting(worker, "getwait")
    <3>1. ~ queue_shutdown \/ worker'[w].pc # "getwait"
      <4>1. CASE Get(w)
        BY <4>1 DEF Get, TypeOK
      <4>2. CASE ~ Get(w)
        BY <1>2, <4>2, WorkerActions, Zenon DEF WorkerStep
      <4> QED
        BY <4>1, <4>2, Zenon
    <3> QED
      BY <1>2, <3>1, WorkerActions, WorkerMoves, Zenon
  <2>3. Waiting(offerer', "putwait") \subseteq Waiting(offerer, "putwait")
    <3>1. CASE GetNotify(w)
      BY <3>1, GetNotified, OffererMoves, Zenon
    <3>2. CASE ~ GetNotify(w)
      BY <1>2, <3>2, Zenon DEF WorkerStep, IsShutdown, Get, Work, CheckSize, NotifyEmpty, GetSpurious
    <3> QED
      BY <3>1, <3>2, Zenon
  <2> QED
    BY <1>a, <2>1, <2>2, <2>3
<1>3. CASE \/ DrainStart \/ ShutdownStart \/ DrainSpurious \/ DrainCheck \/ DrainWait
           \/ ShutdownPool \/ Join \/ UNCHANGED vars
  BY <1>a, <1>3, Zenon DEF DrainStart, ShutdownStart, DrainSpurious, DrainCheck, DrainWait,
     ShutdownPool, Join, CloserMoves, vars
<1>4. CASE ShutdownQueue
  BY <1>4, Zenon DEF ShutdownQueue, CloserMoves, Stopped
<1>5. CASE WakeGetters
  <2>1. Waiting(worker', "getwait") = {}
    BY <1>5 DEF WakeGetters, NotifyAll, Waiting, TypeOK
  <2> QED
    BY <1>5, <2>1, Zenon DEF WakeGetters, CloserMoves, Stopped
<1>6. CASE WakePutters
  <2>1. Waiting(offerer', "putwait") = {}
    BY <1>6, Zenon DEF WakePutters, NotifyAll, Waiting, TypeOK
  <2> QED
    BY <1>6, <2>1, Zenon DEF WakePutters, CloserMoves, Stopped
<1> QED
  BY <1>1, <1>2, <1>3, <1>4, <1>5, <1>6 DEF Next, OffererStep, CloserStep

\* Nobody waits on the queue once its Shutdown has returned.
THEOREM ShutdownWakesAll == Spec => []NobodyLeftWaiting
<1>1. Init => TypeOK /\ Stopped
  BY InitType, Zenon DEF Init, Stopped
<1>2. TypeOK /\ Stopped /\ [Next]_vars => (TypeOK /\ Stopped)'
  BY NextType, StoppedStep, Zenon
<1>3. Stopped => NobodyLeftWaiting
  BY Zenon DEF Stopped, NobodyLeftWaiting
<1> QED
  BY <1>1, <1>2, <1>3, PTL DEF Spec

===============================================================================
