------------------------------ MODULE Statestore ------------------------------
(***************************************************************************)
(* The statestore process (be/src/statestore/statestore.cc): subscribers    *)
(* register through server threads, and a pool of worker threads sends each  *)
(* of them a heartbeat with the topics' deltas, applies the updates it       *)
(* returns and puts it back on the queue, or unregisters it after too many   *)
(* misses.  Subscribers themselves are arbitrary here: an RPC returns any    *)
(* update they may publish, or fails.                                        *)
(*                                                                           *)
(* A step is one critical section, or one stretch without a lock.  Sections  *)
(* of topic_lock_ never block, so they are atomic.  subscribers_lock_ is     *)
(* held across a step only by a worker blocked in Offer (pc = "offer").      *)
(***************************************************************************)
EXTENDS TopicOps, Sequences

CONSTANTS
    TopicIds,
    SubscriberIds,
    Subscribed,        \* per subscriber, the topics it registers for
    Transient,         \* those it registers as transient
    PublishedKey,      \* the one key it publishes in transient topics
    FromVersions,      \* delta bases a subscriber may ask for; {} if it never does
    Workers,           \* statestore_num_heartbeat_threads
    Handlers,          \* server threads that run RegisterSubscriber
    MaxQueue,          \* STATESTORE_MAX_SUBSCRIBERS
    MaxMissed,         \* statestore_max_missed_heartbeats
    MaxRegistrations,  \* bound on the registrations handed out
    MaxVersion         \* bound on the versions at which subscribers publish

ASSUME StatestoreAssumption ==
    /\ Subscribed \in [SubscriberIds -> SUBSET TopicIds]
    /\ \A s \in SubscriberIds : Transient[s] \subseteq Subscribed[s]
    /\ PublishedKey \in [SubscriberIds -> Keys]
    /\ FromVersions \subseteq Nat
    /\ MaxQueue \in Nat \ {0}
    /\ MaxMissed \in Nat
    /\ MaxRegistrations \in Nat
    /\ MaxVersion \in Nat

VARIABLES
    topics,          \* topics_, by id
    created,         \* the ids in topics_
    subscribers,     \* subscribers_: the current registration of each id
    regs,            \* the Subscriber objects, by registration
    nextReg,         \* the next registration id
    missed,          \* missed_heartbeat_counts_, by registration
    subscriber_set,  \* subscriber_set_metric_
    queue,           \* work_queue_ of subscriber_heartbeat_threadpool_
    worker,          \* the worker threads
    handler,         \* the server threads
    shutdown         \* exit_flag_, and shutdown_ of the pool and its queue

ssvars == <<topics, created, subscribers, regs, nextReg, missed, subscriber_set,
            queue, worker, handler, shutdown>>

-------------------------------------------------------------------------------

RegIds == 1 .. MaxRegistrations
NoReg == 0
Untracked == -1
NoSubscriber == "none"

\* What a subscriber returns: nothing, an item for a topic (a deletion when the
\* value is NULL_VALUE), or a request for another delta base.
NoUpdate == [kind |-> "none"]
PutItem(t, k, v) == [kind |-> "put", topic |-> t, key |-> k, value |-> v]
ResetBase(t, from) == [kind |-> "reset", topic |-> t, from_version |-> from]

Responses(s) ==
    {NoUpdate}
      \cup {PutItem(t, k, v) :
              t \in {x \in Subscribed[s] \ Transient[s] : topics[x].last_version < MaxVersion},
              k \in Keys, v \in EntryValue}
      \cup {PutItem(t, PublishedKey[s], v) :
              t \in {x \in Transient[s] : topics[x].last_version < MaxVersion},
              v \in EntryValue}
      \cup {resp \in {ResetBase(t, from) : t \in Subscribed[s], from \in FromVersions} :
              resp.from_version <= topics[resp.topic].last_version}

\* A Subscriber: the last version processed of each topic, and the version at
\* which it published its key in each transient topic (0: not at all).
NewSubscriber(s) == [sub |-> s,
                     last |-> [t \in TopicIds |-> TOPIC_INITIAL_VERSION],
                     transient |-> [t \in TopicIds |-> 0]]

IdleWorker == [pc |-> "idle", sub |-> NoSubscriber, reg |-> NoReg,
               deltas |-> <<>>, min |-> <<>>, ok |-> TRUE, resp |-> NoUpdate]
\* Back in the loop of WorkerThread: into BlockingGet, or out if the pool is shut
\* down by then.
DoneWorker == IF shutdown THEN [IdleWorker EXCEPT !.pc = "exit"] ELSE IdleWorker
IdleHandler == [pc |-> "idle", sub |-> NoSubscriber, reg |-> NoReg]

\* subscribers_lock_ can be taken.
LockFree == \A w \in Workers : worker[w].pc # "offer"

\* The registration is the current one of its subscriber.
Registered(r) == r # NoReg /\ subscribers[regs[r].sub] = r

-------------------------------------------------------------------------------
(* MissedHeartbeatFailureDetector *)

UpdateHeartbeat(r, seen) ==
    [missed EXCEPT ![r] = IF seen THEN 0 ELSE IF @ = Untracked THEN 1 ELSE @ + 1]

\* Mutant: one miss more than max_missed_heartbeats_.
FailedLate(m, r) == m[r] > MaxMissed + 1

Failed(m, r) == m[r] > MaxMissed

-------------------------------------------------------------------------------

\* The topics after UnregisterSubscriber(r) has deleted its transient entries.
TopicsWithout(r) ==
    [t \in TopicIds |-> DeleteIfVersionsMatch(topics[t], regs[r].transient[t],
                                              PublishedKey[regs[r].sub])]

\* UnregisterSubscriber, given the failure detector m its caller leaves: only
\* the current registration is removed, a replaced one is left alone.
UnregisterSubscriber(r, m) ==
    IF Registered(r)
    THEN /\ subscribers' = [subscribers EXCEPT ![regs[r].sub] = NoReg]
         /\ missed' = [m EXCEPT ![r] = Untracked]
         /\ topics' = TopicsWithout(r)
         /\ subscriber_set' = subscriber_set \ {regs[r].sub}
    ELSE /\ missed' = m
         /\ UNCHANGED <<subscribers, topics, subscriber_set>>

\* GetMinSubscriberTopicVersion
MinSubscriberTopicVersion(t) ==
    LET versions == {regs[subscribers[s]].last[t] :
                        s \in {x \in SubscriberIds : subscribers[x] # NoReg
                                                     /\ t \in Subscribed[x]}}
    IN  IF versions = {} THEN TOPIC_INITIAL_VERSION
        ELSE CHOOSE v \in versions : \A u \in versions : v <= u

-------------------------------------------------------------------------------
(* RegisterSubscriber, on server thread h for subscriber s *)

RegisterCreateTopics(h, s) ==
    /\ handler[h].pc = "idle"
    /\ nextReg <= MaxRegistrations
    /\ created' = created \cup Subscribed[s]
    /\ handler' = [handler EXCEPT ![h] = [IdleHandler EXCEPT !.pc = "insert", !.sub = s]]
    /\ UNCHANGED <<topics, subscribers, regs, nextReg, missed, subscriber_set,
                   queue, worker, shutdown>>

\* Under subscribers_lock_: unregister the previous registration, if any, and
\* insert a new one.
RegisterInsert(h) ==
    LET s == handler[h].sub
        old == subscribers[s]
    IN  /\ handler[h].pc = "insert"
        /\ LockFree
        /\ nextReg <= MaxRegistrations
        /\ nextReg' = nextReg + 1
        /\ regs' = [regs EXCEPT ![nextReg] = NewSubscriber(s)]
        /\ subscribers' = [subscribers EXCEPT ![s] = nextReg]
        /\ missed' = [r \in RegIds |-> CASE r = nextReg -> 0
                                         [] r = old -> Untracked
                                         [] OTHER -> missed[r]]
        /\ topics' = IF old = NoReg THEN topics ELSE TopicsWithout(old)
        /\ subscriber_set' = subscriber_set \cup {s}
        /\ handler' = [handler EXCEPT ![h] = [pc |-> "check", sub |-> s, reg |-> nextReg]]
        /\ UNCHANGED <<created, queue, worker, shutdown>>

\* GetQueueSize() >= STATESTORE_MAX_SUBSCRIBERS, read before the Offer.
RegisterCheckSize(h) ==
    /\ handler[h].pc = "check"
    /\ handler' = [handler EXCEPT ![h].pc = IF Len(queue) >= MaxQueue THEN "erase"
                                                                      ELSE "offer"]
    /\ UNCHANGED <<topics, created, subscribers, regs, nextReg, missed,
                   subscriber_set, queue, worker, shutdown>>

\* Offer: blocks while the queue is full; false once it is shut down.
RegisterOffer(h) ==
    /\ handler[h].pc = "offer"
    /\ \/ /\ shutdown
          /\ handler' = [handler EXCEPT ![h].pc = "erase"]
          /\ UNCHANGED queue
       \/ /\ ~ shutdown
          /\ Len(queue) < MaxQueue
          /\ queue' = Append(queue, handler[h].sub)
          /\ handler' = [handler EXCEPT ![h] = IdleHandler]
    /\ UNCHANGED <<topics, created, subscribers, regs, nextReg, missed,
                   subscriber_set, worker, shutdown>>

\* The error path erases whatever registration the id has by now.  Its DCHECK
\* stops the process when there is none ("dcheck").
RegisterErase(h) ==
    LET s == handler[h].sub
    IN  /\ handler[h].pc = "erase"
        /\ LockFree
        /\ subscribers' = [subscribers EXCEPT ![s] = NoReg]
        /\ handler' = [handler EXCEPT ![h] = IF subscribers[s] # NoReg THEN IdleHandler
                                             ELSE [@ EXCEPT !.pc = "dcheck"]]
        /\ UNCHANGED <<topics, created, regs, nextReg, missed, subscriber_set,
                       queue, worker, shutdown>>

RegisterStep(h) ==
    RegisterInsert(h) \/ RegisterCheckSize(h) \/ RegisterOffer(h) \/ RegisterErase(h)

-------------------------------------------------------------------------------
(* UpdateSubscriber and ProcessOneSubscriber, on worker thread w *)

WorkerUnchanged == UNCHANGED <<created, nextReg, handler, shutdown>>

\* BlockingGet, and the wait for the item's deadline.  A worker that is already
\* in BlockingGet at the shutdown may still get an item.
Dequeue(w) ==
    /\ worker[w].pc = "idle"
    /\ queue # <<>>
    /\ queue' = Tail(queue)
    /\ worker' = [worker EXCEPT ![w] = [IdleWorker EXCEPT !.pc = "lookup",
                                                          !.sub = Head(queue)]]
    /\ UNCHANGED <<topics, subscribers, regs, missed, subscriber_set>>
    /\ WorkerUnchanged

Lookup(w) ==
    LET s == worker[w].sub
    IN  /\ worker[w].pc = "lookup"
        /\ LockFree
        /\ worker' = [worker EXCEPT ![w] = IF subscribers[s] = NoReg THEN DoneWorker
                                           ELSE [@ EXCEPT !.pc = "gather",
                                                          !.reg = subscribers[s]]]
        /\ UNCHANGED <<topics, subscribers, regs, missed, subscriber_set, queue>>
        /\ WorkerUnchanged

\* GatherTopicUpdates, the part under topic_lock_.
GatherDeltas(w) ==
    LET sub == regs[worker[w].reg]
    IN  /\ worker[w].pc = "gather"
        /\ worker' = [worker EXCEPT
                        ![w].pc = "min",
                        ![w].deltas = [t \in Subscribed[sub.sub] |->
                                          TopicDelta(topics[t], sub.last[t])]]
        /\ UNCHANGED <<topics, subscribers, regs, missed, subscriber_set, queue>>
        /\ WorkerUnchanged

\* GatherTopicUpdates, the part under subscribers_lock_.
GatherMinVersions(w) ==
    /\ worker[w].pc = "min"
    /\ LockFree
    /\ worker' = [worker EXCEPT
                    ![w].pc = "rpc",
                    ![w].min = [t \in DOMAIN worker[w].deltas |->
                                   MinSubscriberTopicVersion(t)]]
    /\ UNCHANGED <<topics, subscribers, regs, missed, subscriber_set, queue>>
    /\ WorkerUnchanged

\* The RPC fails at the transport; the client is reopened for one more attempt.
RpcTransportError(w) ==
    /\ worker[w].pc = "rpc"
    /\ worker' = [worker EXCEPT ![w].pc = "retry"]
    /\ UNCHANGED <<topics, subscribers, regs, missed, subscriber_set, queue>>
    /\ WorkerUnchanged

\* Mutant: the client is reopened for as many attempts as it takes.
RpcFailedRetries(w) ==
    /\ worker[w].pc = "retry"
    /\ worker' = [worker EXCEPT ![w].pc = "rpc"]
    /\ UNCHANGED <<topics, subscribers, regs, missed, subscriber_set, queue>>
    /\ WorkerUnchanged

\* No connection, the second attempt fails, or the subscriber returns an error.
RpcFailed(w) ==
    /\ worker[w].pc \in {"rpc", "retry"}
    /\ worker' = [worker EXCEPT ![w].pc = "finish", ![w].ok = FALSE,
                                ![w].deltas = <<>>, ![w].min = <<>>]
    /\ UNCHANGED <<topics, subscribers, regs, missed, subscriber_set, queue>>
    /\ WorkerUnchanged

\* The subscriber answers OK, with resp.
RpcReturns(w, resp) ==
    /\ worker[w].pc \in {"rpc", "retry"}
    /\ worker' = [worker EXCEPT ![w].pc = "setlast", ![w].resp = resp, ![w].min = <<>>]
    /\ UNCHANGED <<topics, subscribers, regs, missed, subscriber_set, queue>>
    /\ WorkerUnchanged

\* SetLastTopicVersionProcessed for every topic sent; no lock is held.
RecordProcessed(w) ==
    /\ worker[w].pc = "setlast"
    /\ regs' = [regs EXCEPT ![worker[w].reg].last =
                  [t \in TopicIds |-> IF t \in DOMAIN worker[w].deltas
                                      THEN worker[w].deltas[t].to_version
                                      ELSE @[t]]]
    /\ worker' = [worker EXCEPT ![w].pc = "apply", ![w].deltas = <<>>]
    /\ UNCHANGED <<topics, subscribers, missed, subscriber_set, queue>>
    /\ WorkerUnchanged

\* Under topic_lock_: the delta base the subscriber asks for, or its item and
\* AddTransientUpdate.
ApplyUpdates(w) ==
    LET r == worker[w].reg
        s == regs[r].sub
        resp == worker[w].resp
    IN  /\ worker[w].pc = "apply"
        /\ \/ /\ resp.kind = "none"
              /\ UNCHANGED <<topics, regs>>
           \/ /\ resp.kind = "reset"
              /\ regs' = [regs EXCEPT ![r].last[resp.topic] = resp.from_version]
              /\ UNCHANGED topics
           \/ /\ resp.kind = "put"
              /\ topics' = [topics EXCEPT ![resp.topic] = Put(@, resp.key, resp.value)]
              /\ regs' = IF resp.topic \in Transient[s]
                         THEN [regs EXCEPT ![r].transient[resp.topic] =
                                              topics'[resp.topic].last_version]
                         ELSE regs
        /\ worker' = [worker EXCEPT ![w].pc = "finish", ![w].resp = NoUpdate]
        /\ UNCHANGED <<subscribers, missed, subscriber_set, queue>>
        /\ WorkerUnchanged

\* The last critical section of UpdateSubscriber: the subscriber may be gone,
\* ...
FinishGone(w) ==
    /\ worker[w].pc = "finish"
    /\ LockFree
    /\ subscribers[worker[w].sub] = NoReg
    /\ worker' = [worker EXCEPT ![w] = DoneWorker]
    /\ UNCHANGED <<topics, subscribers, regs, missed, subscriber_set, queue>>
    /\ WorkerUnchanged

\* Mutant: the subscriber is looked up again, and the miss counted against the
\* registration it has now.
FinishFailedCurrent(w) ==
    LET r == subscribers[worker[w].sub]
        m == UpdateHeartbeat(r, worker[w].ok)
    IN  /\ worker[w].pc = "finish"
        /\ LockFree
        /\ r # NoReg
        /\ Failed(m, r)
        /\ UnregisterSubscriber(r, m)
        /\ worker' = [worker EXCEPT ![w] = DoneWorker]
        /\ UNCHANGED <<regs, queue>>
        /\ WorkerUnchanged

\* ... it may have failed once too often, ...
FinishFailed(w) ==
    LET r == worker[w].reg
        m == UpdateHeartbeat(r, worker[w].ok)
    IN  /\ worker[w].pc = "finish"
        /\ LockFree
        /\ subscribers[worker[w].sub] # NoReg
        /\ Failed(m, r)
        /\ UnregisterSubscriber(r, m)
        /\ worker' = [worker EXCEPT ![w] = DoneWorker]
        /\ UNCHANGED <<regs, queue>>
        /\ WorkerUnchanged

\* Mutant: a subscriber that missed a heartbeat is not offered again.
FinishOfferOnlyOk(w) ==
    LET r == worker[w].reg
        m == UpdateHeartbeat(r, worker[w].ok)
    IN  /\ worker[w].pc = "finish"
        /\ LockFree
        /\ subscribers[worker[w].sub] # NoReg
        /\ ~ Failed(m, r)
        /\ missed' = m
        /\ worker' = [worker EXCEPT ![w] = DoneWorker]
        /\ queue' = IF worker[w].ok THEN Append(queue, worker[w].sub) ELSE queue
        /\ UNCHANGED <<topics, subscribers, regs, subscriber_set>>
        /\ WorkerUnchanged

\* ... or it is offered for its next heartbeat.  Offer blocks while the queue
\* is full, still under subscribers_lock_, and drops the item after a shutdown.
FinishOffer(w) ==
    LET r == worker[w].reg
        m == UpdateHeartbeat(r, worker[w].ok)
    IN  /\ worker[w].pc = "finish"
        /\ LockFree
        /\ subscribers[worker[w].sub] # NoReg
        /\ ~ Failed(m, r)
        /\ missed' = m
        /\ \/ /\ shutdown
              /\ worker' = [worker EXCEPT ![w] = DoneWorker]
              /\ UNCHANGED queue
           \/ /\ ~ shutdown
              /\ Len(queue) < MaxQueue
              /\ worker' = [worker EXCEPT ![w] = DoneWorker]
              /\ queue' = Append(queue, worker[w].sub)
           \/ /\ ~ shutdown
              /\ Len(queue) >= MaxQueue
              /\ worker' = [worker EXCEPT ![w].pc = "offer"]
              /\ UNCHANGED queue
        /\ UNCHANGED <<topics, subscribers, regs, subscriber_set>>
        /\ WorkerUnchanged

OfferWakes(w) ==
    /\ worker[w].pc = "offer"
    /\ \/ shutdown /\ UNCHANGED queue
       \/ /\ ~ shutdown
          /\ Len(queue) < MaxQueue
          /\ queue' = Append(queue, worker[w].sub)
    /\ worker' = [worker EXCEPT ![w] = DoneWorker]
    /\ UNCHANGED <<topics, subscribers, regs, missed, subscriber_set>>
    /\ WorkerUnchanged

\* The steps of a worker other than those that depend on the subscriber.
WorkerStep(w) ==
    \/ Dequeue(w) \/ Lookup(w) \/ GatherDeltas(w) \/ GatherMinVersions(w)
    \/ RecordProcessed(w) \/ ApplyUpdates(w)
    \/ FinishGone(w) \/ FinishFailed(w) \/ FinishOffer(w) \/ OfferWakes(w)

RpcEnds(w) ==
    /\ worker[w].pc \in {"rpc", "retry"}
    /\ \/ RpcFailed(w)
       \/ \E resp \in Responses(worker[w].sub) : RpcReturns(w, resp)

SetExitFlag ==
    /\ ~ shutdown
    /\ shutdown' = TRUE
    /\ UNCHANGED <<topics, created, subscribers, regs, nextReg, missed,
                   subscriber_set, queue, worker, handler>>

-------------------------------------------------------------------------------

SSInit ==
    /\ topics = [t \in TopicIds |-> NewTopic]
    /\ created = {}
    /\ subscribers = [s \in SubscriberIds |-> NoReg]
    /\ regs = [r \in RegIds |-> NewSubscriber(NoSubscriber)]
    /\ nextReg = 1
    /\ missed = [r \in RegIds |-> Untracked]
    /\ subscriber_set = {}
    /\ queue = <<>>
    /\ worker = [w \in Workers |-> IdleWorker]
    /\ handler = [h \in Handlers |-> IdleHandler]
    /\ shutdown = FALSE

Next ==
    \/ \E h \in Handlers : \/ \E s \in SubscriberIds : RegisterCreateTopics(h, s)
                           \/ RegisterStep(h)
    \/ \E w \in Workers : WorkerStep(w) \/ RpcTransportError(w) \/ RpcEnds(w)
    \/ SetExitFlag

Spec == SSInit /\ [][Next]_ssvars

\* Threads that can run do run, and an RPC returns or fails.  Registrations and
\* the shutdown are up to the environment.
Fairness == /\ \A w \in Workers : WF_ssvars(WorkerStep(w)) /\ WF_ssvars(RpcEnds(w))
            /\ \A h \in Handlers : WF_ssvars(RegisterStep(h))

FairSpec == Spec /\ Fairness

-------------------------------------------------------------------------------

Pcs == {"idle", "lookup", "gather", "min", "rpc", "retry", "setlast", "apply",
        "finish", "offer", "exit"}

\* The worker holds a Subscriber (shared_ptr).
HasReg(w) == worker[w].pc \notin {"idle", "lookup", "exit"}

IsResponse(resp) ==
    \/ resp = NoUpdate
    \/ resp \in [kind : {"put"}, topic : TopicIds, key : Keys, value : EntryValue]
    \/ resp \in [kind : {"reset"}, topic : TopicIds, from_version : Nat]

IsDelta(d) ==
    /\ DOMAIN d = {"is_delta", "from_version", "to_version", "items"}
    /\ d.is_delta \in BOOLEAN
    /\ d.from_version \in Nat
    /\ d.to_version \in Nat
    /\ DOMAIN d.items \subseteq Keys
    /\ d.items \in [DOMAIN d.items -> EntryValue]

WorkerOK(x) ==
    /\ DOMAIN x = {"pc", "sub", "reg", "deltas", "min", "ok", "resp"}
    /\ x.pc \in Pcs
    /\ x.sub \in SubscriberIds \cup {NoSubscriber}
    /\ x.reg \in RegIds \cup {NoReg}
    /\ \A t \in DOMAIN x.deltas : t \in TopicIds /\ IsDelta(x.deltas[t])
    /\ DOMAIN x.min \subseteq TopicIds
    /\ x.min \in [DOMAIN x.min -> Nat]
    /\ x.ok \in BOOLEAN
    /\ IsResponse(x.resp)

TopicsType == topics \in [TopicIds -> Topic] /\ created \subseteq TopicIds

RegsType ==
    /\ subscribers \in [SubscriberIds -> RegIds \cup {NoReg}]
    /\ regs \in [RegIds -> [sub : SubscriberIds \cup {NoSubscriber},
                            last : [TopicIds -> Nat],
                            transient : [TopicIds -> Nat]]]
    /\ nextReg \in 1 .. MaxRegistrations + 1
    /\ missed \in [RegIds -> Nat \cup {Untracked}]
    /\ subscriber_set \subseteq SubscriberIds

WorkersType == /\ worker = [w \in Workers |-> worker[w]]
               /\ \A w \in Workers : WorkerOK(worker[w])

HandlersType ==
    handler \in [Handlers -> [pc : {"idle", "insert", "check", "offer", "erase", "dcheck"},
                              sub : SubscriberIds \cup {NoSubscriber},
                              reg : RegIds \cup {NoReg}]]

\* Every variable has its type.
TypeOK == /\ TopicsType
          /\ RegsType
          /\ WorkersType
          /\ HandlersType
          /\ queue \in Seq(SubscriberIds)
          /\ shutdown \in BOOLEAN

\* Until the shutdown a registered subscriber always has a heartbeat on its
\* way: its id is queued, or carried by a worker that will look it up or offer
\* it again, or its registration is being processed or is still to be offered
\* by RegisterSubscriber.  Without this a live subscriber would silently stop
\* receiving updates while no failure is ever detected.
NoLostSubscriber ==
    ~ shutdown =>
        \A s \in SubscriberIds : subscribers[s] # NoReg =>
            \/ \E i \in 1 .. Len(queue) : queue[i] = s
            \/ \E w \in Workers : /\ worker[w].sub = s
                                  /\ \/ worker[w].pc \in {"lookup", "offer"}
                                     \/ worker[w].reg = subscribers[s]
            \/ \E h \in Handlers : /\ handler[h].pc \in {"check", "offer", "erase"}
                                   /\ handler[h].reg = subscribers[s]

\* The failure detector tracks every current registration, below the limit: a
\* worker that finishes late, for a registration that was replaced, never evicts
\* or unregisters the one that replaced it (statestore.cc:561-566).
RegisteredIsTracked ==
    \A s \in SubscriberIds : subscribers[s] # NoReg =>
        /\ subscribers[s] < nextReg
        /\ regs[subscribers[s]].sub = s
        /\ missed[subscribers[s]] \in 0 .. MaxMissed

\* No version the statestore attributes to a subscriber, or sends as a minimum,
\* is ahead of the topic: min_subscriber_topic_version "will always be <=
\* topics_[topic_id].last_version_" (statestore.h:425-428), also when it was
\* read before the topic, the registrations or their versions changed.
VersionsBounded ==
    \A t \in TopicIds :
        /\ \A r \in RegIds : /\ regs[r].last[t] <= topics[t].last_version
                             /\ regs[r].transient[t] <= topics[t].last_version
        /\ \A w \in Workers :
              /\ t \in DOMAIN worker[w].deltas =>
                    worker[w].deltas[t].to_version <= topics[t].last_version
              /\ t \in DOMAIN worker[w].min =>
                    worker[w].min[t] <= topics[t].last_version

\* No two registrations hold the same version of a topic as theirs, so that
\* unregistering one never deletes what another has published since, even under
\* the same key (DeleteIfVersionsMatch, statestore.h:190-198).
TransientVersionsUnique ==
    \A q, r \in RegIds, t \in TopicIds :
        q # r /\ regs[q].transient[t] = regs[r].transient[t] => regs[q].transient[t] = 0

\* Outside RegisterSubscriber a registration is removed only by a worker that
\* has just failed to reach that very registration: a heartbeat that fails late,
\* after the subscriber has registered again, leaves the new registration alone.
OnlyOwnFailureUnregisters ==
    [][\A s \in SubscriberIds :
         subscribers[s] # NoReg /\ subscribers'[s] = NoReg =>
            \/ \E w \in Workers : /\ worker[w].pc = "finish" /\ worker'[w].pc # "finish"
                                  /\ worker[w].reg = subscribers[s]
                                  /\ ~ worker[w].ok
            \/ \E h \in Handlers : handler[h].pc = "erase" /\ handler[h].sub = s]_ssvars

\* A registered subscriber is sent heartbeats forever, at whatever time it
\* registered and however its registrations overlap: whenever it is registered,
\* a worker later gathers its updates, unless it is unregistered first.
HeartbeatsContinue ==
    \A s \in SubscriberIds :
        subscribers[s] # NoReg ~> \/ subscribers[s] = NoReg
                                  \/ shutdown
                                  \/ \E w \in Workers : /\ worker[w].sub = s
                                                        /\ worker[w].pc = "gather"

-------------------------------------------------------------------------------
(* What the comments of the code promise and it does not keep. *)

\* "those entries should be deleted once the subscriber is no longer connected"
\* (statestore.h:61-62): a live entry of a topic that everybody treats as
\* transient belongs to a current registration.
TransientEntriesHaveOwner ==
    \A t \in TopicIds, k \in Keys :
        /\ topics[t].entries[k].value # NULL_VALUE
        /\ \A s \in SubscriberIds : t \in Transient[s]
        => \E s \in SubscriberIds :
              /\ subscribers[s] # NoReg
              /\ PublishedKey[s] = k
              /\ regs[subscribers[s]].transient[t] = topics[t].entries[k].version

\* "Once complete, the subscriber is re-added to the heartbeat queue"
\* (statestore.h:405-406): a worker does not stay in Offer for ever.
OfferReturns ==
    \A w \in Workers : worker[w].pc = "offer" ~> worker[w].pc # "offer"

===============================================================================
