--------------------------- MODULE StatestoreProofs ---------------------------
(***************************************************************************)
(* Statestore, for every number of subscribers, topics, workers and server   *)
(* threads and every bound: no registered subscriber is ever lost, a stale   *)
(* worker leaves a newer registration alone, and the versions kept for the   *)
(* subscribers never run ahead of the topics.                                *)
(***************************************************************************)
EXTENDS Statestore, TopicSyncProofs, WellFoundedInduction

(* The inductive invariant, that it holds initially, and that every step keeps *)
(* the types. *)

\* What each thread holds: past its lookup a worker has a subscriber, and the
\* registration it was given belongs to that subscriber.
ThreadsOK ==
    /\ \A w \in Workers :
          /\ worker[w].pc \notin {"idle", "exit"} => worker[w].sub \in SubscriberIds
          /\ HasReg(w) => /\ worker[w].reg \in RegIds
                          /\ worker[w].reg < nextReg
                          /\ regs[worker[w].reg].sub = worker[w].sub
          /\ ~ HasReg(w) => worker[w].reg = NoReg
          /\ worker[w].resp.kind = "reset" =>
                worker[w].resp.from_version <= topics[worker[w].resp.topic].last_version
    /\ \A h \in Handlers :
          /\ handler[h].pc # "idle" => handler[h].sub \in SubscriberIds
          /\ handler[h].pc \in {"check", "offer", "erase"} =>
                /\ handler[h].reg \in RegIds
                /\ handler[h].reg < nextReg
                /\ regs[handler[h].reg].sub = handler[h].sub

TopicsOK == \A t \in TopicIds : TopicOK(topics[t])

Inv == /\ TypeOK
       /\ TopicsOK
       /\ ThreadsOK
       /\ RegisteredIsTracked
       /\ VersionsBounded
       /\ TransientVersionsUnique
       /\ NoLostSubscriber

-------------------------------------------------------------------------------

LEMMA NoUpdateKind == NoUpdate.kind = "none" /\ IsResponse(NoUpdate)
BY Zenon DEF NoUpdate, IsResponse

LEMMA IdleWorkerOK == WorkerOK(IdleWorker)
<1>1. IsResponse(NoUpdate)
  BY NoUpdateKind, Zenon
<1>2. DOMAIN <<>> = {}
  OBVIOUS
<1> QED BY <1>1, <1>2 DEF WorkerOK, IdleWorker, Pcs, NoSubscriber, NoReg

LEMMA DoneWorkerFields ==
    /\ DoneWorker.pc \in {"idle", "exit"} /\ DoneWorker.reg = NoReg
    /\ DoneWorker.resp = NoUpdate /\ DoneWorker.deltas = <<>> /\ DoneWorker.min = <<>>
BY Zenon DEF DoneWorker, IdleWorker

LEMMA DoneWorkerOK == WorkerOK(DoneWorker)
<1>1. CASE ~ shutdown
  BY <1>1, IdleWorkerOK, Zenon DEF DoneWorker
<1>2. CASE shutdown
  <2>1. DoneWorker = [IdleWorker EXCEPT !.pc = "exit"]
    BY <1>2, Zenon DEF DoneWorker
  <2> QED BY <2>1, IdleWorkerOK, Zenon DEF WorkerOK, IdleWorker, Pcs
<1> QED BY <1>1, <1>2, Zenon

\* The topics after an unregistration: still well formed, no version lost.
LEMMA TopicsWithoutOK ==
    ASSUME TypeOK, TopicsOK, NEW r \in RegIds, regs[r].sub \in SubscriberIds,
           NEW t \in TopicIds
    PROVE  /\ TopicOK(TopicsWithout(r)[t])
           /\ TopicsWithout(r)[t].last_version >= topics[t].last_version
<1>1. PublishedKey[regs[r].sub] \in Keys
  BY StatestoreAssumption, Zenon
<1>2. TopicOK(topics[t])
  BY Zenon DEF TopicsOK
<1>3. TopicsWithout(r)[t] = DeleteIfVersionsMatch(topics[t], regs[r].transient[t],
                                                  PublishedKey[regs[r].sub])
  BY Zenon DEF TopicsWithout
<1>4. topics[t].last_version \in Nat
  BY Zenon DEF TypeOK, TopicsType, Topic
<1> QED BY <1>1, <1>2, <1>3, <1>4, DeleteOK

LEMMA InitInv == SSInit => Inv
<1> SUFFICES ASSUME SSInit PROVE Inv
  BY Zenon
<1>1. TopicsOK
  BY NewTopicOK, Zenon DEF SSInit, TopicsOK
<1>2. TypeOK
  <2>1. TopicsType
    BY NewTopicOK, Zenon DEF SSInit, TopicOK, TopicsType
  <2>2. WorkersType
    BY IdleWorkerOK, Zenon DEF SSInit, WorkersType
  <2>3. RegsType
    <3>1. regs \in [RegIds -> [sub : SubscriberIds \cup {NoSubscriber},
                               last : [TopicIds -> Nat],
                               transient : [TopicIds -> Nat]]]
      BY Zenon DEF SSInit, NewSubscriber, TOPIC_INITIAL_VERSION
    <3>2. nextReg \in 1 .. MaxRegistrations + 1
      BY StatestoreAssumption DEF SSInit
    <3> QED BY <3>1, <3>2, Zenon DEF SSInit, RegsType
  <2>4. HandlersType
    BY Zenon DEF SSInit, IdleHandler, HandlersType
  <2>5. queue \in Seq(SubscriberIds)
    BY DEF SSInit
  <2>6. shutdown \in BOOLEAN
    BY Zenon DEF SSInit
  <2> QED BY <2>1, <2>2, <2>3, <2>4, <2>5, <2>6, Zenon DEF TypeOK
<1>3. ThreadsOK
  BY NoUpdateKind, Zenon DEF SSInit, ThreadsOK, HasReg, IdleWorker, IdleHandler
<1>4. RegisteredIsTracked /\ NoLostSubscriber
  BY Zenon DEF SSInit, RegisteredIsTracked, NoLostSubscriber
<1>5. VersionsBounded
  <2>1. \A w \in Workers : DOMAIN worker[w].deltas = {} /\ DOMAIN worker[w].min = {}
    BY DEF SSInit, IdleWorker
  <2>2. \A t \in TopicIds : topics[t].last_version = 0
    BY Zenon DEF SSInit, NewTopic
  <2> QED BY <2>1, <2>2 DEF SSInit, VersionsBounded, NewSubscriber, TOPIC_INITIAL_VERSION
<1>6. TransientVersionsUnique
  BY Zenon DEF SSInit, TransientVersionsUnique, NewSubscriber
<1> QED BY <1>1, <1>2, <1>3, <1>4, <1>5, <1>6, Zenon DEF Inv

-------------------------------------------------------------------------------
(* Type correctness, one step per action. *)

\* A step that replaces one worker's state by a well-formed one.
LEMMA OneWorkerType ==
    ASSUME WorkersType, NEW w \in Workers, NEW x, WorkerOK(x),
           worker' = [worker EXCEPT ![w] = x]
    PROVE  WorkersType'
<1>1. worker' = [v \in Workers |-> IF v = w THEN x ELSE worker[v]]
  BY Zenon DEF WorkersType
<1>2. \A v \in Workers : worker'[v] = IF v = w THEN x ELSE worker[v]
  BY <1>1, Zenon
<1>3. worker' = [v \in Workers |-> worker'[v]]
  BY <1>1, Zenon
<1>4. \A v \in Workers : WorkerOK(worker'[v])
  BY <1>2, Zenon DEF WorkersType
<1> QED BY <1>3, <1>4, Zenon DEF WorkersType

LEMMA DeltaType ==
    ASSUME NEW t, TopicOK(t), NEW from \in Nat
    PROVE  /\ IsDelta(TopicDelta(t, from))
           /\ TopicDelta(t, from).to_version = t.last_version
<1>1. ToVersion(t) = t.last_version
  BY DeltaReachesPresent, Zenon
<1>2. t.last_version \in Nat /\ t.entries \in [Keys -> TopicEntry]
  BY Zenon DEF TopicOK, Topic
<1>3. KeysAfter(t, from) \subseteq Keys
  BY Zenon DEF KeysAfter
<1>4. \A k \in Keys : t.entries[k].value \in EntryValue
  BY <1>2, Zenon DEF TopicEntry
<1>5. (from > TOPIC_INITIAL_VERSION) \in BOOLEAN
  OBVIOUS
<1> QED BY <1>1, <1>2, <1>3, <1>4, <1>5, Zenon DEF TopicDelta, IsDelta

LEMMA LeastVersion ==
    ASSUME NEW V, V \subseteq Nat, V # {}
    PROVE  \E v \in V : \A u \in V : v <= u
<1> DEFINE R == OpToRel(<, Nat)
<1>1. PICK v \in V : \A u \in V : ~ (<<u, v>> \in R)
  BY NatLessThanWellFounded, WFMin, Zenon
<1>2. \A u \in V : ~ (u < v)
  BY <1>1, Zenon DEF OpToRel
<1> QED BY <1>2

\* GetMinSubscriberTopicVersion: the minimum is the version of a subscriber, or
\* the initial one, and so not ahead of the topic.
LEMMA MinVersionBounded ==
    ASSUME Inv, NEW t \in TopicIds
    PROVE  /\ MinSubscriberTopicVersion(t) \in Nat
           /\ MinSubscriberTopicVersion(t) <= topics[t].last_version
<1> DEFINE S == {x \in SubscriberIds : subscribers[x] # NoReg /\ t \in Subscribed[x]}
           V == {regs[subscribers[s]].last[t] : s \in S}
<1>1. \A s \in S : subscribers[s] \in RegIds
  BY Zenon DEF Inv, TypeOK, RegsType
<1>2. \A v \in V : v \in Nat /\ v <= topics[t].last_version
  BY <1>1 DEF Inv, TypeOK, RegsType, VersionsBounded
<1>3. topics[t].last_version \in Nat
  BY Zenon DEF Inv, TypeOK, TopicsType, Topic
<1>4. CASE V = {}
  <2>1. MinSubscriberTopicVersion(t) = 0
    BY <1>4, Zenon DEF MinSubscriberTopicVersion, TOPIC_INITIAL_VERSION
  <2> QED BY <1>3, <2>1
<1>5. CASE V # {}
  <2>1. \E v \in V : \A u \in V : v <= u
    BY <1>2, <1>5, LeastVersion, Zenon
  <2>2. MinSubscriberTopicVersion(t) = CHOOSE v \in V : \A u \in V : v <= u
    BY <1>5, Zenon DEF MinSubscriberTopicVersion
  <2>3. MinSubscriberTopicVersion(t) \in V
    BY <2>1, <2>2, Zenon
  <2> QED BY <1>2, <2>3, Zenon
<1> QED BY <1>4, <1>5, Zenon

LEMMA ResponseType ==
    ASSUME NEW s \in SubscriberIds, NEW resp \in Responses(s)
    PROVE  /\ IsResponse(resp)
           /\ resp.kind = "reset" =>
                 resp.from_version <= topics[resp.topic].last_version
<1>1. Subscribed[s] \subseteq TopicIds /\ Transient[s] \subseteq TopicIds
  BY StatestoreAssumption, Zenon
<1>2. PublishedKey[s] \in Keys /\ FromVersions \subseteq Nat
  BY StatestoreAssumption, Zenon
<1>3. CASE resp = NoUpdate
  BY <1>3, NoUpdateKind, Zenon
<1>4. ASSUME NEW t \in TopicIds, NEW k \in Keys, NEW v \in EntryValue,
             resp = PutItem(t, k, v)
      PROVE  IsResponse(resp) /\ resp.kind = "put"
  BY <1>4, Zenon DEF PutItem, IsResponse
<1>5. ASSUME NEW t \in TopicIds, NEW from \in Nat, resp = ResetBase(t, from),
             resp.from_version <= topics[resp.topic].last_version
      PROVE  IsResponse(resp)
  BY <1>5, Zenon DEF ResetBase, IsResponse
<1> QED BY <1>1, <1>2, <1>3, <1>4, <1>5 DEF Responses

LEMMA WorkersTypeNext == Inv /\ [Next]_ssvars => WorkersType'
<1> SUFFICES ASSUME Inv, [Next]_ssvars PROVE WorkersType'
  BY Zenon
<1>0. WorkersType /\ (\A w \in Workers : WorkerOK(worker[w]))
  BY Zenon DEF Inv, TypeOK, WorkersType
<1>00. IsResponse(NoUpdate) /\ DOMAIN <<>> = {}
  BY NoUpdateKind
<1>1. CASE UNCHANGED worker
  BY <1>0, <1>1, Zenon DEF WorkersType
<1>2. ASSUME NEW w \in Workers, worker' = [worker EXCEPT ![w] = DoneWorker]
      PROVE  WorkersType'
  BY <1>0, <1>2, DoneWorkerOK, OneWorkerType, Zenon
<1>3. ASSUME NEW w \in Workers, Dequeue(w) PROVE WorkersType'
  <2> DEFINE x == [IdleWorker EXCEPT !.pc = "lookup", !.sub = Head(queue)]
  <2>1. Head(queue) \in SubscriberIds
    BY <1>3 DEF Dequeue, Inv, TypeOK
  <2>2. WorkerOK(x)
    BY <2>1, IdleWorkerOK, Zenon DEF WorkerOK, Pcs, IdleWorker
  <2>3. worker' = [worker EXCEPT ![w] = x]
    BY <1>3, Zenon DEF Dequeue
  <2> QED BY <1>0, <2>2, <2>3, OneWorkerType, Zenon
<1>4. ASSUME NEW w \in Workers, Lookup(w) PROVE WorkersType'
  <2> DEFINE s == worker[w].sub
             x == [worker[w] EXCEPT !.pc = "gather", !.reg = subscribers[s]]
  <2>1. CASE subscribers[s] = NoReg
    BY <1>2, <1>4, <2>1, Zenon DEF Lookup
  <2>2. CASE subscribers[s] # NoReg
    <3>1. s \in SubscriberIds
      BY <1>4, Zenon DEF Lookup, Inv, ThreadsOK
    <3>2. subscribers[s] \in RegIds
      BY <2>2, <3>1, Zenon DEF Inv, TypeOK, RegsType
    <3>3. WorkerOK(x)
      BY <1>0, <3>2, Zenon DEF WorkerOK, Pcs
    <3>4. worker' = [worker EXCEPT ![w] = x]
      BY <1>4, <2>2, Zenon DEF Lookup
    <3> QED BY <1>0, <3>3, <3>4, OneWorkerType, Zenon
  <2> QED BY <2>1, <2>2, Zenon
<1>5. ASSUME NEW w \in Workers, GatherDeltas(w) PROVE WorkersType'
  <2> DEFINE sub == regs[worker[w].reg]
             d == [t \in Subscribed[sub.sub] |-> TopicDelta(topics[t], sub.last[t])]
             x == [worker[w] EXCEPT !.pc = "min", !.deltas = d]
  <2>1. worker[w].reg \in RegIds /\ sub.sub \in SubscriberIds
    BY <1>5, Zenon DEF GatherDeltas, Inv, ThreadsOK, HasReg
  <2>2. Subscribed[sub.sub] \subseteq TopicIds
    BY <2>1, StatestoreAssumption, Zenon
  <2>3. \A t \in TopicIds : sub.last[t] \in Nat
    BY <2>1 DEF Inv, TypeOK, RegsType
  <2>4. \A t \in TopicIds : IsDelta(TopicDelta(topics[t], sub.last[t]))
    BY <2>3, DeltaType, Zenon DEF Inv, TopicsOK
  <2>5. \A t \in DOMAIN d : t \in TopicIds /\ IsDelta(d[t])
    BY <2>2, <2>4, Zenon
  <2> HIDE DEF d
  <2>6. WorkerOK(x)
    BY <1>0, <2>5, Zenon DEF WorkerOK, Pcs
  <2>7. worker' = [worker EXCEPT ![w] = x]
    BY <1>5, Zenon DEF GatherDeltas, d
  <2> QED BY <1>0, <2>6, <2>7, OneWorkerType, Zenon
<1>6. ASSUME NEW w \in Workers, GatherMinVersions(w) PROVE WorkersType'
  <2> DEFINE m == [t \in DOMAIN worker[w].deltas |-> MinSubscriberTopicVersion(t)]
             x == [worker[w] EXCEPT !.pc = "rpc", !.min = m]
  <2>1. DOMAIN worker[w].deltas \subseteq TopicIds
    BY <1>0, Zenon DEF WorkerOK
  <2>2. \A t \in TopicIds : MinSubscriberTopicVersion(t) \in Nat
    BY MinVersionBounded, Zenon
  <2>3. DOMAIN m \subseteq TopicIds /\ m \in [DOMAIN m -> Nat]
    BY <2>1, <2>2, Zenon
  <2> HIDE DEF m
  <2>4. WorkerOK(x)
    BY <1>0, <2>3, Zenon DEF WorkerOK, Pcs
  <2>5. worker' = [worker EXCEPT ![w] = x]
    BY <1>6, Zenon DEF GatherMinVersions, m
  <2> QED BY <1>0, <2>4, <2>5, OneWorkerType, Zenon
<1>7. ASSUME NEW w \in Workers, RpcTransportError(w) PROVE WorkersType'
  <2> DEFINE x == [worker[w] EXCEPT !.pc = "retry"]
  <2>1. worker' = [worker EXCEPT ![w] = x]
    BY <1>7, Zenon DEF RpcTransportError
  <2>2. WorkerOK(x)
    BY <1>0, <1>00, Zenon DEF WorkerOK, Pcs
  <2> QED BY <1>0, <2>1, <2>2, OneWorkerType, Zenon DEF WorkersType
<1>8. ASSUME NEW w \in Workers, RpcFailed(w) PROVE WorkersType'
  <2> DEFINE x == [worker[w] EXCEPT !.pc = "finish", !.ok = FALSE,
                                  !.deltas = <<>>, !.min = <<>>]
  <2>1. worker' = [worker EXCEPT ![w] = x]
    BY <1>8, Zenon DEF RpcFailed
  <2>2. WorkerOK(x)
    BY <1>0, <1>00 DEF WorkerOK, Pcs
  <2> QED BY <1>0, <2>1, <2>2, OneWorkerType, Zenon DEF WorkersType
<1>9. ASSUME NEW w \in Workers, NEW resp \in Responses(worker[w].sub), RpcReturns(w, resp)
      PROVE  WorkersType'
  <2> DEFINE x == [worker[w] EXCEPT !.pc = "setlast", !.resp = resp, !.min = <<>>]
  <2>1. worker[w].sub \in SubscriberIds
    BY <1>9, Zenon DEF RpcReturns, Inv, ThreadsOK
  <2>2. IsResponse(resp)
    BY <2>1, ResponseType, Zenon
  <2>3. WorkerOK(x)
    BY <1>0, <1>00, <2>2 DEF WorkerOK, Pcs
  <2>4. worker' = [worker EXCEPT ![w] = x]
    BY <1>9, Zenon DEF RpcReturns
  <2> QED BY <1>0, <2>3, <2>4, OneWorkerType, Zenon
<1>10. ASSUME NEW w \in Workers, RecordProcessed(w) PROVE WorkersType'
  <2> DEFINE x == [worker[w] EXCEPT !.pc = "apply", !.deltas = <<>>]
  <2>1. worker' = [worker EXCEPT ![w] = x]
    BY <1>10, Zenon DEF RecordProcessed
  <2>2. WorkerOK(x)
    BY <1>0, <1>00, Zenon DEF WorkerOK, Pcs
  <2> QED BY <1>0, <2>1, <2>2, OneWorkerType, Zenon DEF WorkersType
<1>11. ASSUME NEW w \in Workers, ApplyUpdates(w) PROVE WorkersType'
  <2> DEFINE x == [worker[w] EXCEPT !.pc = "finish", !.resp = NoUpdate]
  <2>1. worker' = [worker EXCEPT ![w] = x]
    BY <1>11, Zenon DEF ApplyUpdates
  <2>2. WorkerOK(x)
    BY <1>0, <1>00, Zenon DEF WorkerOK, Pcs
  <2> QED BY <1>0, <2>1, <2>2, OneWorkerType, Zenon DEF WorkersType
<1>12. ASSUME NEW w \in Workers, FinishOffer(w), Len(queue) >= MaxQueue, ~ shutdown
       PROVE  WorkersType'
  <2> DEFINE x == [worker[w] EXCEPT !.pc = "offer"]
  <2>1. worker' = [worker EXCEPT ![w] = x] \/ worker' = [worker EXCEPT ![w] = DoneWorker]
    BY <1>12, Zenon DEF FinishOffer
  <2>2. WorkerOK(x)
    BY <1>0, <1>00, Zenon DEF WorkerOK, Pcs
  <2> QED BY <1>0, <1>2, <2>1, <2>2, OneWorkerType, Zenon DEF WorkersType
<1>13. ASSUME NEW w \in Workers,
              FinishGone(w) \/ FinishFailed(w) \/ OfferWakes(w)
                \/ (FinishOffer(w) /\ (shutdown \/ ~ (Len(queue) >= MaxQueue)))
       PROVE  WorkersType'
  <2>1. worker' = [worker EXCEPT ![w] = DoneWorker]
    BY <1>13, Zenon DEF FinishGone, FinishFailed, OfferWakes, FinishOffer
  <2> QED BY <1>2, <2>1, Zenon
<1>14. ASSUME NEW h \in Handlers, RegisterStep(h) PROVE UNCHANGED worker
  BY <1>14, Zenon DEF RegisterStep, RegisterInsert, RegisterCheckSize, RegisterOffer, RegisterErase
<1>15. ASSUME NEW h \in Handlers, NEW s \in SubscriberIds, RegisterCreateTopics(h, s)
       PROVE  UNCHANGED worker
  BY <1>15, Zenon DEF RegisterCreateTopics
<1>16. SetExitFlag \/ UNCHANGED ssvars => UNCHANGED worker
  BY Zenon DEF SetExitFlag, ssvars
<1> QED
  BY <1>1, <1>3, <1>4, <1>5, <1>6, <1>7, <1>8, <1>9, <1>10, <1>11, <1>12, <1>13,
     <1>14, <1>15, <1>16
 , Zenon DEF Next, WorkerStep, RpcEnds

\* The steps that touch the shared maps; every other step leaves them alone.
LEMMA WhoTouchesMaps ==
    ASSUME [Next]_ssvars
    PROVE  \/ UNCHANGED <<topics, subscribers, regs, nextReg, missed, subscriber_set>>
           \/ \E h \in Handlers : RegisterInsert(h) \/ RegisterErase(h)
           \/ \E w \in Workers : \/ RecordProcessed(w) \/ ApplyUpdates(w)
                                 \/ FinishFailed(w) \/ FinishOffer(w)
<1> DEFINE U == UNCHANGED <<topics, subscribers, regs, nextReg, missed, subscriber_set>>
<1>1. ASSUME NEW h \in Handlers, NEW s \in SubscriberIds, RegisterCreateTopics(h, s) PROVE U
  BY <1>1, Zenon DEF RegisterCreateTopics
<1>2. ASSUME NEW h \in Handlers, RegisterCheckSize(h) \/ RegisterOffer(h) PROVE U
  BY <1>2, Zenon DEF RegisterCheckSize, RegisterOffer
<1>3. ASSUME NEW w \in Workers, Dequeue(w) \/ Lookup(w) \/ GatherDeltas(w) PROVE U
  BY <1>3, Zenon DEF Dequeue, Lookup, GatherDeltas, WorkerUnchanged
<1>4. ASSUME NEW w \in Workers, GatherMinVersions(w) \/ RpcTransportError(w) \/ RpcEnds(w)
      PROVE  U
  BY <1>4, Zenon DEF GatherMinVersions, RpcTransportError, RpcEnds, RpcFailed, RpcReturns,
              WorkerUnchanged
<1>5. ASSUME NEW w \in Workers, FinishGone(w) \/ OfferWakes(w) PROVE U
  BY <1>5, Zenon DEF FinishGone, OfferWakes, WorkerUnchanged
<1>6. SetExitFlag \/ UNCHANGED ssvars => U
  BY Zenon DEF SetExitFlag, ssvars
<1> QED BY <1>1, <1>2, <1>3, <1>4, <1>5, <1>6, Zenon DEF Next, RegisterStep, WorkerStep

\* Every step keeps the topics well formed and takes no version back.
LEMMA TopicsNext ==
    ASSUME Inv, [Next]_ssvars
    PROVE  /\ TopicsOK'
           /\ topics' \in [TopicIds -> Topic]
           /\ \A t \in TopicIds : topics'[t].last_version >= topics[t].last_version
<1>0. topics \in [TopicIds -> Topic] /\ (\A t \in TopicIds : topics[t].last_version \in Nat)
  BY Zenon DEF Inv, TypeOK, TopicsType, Topic
<1> DEFINE Goal == /\ TopicsOK'
                   /\ topics' \in [TopicIds -> Topic]
                   /\ \A t \in TopicIds : topics'[t].last_version >= topics[t].last_version
<1>1. CASE UNCHANGED topics
  BY <1>0, <1>1 DEF Inv, TopicsOK
<1>2. ASSUME NEW r \in RegIds, regs[r].sub \in SubscriberIds, topics' = TopicsWithout(r)
      PROVE  Goal
  <2>1. \A t \in TopicIds : /\ TopicOK(topics'[t])
                            /\ topics'[t].last_version >= topics[t].last_version
    BY <1>2, TopicsWithoutOK, Zenon DEF Inv
  <2>2. topics' = [t \in TopicIds |-> topics'[t]]
    BY <1>2, Zenon DEF TopicsWithout
  <2>3. topics' \in [TopicIds -> Topic]
    BY <2>1, <2>2, Zenon DEF TopicOK
  <2> QED BY <2>1, <2>3, Zenon DEF TopicsOK
<1>3. ASSUME NEW h \in Handlers, RegisterInsert(h) PROVE Goal
  <2> DEFINE s == handler[h].sub
             old == subscribers[s]
  <2>1. s \in SubscriberIds
    BY <1>3, Zenon DEF RegisterInsert, Inv, ThreadsOK
  <2>2. CASE old = NoReg
    BY <1>1, <1>3, <2>2, Zenon DEF RegisterInsert
  <2>3. CASE old # NoReg
    <3>1. old \in RegIds /\ regs[old].sub = s
      BY <2>1, <2>3, Zenon DEF Inv, TypeOK, RegsType, RegisteredIsTracked
    <3>2. topics' = TopicsWithout(old)
      BY <1>3, <2>3, Zenon DEF RegisterInsert
    <3> QED BY <1>2, <2>1, <3>1, <3>2, Zenon
  <2> QED BY <2>2, <2>3, Zenon
<1>4. ASSUME NEW w \in Workers, FinishFailed(w) PROVE Goal
  <2> DEFINE r == worker[w].reg
  <2>1. r \in RegIds /\ regs[r].sub \in SubscriberIds
    BY <1>4, Zenon DEF FinishFailed, Inv, ThreadsOK, HasReg
  <2>2. topics' = TopicsWithout(r) \/ topics' = topics
    BY <1>4, Zenon DEF FinishFailed, UnregisterSubscriber
  <2> QED BY <1>1, <1>2, <2>1, <2>2, Zenon
<1>5. ASSUME NEW w \in Workers, ApplyUpdates(w) PROVE Goal
  <2> DEFINE resp == worker[w].resp
  <2>1. CASE resp.kind # "put"
    BY <1>1, <1>5, <2>1, Zenon DEF ApplyUpdates
  <2>2. CASE resp.kind = "put"
    <3>1. IsResponse(resp)
      BY Zenon DEF Inv, TypeOK, WorkersType, WorkerOK
    <3>2. resp.topic \in TopicIds /\ resp.key \in Keys /\ resp.value \in EntryValue
      BY <2>2, <3>1, NoUpdateKind, Zenon DEF IsResponse
    <3>3. topics' = [topics EXCEPT ![resp.topic] = Put(@, resp.key, resp.value)]
      BY <1>5, <2>2, Zenon DEF ApplyUpdates
    <3>4. TopicOK(topics[resp.topic])
      BY <3>2, Zenon DEF Inv, TopicsOK
    <3>5. /\ TopicOK(Put(topics[resp.topic], resp.key, resp.value))
          /\ Put(topics[resp.topic], resp.key, resp.value).last_version
                = topics[resp.topic].last_version + 1
      BY <3>2, <3>4, PutOK, Zenon
    <3>6. \A t \in TopicIds : topics'[t] = IF t = resp.topic
                                THEN Put(topics[resp.topic], resp.key, resp.value)
                                ELSE topics[t]
      BY <1>0, <3>2, <3>3, Zenon
    <3>7. \A t \in TopicIds : TopicOK(topics'[t])
      BY <3>5, <3>6, Zenon DEF Inv, TopicsOK
    <3>8. \A t \in TopicIds : topics'[t].last_version >= topics[t].last_version
      <4> SUFFICES ASSUME NEW t \in TopicIds
                   PROVE  topics'[t].last_version >= topics[t].last_version
        BY Zenon
      <4>1. topics'[t].last_version = topics[t].last_version
              \/ topics'[t].last_version = topics[t].last_version + 1
        BY <3>5, <3>6, Zenon
      <4> QED BY <1>0, <4>1
    <3>9. topics' \in [TopicIds -> Topic]
      BY <1>0, <3>3, <3>5, Zenon DEF TopicOK
    <3> QED BY <3>7, <3>8, <3>9, Zenon DEF TopicsOK
  <2> QED BY <2>1, <2>2, Zenon
<1>6. ASSUME NEW w \in Workers, RecordProcessed(w) \/ FinishOffer(w) PROVE UNCHANGED topics
  BY <1>6, Zenon DEF RecordProcessed, FinishOffer
<1>7. ASSUME NEW h \in Handlers, RegisterErase(h) PROVE UNCHANGED topics
  BY <1>7, Zenon DEF RegisterErase
<1> QED BY <1>1, <1>3, <1>4, <1>5, <1>6, <1>7, WhoTouchesMaps, Zenon

LEMMA UpdateHeartbeatType ==
    ASSUME Inv, NEW r \in RegIds, NEW seen
    PROVE  /\ UpdateHeartbeat(r, seen) \in [RegIds -> Nat \cup {Untracked}]
           /\ UpdateHeartbeat(r, seen)[r] \in Nat
           /\ \A q \in RegIds : q # r => UpdateHeartbeat(r, seen)[q] = missed[q]
<1>1. missed \in [RegIds -> Nat \cup {Untracked}] /\ Untracked = -1
  BY Zenon DEF Inv, TypeOK, RegsType, Untracked
<1> QED BY <1>1 DEF UpdateHeartbeat

LEMMA RegsTypeNext == ASSUME Inv, [Next]_ssvars PROVE RegsType'
<1>0. RegsType
  BY Zenon DEF Inv, TypeOK
<1>1. CASE UNCHANGED <<topics, subscribers, regs, nextReg, missed, subscriber_set>>
  BY <1>0, <1>1, Zenon DEF RegsType
<1>2. ASSUME NEW h \in Handlers, RegisterInsert(h) PROVE RegsType'
  <2> DEFINE s == handler[h].sub
  <2>1. s \in SubscriberIds
    BY <1>2, Zenon DEF RegisterInsert, Inv, ThreadsOK
  <2>2. nextReg \in RegIds /\ nextReg' \in 1 .. MaxRegistrations + 1
    BY <1>0, <1>2, StatestoreAssumption DEF RegisterInsert, RegsType, RegIds
  <2>3. NewSubscriber(s) \in [sub : SubscriberIds \cup {NoSubscriber},
                              last : [TopicIds -> Nat], transient : [TopicIds -> Nat]]
    BY <2>1, Zenon DEF NewSubscriber, TOPIC_INITIAL_VERSION
  <2>4. missed' \in [RegIds -> Nat \cup {Untracked}]
    <3>1. missed' = [r \in RegIds |-> CASE r = nextReg -> 0
                                         [] r = subscribers[s] -> Untracked
                                         [] OTHER -> missed[r]]
      BY <1>2, Zenon DEF RegisterInsert
    <3>2. \A r \in RegIds : missed[r] \in Nat \cup {Untracked}
      BY <1>0, Zenon DEF RegsType
    <3>3. \A r \in RegIds : missed'[r] \in Nat \cup {Untracked}
      BY <3>1, <3>2, Zenon
    <3> QED BY <3>1, <3>3, Zenon
  <2>5. subscribers' \in [SubscriberIds -> RegIds \cup {NoReg}]
    BY <1>0, <1>2, <2>1, <2>2, Zenon DEF RegisterInsert, RegsType
  <2>6. regs' \in [RegIds -> [sub : SubscriberIds \cup {NoSubscriber},
                              last : [TopicIds -> Nat], transient : [TopicIds -> Nat]]]
    BY <1>0, <1>2, <2>2, <2>3, Zenon DEF RegisterInsert, RegsType
  <2>7. subscriber_set' \subseteq SubscriberIds
    BY <1>0, <1>2, <2>1, Zenon DEF RegisterInsert, RegsType
  <2> QED BY <2>2, <2>4, <2>5, <2>6, <2>7, Zenon DEF RegsType
<1>3. ASSUME NEW h \in Handlers, RegisterErase(h) PROVE RegsType'
  BY <1>0, <1>3, Zenon DEF RegisterErase, RegsType
<1>4. ASSUME NEW w \in Workers, RecordProcessed(w) PROVE RegsType'
  <2> DEFINE r == worker[w].reg
             d == worker[w].deltas
             l == [t \in TopicIds |-> IF t \in DOMAIN d THEN d[t].to_version
                                      ELSE regs[r].last[t]]
  <2>1. r \in RegIds
    BY <1>4, Zenon DEF RecordProcessed, Inv, ThreadsOK, HasReg
  <2>2. \A t \in DOMAIN d : d[t].to_version \in Nat
    BY Zenon DEF Inv, TypeOK, WorkersType, WorkerOK, IsDelta
  <2>3. l \in [TopicIds -> Nat]
    BY <1>0, <2>1, <2>2 DEF RegsType
  <2>4. regs' = [regs EXCEPT ![r].last = l]
    BY <1>4, Zenon DEF RecordProcessed
  <2> HIDE DEF l
  <2>5. regs' \in [RegIds -> [sub : SubscriberIds \cup {NoSubscriber},
                              last : [TopicIds -> Nat], transient : [TopicIds -> Nat]]]
    BY <1>0, <2>1, <2>3, <2>4, SMTT(40) DEF RegsType
  <2> QED BY <1>0, <1>4, <2>5, Zenon DEF RecordProcessed, RegsType, WorkerUnchanged
<1>5. ASSUME NEW w \in Workers, ApplyUpdates(w) PROVE RegsType'
  <2> DEFINE r == worker[w].reg
             resp == worker[w].resp
  <2>1. r \in RegIds
    BY <1>5, Zenon DEF ApplyUpdates, Inv, ThreadsOK, HasReg
  <2>2. IsResponse(resp)
    BY Zenon DEF Inv, TypeOK, WorkersType, WorkerOK
  <2>3. resp.kind = "reset" => resp.topic \in TopicIds /\ resp.from_version \in Nat
    BY <2>2, NoUpdateKind, Zenon DEF IsResponse
  <2>4. resp.kind = "put" => resp.topic \in TopicIds
    BY <2>2, NoUpdateKind, Zenon DEF IsResponse
  <2>5. \A t \in TopicIds : topics'[t].last_version \in Nat
    BY TopicsNext, Zenon DEF Topic
  <2>6. \/ regs' = regs
        \/ /\ resp.kind = "reset"
           /\ regs' = [regs EXCEPT ![r].last[resp.topic] = resp.from_version]
        \/ /\ resp.kind = "put"
           /\ regs' = [regs EXCEPT ![r].transient[resp.topic] =
                                      topics'[resp.topic].last_version]
    BY <1>5, Zenon DEF ApplyUpdates
  <2>7. regs' \in [RegIds -> [sub : SubscriberIds \cup {NoSubscriber},
                              last : [TopicIds -> Nat], transient : [TopicIds -> Nat]]]
    <3>1. CASE regs' = regs
      BY <1>0, <3>1, Zenon DEF RegsType
    <3>2. CASE /\ resp.kind = "reset"
               /\ regs' = [regs EXCEPT ![r].last[resp.topic] = resp.from_version]
      <4> DEFINE l == [regs[r].last EXCEPT ![resp.topic] = resp.from_version]
      <4>1. l \in [TopicIds -> Nat]
        BY <1>0, <2>1, <2>3, <3>2, Zenon DEF RegsType
      <4>2. regs' = [regs EXCEPT ![r].last = l]
        BY <3>2, Zenon
      <4> HIDE DEF l
      <4> QED BY <1>0, <2>1, <4>1, <4>2, SMTT(40) DEF RegsType
    <3>3. CASE /\ resp.kind = "put"
               /\ regs' = [regs EXCEPT ![r].transient[resp.topic] =
                                          topics'[resp.topic].last_version]
      <4> DEFINE l == [regs[r].transient EXCEPT ![resp.topic] =
                                          topics'[resp.topic].last_version]
      <4>1. l \in [TopicIds -> Nat]
        BY <1>0, <2>1, <2>4, <2>5, <3>3, Zenon DEF RegsType
      <4>2. regs' = [regs EXCEPT ![r].transient = l]
        BY <3>3, Zenon
      <4> HIDE DEF l
      <4> QED BY <1>0, <2>1, <4>1, <4>2, SMTT(40) DEF RegsType
    <3> QED BY <2>6, <3>1, <3>2, <3>3, Zenon
  <2> QED BY <1>0, <1>5, <2>7, Zenon DEF ApplyUpdates, RegsType, WorkerUnchanged
<1>6. ASSUME NEW w \in Workers, FinishFailed(w) \/ FinishOffer(w) PROVE RegsType'
  <2> DEFINE r == worker[w].reg
             m == UpdateHeartbeat(r, worker[w].ok)
  <2>1. r \in RegIds /\ regs[r].sub \in SubscriberIds
    BY <1>6, Zenon DEF FinishFailed, FinishOffer, Inv, ThreadsOK, HasReg
  <2>2. m \in [RegIds -> Nat \cup {Untracked}]
    BY <2>1, UpdateHeartbeatType, Zenon
  <2> HIDE DEF m
  <2>3. missed' = m \/ missed' = [m EXCEPT ![r] = Untracked]
    BY <1>6, Zenon DEF FinishFailed, FinishOffer, UnregisterSubscriber, m
  <2>4. missed' \in [RegIds -> Nat \cup {Untracked}]
    BY <2>1, <2>2, <2>3, Zenon
  <2>5. subscribers' = subscribers \/ subscribers' = [subscribers EXCEPT ![regs[r].sub] = NoReg]
    BY <1>6, Zenon DEF FinishFailed, FinishOffer, UnregisterSubscriber
  <2>6. subscribers' \in [SubscriberIds -> RegIds \cup {NoReg}]
    BY <1>0, <2>1, <2>5, Zenon DEF RegsType
  <2>7. subscriber_set' \subseteq SubscriberIds
    BY <1>0, <1>6, Zenon DEF FinishFailed, FinishOffer, UnregisterSubscriber, RegsType
  <2>8. regs' = regs /\ nextReg' = nextReg
    BY <1>6, Zenon DEF FinishFailed, FinishOffer, WorkerUnchanged
  <2> QED BY <1>0, <2>4, <2>6, <2>7, <2>8, Zenon DEF RegsType
<1> QED BY <1>1, <1>2, <1>3, <1>4, <1>5, <1>6, WhoTouchesMaps, Zenon

LEMMA OtherTypesNext ==
    ASSUME Inv, [Next]_ssvars
    PROVE  /\ created' \subseteq TopicIds
           /\ HandlersType'
           /\ queue' \in Seq(SubscriberIds)
           /\ shutdown' \in BOOLEAN
<1>0. /\ created \subseteq TopicIds
      /\ HandlersType
      /\ queue \in Seq(SubscriberIds)
      /\ shutdown \in BOOLEAN
  BY Zenon DEF Inv, TypeOK, TopicsType
<1> DEFINE H == [pc : {"idle", "insert", "check", "offer", "erase", "dcheck"},
                 sub : SubscriberIds \cup {NoSubscriber}, reg : RegIds \cup {NoReg}]
<1>1. IdleHandler \in H /\ (\A h \in Handlers : handler[h] \in H)
  BY <1>0, Zenon DEF IdleHandler, HandlersType
<1>2. ASSUME NEW h \in Handlers, NEW x \in H, handler' = [handler EXCEPT ![h] = x]
      PROVE  HandlersType'
  BY <1>0, <1>2, Zenon DEF HandlersType
<1>3. created' \subseteq TopicIds
  <2>1. created' = created \/ \E s \in SubscriberIds : created' = created \cup Subscribed[s]
    BY Zenon DEF Next, RegisterCreateTopics, RegisterStep, RegisterInsert, RegisterCheckSize,
           RegisterOffer, RegisterErase, WorkerStep, Dequeue, Lookup, GatherDeltas,
           GatherMinVersions, RecordProcessed, ApplyUpdates, FinishGone, FinishFailed,
           FinishOffer, OfferWakes, RpcTransportError, RpcEnds, RpcFailed, RpcReturns,
           WorkerUnchanged, SetExitFlag, ssvars
  <2> QED BY <1>0, <2>1, StatestoreAssumption, Zenon
<1>4. ASSUME NEW h \in Handlers, NEW s \in SubscriberIds, RegisterCreateTopics(h, s)
      PROVE  HandlersType' /\ queue' = queue /\ shutdown' = shutdown
  <2>1. [IdleHandler EXCEPT !.pc = "insert", !.sub = s] \in H
    BY <1>1, Zenon DEF IdleHandler
  <2> QED BY <1>2, <1>4, <2>1, Zenon DEF RegisterCreateTopics
<1>5. ASSUME NEW h \in Handlers, RegisterInsert(h)
      PROVE  HandlersType' /\ queue' = queue /\ shutdown' = shutdown
  <2>1. handler[h].sub \in SubscriberIds /\ nextReg \in RegIds
    BY <1>5 DEF RegisterInsert, Inv, ThreadsOK, TypeOK, RegsType, RegIds
  <2>2. [pc |-> "check", sub |-> handler[h].sub, reg |-> nextReg] \in H
    BY <2>1, Zenon
  <2> QED BY <1>2, <1>5, <2>2, Zenon DEF RegisterInsert
<1>6. ASSUME NEW h \in Handlers, RegisterCheckSize(h)
      PROVE  HandlersType' /\ queue' = queue /\ shutdown' = shutdown
  <2>1. \A p \in {"erase", "offer"} : [handler[h] EXCEPT !.pc = p] \in H
    BY <1>1, Zenon
  <2>2. \E p \in {"erase", "offer"} :
            handler' = [handler EXCEPT ![h] = [handler[h] EXCEPT !.pc = p]]
    BY <1>6, Zenon DEF RegisterCheckSize
  <2> QED BY <1>2, <1>6, <2>1, <2>2, Zenon DEF RegisterCheckSize
<1>7. ASSUME NEW h \in Handlers, RegisterOffer(h)
      PROVE  HandlersType' /\ queue' \in Seq(SubscriberIds) /\ shutdown' = shutdown
  <2>1. [handler[h] EXCEPT !.pc = "erase"] \in H
    BY <1>1, Zenon
  <2>2. \/ handler' = [handler EXCEPT ![h] = [handler[h] EXCEPT !.pc = "erase"]]
        \/ handler' = [handler EXCEPT ![h] = IdleHandler]
    BY <1>7, Zenon DEF RegisterOffer
  <2>3. handler[h].sub \in SubscriberIds
    BY <1>7, Zenon DEF RegisterOffer, Inv, ThreadsOK
  <2>4. queue' \in Seq(SubscriberIds)
    BY <1>0, <1>7, <2>3 DEF RegisterOffer
  <2> QED BY <1>1, <1>2, <1>7, <2>1, <2>2, <2>4, Zenon DEF RegisterOffer
<1>8. ASSUME NEW h \in Handlers, RegisterErase(h)
      PROVE  HandlersType' /\ queue' = queue /\ shutdown' = shutdown
  <2>1. [handler[h] EXCEPT !.pc = "dcheck"] \in H
    BY <1>1, Zenon
  <2>2. \/ handler' = [handler EXCEPT ![h] = [handler[h] EXCEPT !.pc = "dcheck"]]
        \/ handler' = [handler EXCEPT ![h] = IdleHandler]
    BY <1>8, Zenon DEF RegisterErase
  <2> QED BY <1>1, <1>2, <1>8, <2>1, <2>2, Zenon DEF RegisterErase
<1>9. ASSUME NEW w \in Workers, WorkerStep(w) \/ RpcTransportError(w) \/ RpcEnds(w)
      PROVE  handler' = handler /\ queue' \in Seq(SubscriberIds) /\ shutdown' = shutdown
  <2>1. handler' = handler /\ shutdown' = shutdown
    BY <1>9, Zenon DEF WorkerStep, Dequeue, Lookup, GatherDeltas, GatherMinVersions,
       RecordProcessed, ApplyUpdates, FinishGone, FinishFailed, FinishOffer, OfferWakes,
       RpcTransportError, RpcEnds, RpcFailed, RpcReturns, WorkerUnchanged
  <2>2. \/ queue' = queue
        \/ queue # <<>> /\ queue' = Tail(queue)
        \/ worker[w].pc \notin {"idle", "exit"} /\ queue' = Append(queue, worker[w].sub)
    BY <1>9, Zenon DEF WorkerStep, Dequeue, Lookup, GatherDeltas, GatherMinVersions,
       RecordProcessed, ApplyUpdates, FinishGone, FinishFailed, FinishOffer, OfferWakes,
       RpcTransportError, RpcEnds, RpcFailed, RpcReturns
  <2>3. worker[w].pc \notin {"idle", "exit"} => worker[w].sub \in SubscriberIds
    BY Zenon DEF Inv, ThreadsOK
  <2> QED BY <1>0, <2>1, <2>2, <2>3
<1>10. SetExitFlag => UNCHANGED <<handler, queue>> /\ shutdown' \in BOOLEAN
  BY Zenon DEF SetExitFlag
<1>11. UNCHANGED ssvars => UNCHANGED <<handler, queue, shutdown>>
  BY Zenon DEF ssvars
<1>12. UNCHANGED handler => HandlersType'
  BY <1>0, Zenon DEF HandlersType
<1> HIDE DEF H
<1> QED BY <1>0, <1>3, <1>4, <1>5, <1>6, <1>7, <1>8, <1>9, <1>10, <1>11, <1>12
       , Zenon DEF Next, RegisterStep

LEMMA TypeNext == ASSUME Inv, [Next]_ssvars PROVE TypeOK'
BY WorkersTypeNext, TopicsNext, RegsTypeNext, OtherTypesNext, Zenon DEF TypeOK, TopicsType

-------------------------------------------------------------------------------
(* What a step does to the worker and the server thread that takes it: each *)
(* thread keeps a registration of its own subscriber. *)

\* What a worker may come to hold in one step while it keeps its registration.
Payload(v, x) ==
    /\ \/ x.resp \in {worker[v].resp, NoUpdate}
       \/ x.resp \in Responses(worker[v].sub)
    /\ \/ x.deltas \in {worker[v].deltas, <<>>}
       \/ x.deltas = [t \in Subscribed[regs[worker[v].reg].sub] |->
                        TopicDelta(topics[t], regs[worker[v].reg].last[t])]
    /\ \/ x.min \in {worker[v].min, <<>>}
       \/ x.min = [t \in DOMAIN worker[v].deltas |-> MinSubscriberTopicVersion(t)]

\* The worker stays on the registration it has, with a valid answer or none.
SameReg(v) ==
    /\ worker[v].pc # "offer"
    /\ HasReg(v) /\ HasReg(v)'
    /\ worker'[v].sub = worker[v].sub
    /\ worker'[v].reg = worker[v].reg
    /\ Payload(v, worker'[v])

\* It takes an item off the queue, or looks up the registration of its item.
TakesItem(v) ==
    /\ worker[v].pc = "idle" /\ worker'[v].pc = "lookup"
    /\ queue # <<>> /\ worker'[v].sub = Head(queue) /\ worker'[v].reg = NoReg
    /\ worker'[v].resp = NoUpdate /\ worker'[v].deltas = <<>> /\ worker'[v].min = <<>>

FindsReg(v) ==
    /\ worker[v].pc = "lookup" /\ worker'[v].pc = "gather"
    /\ worker'[v].sub = worker[v].sub
    /\ subscribers[worker[v].sub] # NoReg
    /\ worker'[v].reg = subscribers[worker[v].sub]
    /\ worker'[v].resp = worker[v].resp
    /\ worker'[v].deltas = worker[v].deltas /\ worker'[v].min = worker[v].min

\* It is done with its item, in one of these ways.
Ends(v) ==
    \/ Lookup(v) /\ subscribers[worker[v].sub] = NoReg
    \/ FinishGone(v) \/ FinishFailed(v) \/ FinishOffer(v) \/ OfferWakes(v)

LEMMA OneWorkerAt ==
    ASSUME WorkersType, NEW w \in Workers, NEW x, worker' = [worker EXCEPT ![w] = x]
    PROVE  \A v \in Workers : worker'[v] = IF v = w THEN x ELSE worker[v]
BY Zenon DEF WorkersType

LEMMA WorkerMoves ==
    ASSUME Inv, [Next]_ssvars, NEW v \in Workers
    PROVE  \/ worker'[v] = worker[v]
           \/ worker'[v] = DoneWorker /\ \E w \in Workers : w = v /\ Ends(w)
           \/ TakesItem(v)
           \/ FindsReg(v)
           \/ SameReg(v)
<1> DEFINE Goal == \/ worker'[v] = worker[v]
                   \/ worker'[v] = DoneWorker /\ \E w \in Workers : w = v /\ Ends(w)
                   \/ TakesItem(v) \/ FindsReg(v) \/ SameReg(v)
<1>0. WorkersType /\ (\A w \in Workers : WorkerOK(worker[w]))
  BY Zenon DEF Inv, TypeOK, WorkersType
<1>1. ASSUME NEW w \in Workers, worker' = [worker EXCEPT ![w] = DoneWorker], Ends(w)
      PROVE  Goal
  BY <1>0, <1>1, OneWorkerAt
<1>2. ASSUME NEW w \in Workers, Dequeue(w) PROVE Goal
  <2> DEFINE x == [IdleWorker EXCEPT !.pc = "lookup", !.sub = Head(queue)]
  <2>1. worker' = [worker EXCEPT ![w] = x] /\ worker[w].pc = "idle" /\ queue # <<>>
    BY <1>2, Zenon DEF Dequeue
  <2>2. /\ x.pc = "lookup" /\ x.sub = Head(queue) /\ x.reg = NoReg
        /\ x.resp = NoUpdate /\ x.deltas = <<>> /\ x.min = <<>>
    BY Zenon DEF IdleWorker
  <2> QED BY <1>0, <2>1, <2>2, OneWorkerAt DEF TakesItem
<1>3. ASSUME NEW w \in Workers, Lookup(w) PROVE Goal
  <2> DEFINE x == [worker[w] EXCEPT !.pc = "gather", !.reg = subscribers[worker[w].sub]]
  <2>1. CASE subscribers[worker[w].sub] = NoReg
    BY <1>1, <1>3, <2>1, Zenon DEF Lookup, Ends
  <2>2. CASE subscribers[worker[w].sub] # NoReg
    <3>1. worker' = [worker EXCEPT ![w] = x] /\ worker[w].pc = "lookup"
      BY <1>3, <2>2, Zenon DEF Lookup
    <3>2. /\ x.pc = "gather" /\ x.sub = worker[w].sub
          /\ x.reg = subscribers[worker[w].sub] /\ x.resp = worker[w].resp
          /\ x.deltas = worker[w].deltas /\ x.min = worker[w].min
      BY <1>0, Zenon DEF WorkerOK
    <3> QED BY <1>0, <2>2, <3>1, <3>2, OneWorkerAt DEF FindsReg
  <2> QED BY <2>1, <2>2, Zenon
<1>4. ASSUME NEW w \in Workers, NEW x, worker' = [worker EXCEPT ![w] = x],
             worker[w].pc \notin {"idle", "lookup", "exit", "offer"}, x.pc \notin {"idle", "lookup", "exit"},
             x.sub = worker[w].sub, x.reg = worker[w].reg,
             Payload(w, x)
      PROVE  Goal
  BY <1>0, <1>4, OneWorkerAt DEF SameReg, HasReg
<1>5. ASSUME NEW w \in Workers, GatherDeltas(w) PROVE Goal
  <2> DEFINE x == [worker[w] EXCEPT !.pc = "min",
                !.deltas = [t \in Subscribed[regs[worker[w].reg].sub] |->
                              TopicDelta(topics[t], regs[worker[w].reg].last[t])]]
  <2>1. worker' = [worker EXCEPT ![w] = x] /\ worker[w].pc \notin {"idle", "lookup", "exit", "offer"}
    BY <1>5, Zenon DEF GatherDeltas
  <2>2. /\ x.pc \notin {"idle", "lookup", "exit"}
        /\ x.sub = worker[w].sub /\ x.reg = worker[w].reg
        /\ Payload(w, x)
    BY <1>0, Zenon DEF WorkerOK, Payload
  <2> QED BY <1>4, <2>1, <2>2, Zenon
<1>6. ASSUME NEW w \in Workers, GatherMinVersions(w) PROVE Goal
  <2> DEFINE x == [worker[w] EXCEPT !.pc = "rpc",
                !.min = [t \in DOMAIN worker[w].deltas |-> MinSubscriberTopicVersion(t)]]
  <2>1. worker' = [worker EXCEPT ![w] = x] /\ worker[w].pc \notin {"idle", "lookup", "exit", "offer"}
    BY <1>6, Zenon DEF GatherMinVersions
  <2>2. /\ x.pc \notin {"idle", "lookup", "exit"}
        /\ x.sub = worker[w].sub /\ x.reg = worker[w].reg
        /\ Payload(w, x)
    BY <1>0, Zenon DEF WorkerOK, Payload
  <2> QED BY <1>4, <2>1, <2>2, Zenon
<1>7. ASSUME NEW w \in Workers, RpcTransportError(w) PROVE Goal
  <2> DEFINE x == [worker[w] EXCEPT !.pc = "retry"]
  <2>1. worker' = [worker EXCEPT ![w] = x] /\ worker[w].pc \notin {"idle", "lookup", "exit", "offer"}
    BY <1>7, Zenon DEF RpcTransportError
  <2>2. /\ x.pc \notin {"idle", "lookup", "exit"}
        /\ x.sub = worker[w].sub /\ x.reg = worker[w].reg
        /\ Payload(w, x)
    BY <1>0, Zenon DEF WorkerOK, Payload
  <2> QED BY <1>4, <2>1, <2>2, Zenon
<1>8. ASSUME NEW w \in Workers, RpcFailed(w) PROVE Goal
  <2> DEFINE x == [worker[w] EXCEPT !.pc = "finish", !.ok = FALSE,
                                  !.deltas = <<>>, !.min = <<>>]
  <2>1. worker' = [worker EXCEPT ![w] = x] /\ worker[w].pc \notin {"idle", "lookup", "exit", "offer"}
    BY <1>8, Zenon DEF RpcFailed
  <2>2. /\ x.pc \notin {"idle", "lookup", "exit"}
        /\ x.sub = worker[w].sub /\ x.reg = worker[w].reg
        /\ Payload(w, x)
    BY <1>0, Zenon DEF WorkerOK, Payload
  <2> QED BY <1>4, <2>1, <2>2, Zenon
<1>9. ASSUME NEW w \in Workers, RecordProcessed(w) PROVE Goal
  <2> DEFINE x == [worker[w] EXCEPT !.pc = "apply", !.deltas = <<>>]
  <2>1. worker' = [worker EXCEPT ![w] = x] /\ worker[w].pc \notin {"idle", "lookup", "exit", "offer"}
    BY <1>9, Zenon DEF RecordProcessed
  <2>2. /\ x.pc \notin {"idle", "lookup", "exit"}
        /\ x.sub = worker[w].sub /\ x.reg = worker[w].reg
        /\ Payload(w, x)
    BY <1>0, Zenon DEF WorkerOK, Payload
  <2> QED BY <1>4, <2>1, <2>2, Zenon
<1>10. ASSUME NEW w \in Workers, ApplyUpdates(w) PROVE Goal
  <2> DEFINE x == [worker[w] EXCEPT !.pc = "finish", !.resp = NoUpdate]
  <2>1. worker' = [worker EXCEPT ![w] = x] /\ worker[w].pc \notin {"idle", "lookup", "exit", "offer"}
    BY <1>10, Zenon DEF ApplyUpdates
  <2>2. /\ x.pc \notin {"idle", "lookup", "exit"}
        /\ x.sub = worker[w].sub /\ x.reg = worker[w].reg
        /\ Payload(w, x)
    BY <1>0, Zenon DEF WorkerOK, Payload
  <2> QED BY <1>4, <2>1, <2>2, Zenon
<1>11. ASSUME NEW w \in Workers, NEW resp \in Responses(worker[w].sub), RpcReturns(w, resp)
       PROVE  Goal
  <2> DEFINE x == [worker[w] EXCEPT !.pc = "setlast", !.resp = resp, !.min = <<>>]
  <2>1. worker' = [worker EXCEPT ![w] = x] /\ worker[w].pc \notin {"idle", "lookup", "exit", "offer"}
    BY <1>11, Zenon DEF RpcReturns
  <2>2. /\ x.pc \notin {"idle", "lookup", "exit"}
        /\ x.sub = worker[w].sub /\ x.reg = worker[w].reg
        /\ Payload(w, x)
    BY <1>0, <1>11, Zenon DEF WorkerOK, Payload
  <2> QED BY <1>4, <2>1, <2>2, Zenon
<1>12. ASSUME NEW w \in Workers, FinishOffer(w) PROVE Goal
  <2> DEFINE x == [worker[w] EXCEPT !.pc = "offer"]
  <2>1. /\ worker[w].pc \notin {"idle", "lookup", "exit", "offer"}
        /\ \/ worker' = [worker EXCEPT ![w] = x]
           \/ worker' = [worker EXCEPT ![w] = DoneWorker]
    BY <1>12, Zenon DEF FinishOffer
  <2>2. /\ x.pc \notin {"idle", "lookup", "exit"}
        /\ x.sub = worker[w].sub /\ x.reg = worker[w].reg
        /\ Payload(w, x)
    BY <1>0, Zenon DEF WorkerOK, Payload
  <2> QED BY <1>1, <1>4, <1>12, <2>1, <2>2, Zenon DEF Ends
<1>13. ASSUME NEW w \in Workers, FinishGone(w) \/ FinishFailed(w) \/ OfferWakes(w) PROVE Goal
  BY <1>1, <1>13, Zenon DEF FinishGone, FinishFailed, OfferWakes, Ends
<1>14. ASSUME NEW h \in Handlers, RegisterStep(h) PROVE UNCHANGED worker
  BY <1>14, Zenon DEF RegisterStep, RegisterInsert, RegisterCheckSize, RegisterOffer, RegisterErase
<1>15. ASSUME NEW h \in Handlers, NEW s \in SubscriberIds, RegisterCreateTopics(h, s)
       PROVE  UNCHANGED worker
  BY <1>15, Zenon DEF RegisterCreateTopics
<1>16. SetExitFlag \/ UNCHANGED ssvars => UNCHANGED worker
  BY Zenon DEF SetExitFlag, ssvars
<1> QED
  BY <1>2, <1>3, <1>5, <1>6, <1>7, <1>8, <1>9, <1>10, <1>11, <1>12, <1>13, <1>14,
     <1>15, <1>16
  DEF Next, WorkerStep, RpcEnds

\* A registration, once handed out, keeps its subscriber.
LEMMA RegsStable ==
    ASSUME Inv, [Next]_ssvars
    PROVE  /\ nextReg' >= nextReg
           /\ \A r \in RegIds : r < nextReg => regs'[r].sub = regs[r].sub
<1>0. RegsType /\ nextReg \in Nat
  BY DEF Inv, TypeOK, RegsType
<1>1. CASE UNCHANGED <<topics, subscribers, regs, nextReg, missed, subscriber_set>>
  BY <1>0, <1>1
<1>2. ASSUME NEW h \in Handlers, RegisterInsert(h)
      PROVE  nextReg' >= nextReg /\ \A r \in RegIds : r < nextReg => regs'[r] = regs[r]
  BY <1>0, <1>2 DEF RegisterInsert, RegsType, RegIds
<1>3. ASSUME NEW h \in Handlers, RegisterErase(h) PROVE UNCHANGED <<regs, nextReg>>
  BY <1>3, Zenon DEF RegisterErase
<1>4. ASSUME NEW w \in Workers, RecordProcessed(w) \/ ApplyUpdates(w)
      PROVE  nextReg' = nextReg /\ \A r \in RegIds : regs'[r].sub = regs[r].sub
  <2> DEFINE r == worker[w].reg
             resp == worker[w].resp
  <2>1. nextReg' = nextReg
    BY <1>4, Zenon DEF RecordProcessed, ApplyUpdates, WorkerUnchanged
  <2>2. \A q \in RegIds : regs[q] \in [sub : SubscriberIds \cup {NoSubscriber},
                                       last : [TopicIds -> Nat],
                                       transient : [TopicIds -> Nat]]
    BY <1>0, Zenon DEF RegsType
  <2>3. CASE RecordProcessed(w)
    <3>1. PICK l : regs' = [regs EXCEPT ![r].last = l]
      BY <2>3, Zenon DEF RecordProcessed
    <3> QED BY <1>0, <2>1, <2>2, <3>1, Zenon DEF RegsType
  <2>4. CASE ApplyUpdates(w)
    <3>1. \/ regs' = regs
          \/ \E l : regs' = [regs EXCEPT ![r].last = l]
          \/ \E l : regs' = [regs EXCEPT ![r].transient = l]
      BY <2>4, Zenon DEF ApplyUpdates
    <3>2. ASSUME NEW l, regs' = [regs EXCEPT ![r].last = l]
          PROVE  \A q \in RegIds : regs'[q].sub = regs[q].sub
      BY <1>0, <2>2, <3>2, Zenon DEF RegsType
    <3>3. ASSUME NEW l, regs' = [regs EXCEPT ![r].transient = l]
          PROVE  \A q \in RegIds : regs'[q].sub = regs[q].sub
      BY <1>0, <2>2, <3>3, Zenon DEF RegsType
    <3> QED BY <2>1, <3>1, <3>2, <3>3, Zenon
  <2> QED BY <1>4, <2>3, <2>4, Zenon
<1>5. ASSUME NEW w \in Workers, FinishFailed(w) \/ FinishOffer(w)
      PROVE  UNCHANGED <<regs, nextReg>>
  BY <1>5, Zenon DEF FinishFailed, FinishOffer, WorkerUnchanged
<1> QED BY <1>0, <1>1, <1>2, <1>3, <1>4, <1>5, WhoTouchesMaps

LEMMA HandlerMoves ==
    ASSUME Inv, [Next]_ssvars, NEW h \in Handlers
    PROVE  /\ handler'[h].pc # "idle" => handler'[h].sub \in SubscriberIds
           /\ handler'[h].pc \in {"check", "offer", "erase"} =>
                /\ handler'[h].reg \in RegIds
                /\ handler'[h].reg < nextReg'
                /\ regs'[handler'[h].reg].sub = handler'[h].sub
<1> DEFINE Goal == /\ handler'[h].pc # "idle" => handler'[h].sub \in SubscriberIds
                   /\ handler'[h].pc \in {"check", "offer", "erase"} =>
                        /\ handler'[h].reg \in RegIds
                        /\ handler'[h].reg < nextReg'
                        /\ regs'[handler'[h].reg].sub = handler'[h].sub
<1>0. /\ HandlersType /\ RegsType /\ nextReg \in Nat /\ nextReg' \in Nat
      /\ RegIds \subseteq Nat
      /\ handler[h].pc # "idle" => handler[h].sub \in SubscriberIds
      /\ handler[h].pc \in {"check", "offer", "erase"} =>
            /\ handler[h].reg \in RegIds
            /\ handler[h].reg < nextReg
            /\ regs[handler[h].reg].sub = handler[h].sub
  BY RegsTypeNext DEF Inv, TypeOK, ThreadsOK, RegsType, RegIds
<1>1. ASSUME handler'[h].sub = handler[h].sub, handler'[h].reg = handler[h].reg,
             handler[h].pc # "idle",
             handler'[h].pc \in {"check", "offer", "erase"} =>
                handler[h].pc \in {"check", "offer", "erase"}
      PROVE  Goal
  <2>1. handler[h].pc \in {"check", "offer", "erase"} =>
           /\ handler[h].reg \in RegIds
           /\ handler[h].reg < nextReg'
           /\ regs'[handler[h].reg].sub = handler[h].sub
    <3>1. \A r \in RegIds : r < nextReg => r < nextReg' /\ regs'[r].sub = regs[r].sub
      BY <1>0, RegsStable
    <3> QED BY <1>0, <3>1, Zenon
  <2>2. handler[h].sub \in SubscriberIds
    BY <1>0, <1>1, Zenon
  <2> QED BY <1>1, <2>1, <2>2, Zenon
<1>2. CASE handler'[h] = handler[h]
  <2>1. CASE handler[h].pc = "idle"
    BY <1>2, <2>1, Zenon
  <2>2. CASE handler[h].pc # "idle"
    BY <1>1, <1>2, <2>2, Zenon
  <2> QED BY <2>1, <2>2, Zenon
<1>3. ASSUME NEW g \in Handlers, NEW s \in SubscriberIds, RegisterCreateTopics(g, s) PROVE Goal
  <2> DEFINE x == [IdleHandler EXCEPT !.pc = "insert", !.sub = s]
  <2>1. x.sub = s /\ x.pc = "insert"
    BY Zenon DEF IdleHandler
  <2>2. handler' = [handler EXCEPT ![g] = x]
    BY <1>3, Zenon DEF RegisterCreateTopics
  <2> HIDE DEF x
  <2>3. handler'[h] = IF h = g THEN x ELSE handler[h]
    BY <1>0, <2>2, Zenon DEF HandlersType
  <2> QED BY <1>2, <2>1, <2>3, Zenon
<1>4. ASSUME NEW g \in Handlers, RegisterInsert(g) PROVE Goal
  <2>1. CASE h # g
    BY <1>0, <1>2, <1>4, <2>1, Zenon DEF RegisterInsert, HandlersType
  <2>2. CASE h = g
    <3>1. handler'[h] = [pc |-> "check", sub |-> handler[h].sub, reg |-> nextReg]
      BY <1>0, <1>4, <2>2, Zenon DEF RegisterInsert, HandlersType
    <3>2. nextReg \in RegIds /\ nextReg' = nextReg + 1 /\ handler[h].pc # "idle"
      BY <1>0, <1>4, <2>2 DEF RegisterInsert, RegsType, RegIds
    <3>3. regs'[nextReg] = NewSubscriber(handler[h].sub)
      BY <1>0, <1>4, <2>2, <3>2, Zenon DEF RegisterInsert, RegsType
    <3>4. regs'[nextReg].sub = handler[h].sub
      BY <3>3 DEF NewSubscriber
    <3> QED BY <1>0, <3>1, <3>2, <3>4
  <2> QED BY <2>1, <2>2, Zenon
<1>5. ASSUME NEW g \in Handlers, RegisterCheckSize(g) PROVE Goal
  <2>1. h # g => handler'[h] = handler[h]
    BY <1>0, <1>5, Zenon DEF RegisterCheckSize, HandlersType
  <2>2. h = g => /\ handler'[h].sub = handler[h].sub /\ handler'[h].reg = handler[h].reg
                 /\ handler[h].pc = "check"
    BY <1>0, <1>5, Zenon DEF RegisterCheckSize, HandlersType
  <2> QED BY <1>1, <1>2, <2>1, <2>2, Zenon
<1>6. ASSUME NEW g \in Handlers, RegisterOffer(g) PROVE Goal
  <2>1. h # g => handler'[h] = handler[h]
    BY <1>0, <1>6, Zenon DEF RegisterOffer, HandlersType
  <2>2. h = g => \/ handler'[h] = IdleHandler
                 \/ /\ handler'[h].sub = handler[h].sub /\ handler'[h].reg = handler[h].reg
                    /\ handler[h].pc = "offer"
    BY <1>0, <1>6 DEF RegisterOffer, HandlersType
  <2> QED BY <1>1, <1>2, <2>1, <2>2 DEF IdleHandler
<1>7. ASSUME NEW g \in Handlers, RegisterErase(g) PROVE Goal
  <2>1. h # g => handler'[h] = handler[h]
    BY <1>0, <1>7, Zenon DEF RegisterErase, HandlersType
  <2>2. h = g => \/ handler'[h] = IdleHandler
                 \/ /\ handler'[h].sub = handler[h].sub /\ handler'[h].pc = "dcheck"
                    /\ handler[h].pc = "erase"
    BY <1>0, <1>7, Zenon DEF RegisterErase, HandlersType
  <2> QED BY <1>0, <1>2, <2>1, <2>2 DEF IdleHandler
<1>8. ASSUME NEW w \in Workers, WorkerStep(w) \/ RpcTransportError(w) \/ RpcEnds(w)
      PROVE  UNCHANGED handler
  BY <1>8, Zenon DEF WorkerStep, Dequeue, Lookup, GatherDeltas, GatherMinVersions,
     RecordProcessed, ApplyUpdates, FinishGone, FinishFailed, FinishOffer, OfferWakes,
     RpcTransportError, RpcEnds, RpcFailed, RpcReturns, WorkerUnchanged
<1>9. SetExitFlag \/ UNCHANGED ssvars => UNCHANGED handler
  BY Zenon DEF SetExitFlag, ssvars
<1> QED BY <1>2, <1>3, <1>4, <1>5, <1>6, <1>7, <1>8, <1>9, Zenon DEF Next, RegisterStep

LEMMA ThreadsNext == ASSUME Inv, [Next]_ssvars PROVE ThreadsOK'
<1> SUFFICES ASSUME NEW v \in Workers
             PROVE  /\ worker'[v].pc \notin {"idle", "exit"} => worker'[v].sub \in SubscriberIds
                    /\ HasReg(v)' => /\ worker'[v].reg \in RegIds
                                     /\ worker'[v].reg < nextReg'
                                     /\ regs'[worker'[v].reg].sub = worker'[v].sub
                    /\ ~ HasReg(v)' => worker'[v].reg = NoReg
                    /\ worker'[v].resp.kind = "reset" =>
                          worker'[v].resp.from_version
                            <= topics'[worker'[v].resp.topic].last_version
  BY HandlerMoves, Zenon DEF ThreadsOK
<1>0. /\ nextReg \in Nat /\ nextReg' \in Nat
      /\ \A r \in RegIds : r \in Nat
      /\ \A t \in TopicIds : topics[t].last_version \in Nat /\ topics'[t].last_version \in Nat
  BY TypeNext, SMTT(40) DEF Inv, TypeOK, RegsType, TopicsType, Topic, RegIds
<1>1. /\ worker[v].pc \notin {"idle", "exit"} => worker[v].sub \in SubscriberIds
      /\ HasReg(v) => /\ worker[v].reg \in RegIds
                      /\ worker[v].reg < nextReg
                      /\ regs[worker[v].reg].sub = worker[v].sub
      /\ ~ HasReg(v) => worker[v].reg = NoReg
      /\ worker[v].resp.kind = "reset" =>
            worker[v].resp.from_version <= topics[worker[v].resp.topic].last_version
  BY Zenon DEF Inv, ThreadsOK
<1>2. ASSUME NEW resp, IsResponse(resp),
             resp.kind = "reset" => resp.from_version <= topics[resp.topic].last_version
      PROVE  resp.kind = "reset" => resp.from_version <= topics'[resp.topic].last_version
  <2>1. resp.kind = "reset" => resp.topic \in TopicIds /\ resp.from_version \in Nat
    BY <1>2, NoUpdateKind, Zenon DEF IsResponse
  <2> QED BY <1>0, <1>2, <2>1, TopicsNext
<1>3. IsResponse(worker[v].resp)
  BY Zenon DEF Inv, TypeOK, WorkersType, WorkerOK
<1>4. CASE worker'[v] = worker[v]
  BY <1>0, <1>1, <1>2, <1>3, <1>4, RegsStable DEF HasReg
<1>5. CASE worker'[v] = DoneWorker
  BY <1>5, DoneWorkerFields, NoUpdateKind, Zenon DEF HasReg
<1>6. CASE TakesItem(v)
  <2>1. Head(queue) \in SubscriberIds
    BY <1>6 DEF TakesItem, Inv, TypeOK
  <2> QED BY <1>6, <2>1, NoUpdateKind, Zenon DEF TakesItem, HasReg
<1>7. CASE FindsReg(v)
  <2> DEFINE s == worker[v].sub
  <2>1. s \in SubscriberIds /\ subscribers[s] \in RegIds
    BY <1>1, <1>7, Zenon DEF FindsReg, Inv, TypeOK, RegsType
  <2>2. subscribers[s] < nextReg /\ regs[subscribers[s]].sub = s
    BY <1>7, <2>1, Zenon DEF FindsReg, Inv, RegisteredIsTracked
  <2>3. worker'[v].reg \in RegIds /\ worker'[v].reg < nextReg' /\ worker'[v].sub = s
    BY <1>0, <1>7, <2>1, <2>2, RegsStable DEF FindsReg
  <2>4. regs'[worker'[v].reg].sub = s
    BY <1>7, <2>1, <2>2, RegsStable, Zenon DEF FindsReg
  <2> QED BY <1>1, <1>2, <1>3, <1>7, <2>1, <2>3, <2>4, Zenon DEF FindsReg, HasReg
<1>8. CASE SameReg(v)
  <2>1. worker[v].sub \in SubscriberIds
    BY <1>1, <1>8, Zenon DEF SameReg, HasReg
  <2>2. /\ worker'[v].reg \in RegIds /\ worker'[v].reg < nextReg'
        /\ regs'[worker'[v].reg].sub = worker'[v].sub
    BY <1>0, <1>1, <1>8, RegsStable DEF SameReg
  <2>3. worker'[v].resp.kind = "reset" =>
           worker'[v].resp.from_version <= topics[worker'[v].resp.topic].last_version
    BY <1>1, <1>8, <2>1, ResponseType, NoUpdateKind, Zenon DEF SameReg, Payload
  <2>4. IsResponse(worker'[v].resp)
    BY <1>3, <1>8, <2>1, ResponseType, NoUpdateKind, Zenon DEF SameReg, Payload
  <2> QED BY <1>2, <1>8, <2>1, <2>2, <2>3, <2>4, Zenon DEF SameReg, HasReg
<1> QED BY <1>4, <1>5, <1>6, <1>7, <1>8, WorkerMoves, Zenon

-------------------------------------------------------------------------------
(* The safety properties, one step per action that can disturb them. *)

LEMMA TrackedNext == ASSUME Inv, [Next]_ssvars PROVE RegisteredIsTracked'
<1>0. RegsType /\ RegisteredIsTracked /\ MaxMissed \in Nat
  BY StatestoreAssumption, Zenon DEF Inv, TypeOK
<1>1. CASE UNCHANGED <<topics, subscribers, regs, nextReg, missed, subscriber_set>>
  BY <1>0, <1>1, Zenon DEF RegisteredIsTracked
<1>2. ASSUME NEW h \in Handlers, RegisterInsert(h) PROVE RegisteredIsTracked'
  <2> DEFINE s == handler[h].sub
             old == subscribers[s]
  <2>1. s \in SubscriberIds /\ nextReg \in RegIds /\ nextReg \in Nat
    BY <1>2 DEF RegisterInsert, Inv, ThreadsOK, TypeOK, RegsType, RegIds
  <2>2. \A q \in SubscriberIds : subscribers'[q] = IF q = s THEN nextReg ELSE subscribers[q]
    BY <1>0, <1>2, <2>1, Zenon DEF RegisterInsert, RegsType
  <2>3. regs'[nextReg].sub = s /\ missed'[nextReg] = 0 /\ nextReg' = nextReg + 1
    <3>1. nextReg' = nextReg + 1
      BY <1>2, Zenon DEF RegisterInsert
    <3>3. missed' = [r \in RegIds |-> CASE r = nextReg -> 0
                                        [] r = old -> Untracked
                                        [] OTHER -> missed[r]]
      BY <1>2, Zenon DEF RegisterInsert
    <3>4. missed'[nextReg] = 0
      <4>1. CASE nextReg # old
        BY <2>1, <3>3, <4>1, Zenon
      <4>2. CASE nextReg = old
        BY <1>0, <2>1, <4>2 DEF RegisteredIsTracked, NoReg, RegIds
      <4> QED BY <4>1, <4>2, Zenon
    <3>2. regs'[nextReg] = NewSubscriber(s)
      BY <1>0, <1>2, <2>1, Zenon DEF RegisterInsert, RegsType
    <3> QED BY <3>1, <3>2, <3>4 DEF NewSubscriber
  <2>4. ASSUME NEW q \in SubscriberIds, q # s, subscribers[q] # NoReg
        PROVE  /\ subscribers[q] < nextReg'
               /\ regs'[subscribers[q]].sub = q
               /\ missed'[subscribers[q]] \in 0 .. MaxMissed
    <3> DEFINE r == subscribers[q]
    <3>1. r \in RegIds /\ r \in Nat /\ r < nextReg /\ regs[r].sub = q
          /\ missed[r] \in 0 .. MaxMissed
      BY <1>0, <2>4 DEF RegsType, RegisteredIsTracked, RegIds
    <3>2. r # old
      <4>1. old # NoReg => regs[old].sub = s
        BY <1>0, <2>1, Zenon DEF RegisteredIsTracked
      <4> QED BY <2>4, <3>1, <4>1, Zenon
    <3>3. missed'[r] = missed[r] /\ regs'[r] = regs[r]
      BY <1>0, <1>2, <2>1, <3>1, <3>2 DEF RegisterInsert, RegsType
    <3> QED BY <2>1, <2>3, <3>1, <3>3
  <2> QED BY <1>0, <2>1, <2>2, <2>3, <2>4 DEF RegisteredIsTracked
<1>3. ASSUME NEW h \in Handlers, RegisterErase(h) PROVE RegisteredIsTracked'
  <2>1. \A q \in SubscriberIds : subscribers'[q] # NoReg => subscribers'[q] = subscribers[q]
    BY <1>0, <1>3, Zenon DEF RegisterErase, RegsType
  <2> QED BY <1>0, <1>3, <2>1, Zenon DEF RegisterErase, RegisteredIsTracked
<1>4. ASSUME NEW w \in Workers, RecordProcessed(w) \/ ApplyUpdates(w)
      PROVE  RegisteredIsTracked'
  <2>1. UNCHANGED <<subscribers, missed, nextReg>>
    BY <1>4, Zenon DEF RecordProcessed, ApplyUpdates, WorkerUnchanged
  <2>2. \A q \in SubscriberIds : subscribers[q] # NoReg => subscribers[q] \in RegIds
    BY <1>0, Zenon DEF RegsType
  <2> QED BY <1>0, <2>1, <2>2, RegsStable, Zenon DEF RegisteredIsTracked
<1>5. ASSUME NEW w \in Workers, FinishOffer(w) PROVE RegisteredIsTracked'
  <2> DEFINE r == worker[w].reg
             m == UpdateHeartbeat(r, worker[w].ok)
  <2>1. r \in RegIds
    BY <1>5, Zenon DEF FinishOffer, Inv, ThreadsOK, HasReg
  <2>2. m[r] \in Nat /\ (\A q \in RegIds : q # r => m[q] = missed[q])
    BY <2>1, UpdateHeartbeatType
  <2>3. missed' = m /\ ~ (m[r] > MaxMissed) /\ UNCHANGED <<subscribers, regs, nextReg>>
    BY <1>5, Zenon DEF FinishOffer, Failed, WorkerUnchanged
  <2> HIDE DEF m
  <2>4. \A q \in RegIds : missed[q] \in 0 .. MaxMissed => missed'[q] \in 0 .. MaxMissed
    BY <1>0, <2>1, <2>2, <2>3
  <2>5. \A q \in SubscriberIds : subscribers[q] # NoReg => subscribers[q] \in RegIds
    BY <1>0 DEF RegsType
  <2> QED BY <1>0, <2>3, <2>4, <2>5, Zenon DEF RegisteredIsTracked
<1>6. ASSUME NEW w \in Workers, FinishFailed(w) PROVE RegisteredIsTracked'
  <2> DEFINE r == worker[w].reg
             m == UpdateHeartbeat(r, worker[w].ok)
  <2>1. r \in RegIds /\ r # NoReg /\ regs[r].sub \in SubscriberIds
    BY <1>6 DEF FinishFailed, Inv, ThreadsOK, HasReg, RegIds, NoReg
  <2>2. m \in [RegIds -> Nat \cup {Untracked}] /\ (\A q \in RegIds : q # r => m[q] = missed[q])
    BY <2>1, UpdateHeartbeatType, Zenon
  <2>3. UNCHANGED <<regs, nextReg>>
    BY <1>6, Zenon DEF FinishFailed, WorkerUnchanged
  <2> HIDE DEF m
  <2>4. \A q \in RegIds : q # r => missed'[q] = missed[q]
    BY <1>6, <2>1, <2>2, Zenon DEF FinishFailed, UnregisterSubscriber, m
  <2>5. \A q \in SubscriberIds : subscribers'[q] # NoReg => subscribers'[q] = subscribers[q]
    BY <1>0, <1>6, Zenon DEF FinishFailed, UnregisterSubscriber, RegsType
  <2>6. \A q \in SubscriberIds : subscribers'[q] # r
    <3> SUFFICES ASSUME NEW q \in SubscriberIds, subscribers'[q] = r PROVE FALSE
      BY Zenon
    <3>1. subscribers[q] = r /\ regs[r].sub = q
      BY <1>0, <2>1, <2>5, Zenon DEF RegisteredIsTracked
    <3>2. subscribers' = [subscribers EXCEPT ![q] = NoReg]
      BY <1>6, <2>1, <3>1, Zenon DEF FinishFailed, UnregisterSubscriber, Registered
    <3> QED BY <1>0, <2>1, <3>2, Zenon DEF RegsType
  <2>7. \A q \in SubscriberIds : subscribers[q] # NoReg => subscribers[q] \in RegIds
    BY <1>0 DEF RegsType
  <2> QED BY <1>0, <2>3, <2>4, <2>5, <2>6, <2>7 DEF RegisteredIsTracked
<1> QED BY <1>1, <1>2, <1>3, <1>4, <1>5, <1>6, WhoTouchesMaps, Zenon

\* How a step changes what is recorded for a registration.
LEMMA RegMoves ==
    ASSUME Inv, [Next]_ssvars, NEW r \in RegIds, NEW t \in TopicIds
    PROVE  /\ regs'[r].last[t] <= topics'[t].last_version
           /\ \/ regs'[r].transient[t] = regs[r].transient[t]
              \/ regs'[r].transient[t] = 0
              \/ /\ regs'[r].transient[t] = topics'[t].last_version
                 /\ topics'[t].last_version = topics[t].last_version + 1
                 /\ \A q \in RegIds : q # r => regs'[q] = regs[q]
<1>0. /\ RegsType /\ VersionsBounded
      /\ topics[t].last_version \in Nat /\ topics'[t].last_version \in Nat
      /\ topics'[t].last_version >= topics[t].last_version
      /\ regs[r].last[t] \in Nat /\ regs'[r].last[t] \in Nat
  <2>1. TypeOK /\ TypeOK' /\ VersionsBounded
    BY TypeNext, Zenon DEF Inv
  <2>2. topics[t] \in Topic /\ topics'[t] \in Topic
    BY <2>1, Zenon DEF TypeOK, TopicsType
  <2>3. topics[t].last_version \in Nat /\ topics'[t].last_version \in Nat
    BY <2>2, Zenon DEF Topic
  <2>4. regs[r].last[t] \in Nat /\ regs'[r].last[t] \in Nat
    BY <2>1 DEF TypeOK, RegsType
  <2> QED BY <2>1, <2>3, <2>4, TopicsNext, Zenon DEF TypeOK
<1>1. regs[r].last[t] <= topics[t].last_version
  BY <1>0, Zenon DEF VersionsBounded
<1>2. CASE regs'[r] = regs[r]
  BY <1>0, <1>1, <1>2
<1>3. ASSUME NEW h \in Handlers, RegisterInsert(h)
      PROVE  regs'[r] = regs[r] \/ (regs'[r].last[t] = 0 /\ regs'[r].transient[t] = 0)
  <2>1. regs' = [regs EXCEPT ![nextReg] = NewSubscriber(handler[h].sub)]
    BY <1>3, Zenon DEF RegisterInsert
  <2>2. regs'[r] = regs[r] \/ regs'[r] = NewSubscriber(handler[h].sub)
    BY <1>0, <2>1, Zenon DEF RegsType
  <2> QED BY <2>2 DEF NewSubscriber, TOPIC_INITIAL_VERSION
<1>4. ASSUME NEW h \in Handlers, RegisterErase(h) PROVE regs' = regs
  BY <1>4, Zenon DEF RegisterErase
<1>5. ASSUME NEW w \in Workers, FinishOffer(w) \/ FinishFailed(w) PROVE regs' = regs
  BY <1>5, Zenon DEF FinishOffer, FinishFailed
<1>6. ASSUME NEW w \in Workers, RecordProcessed(w)
      PROVE  /\ regs'[r].last[t] <= topics'[t].last_version
             /\ regs'[r].transient[t] = regs[r].transient[t]
  <2> DEFINE d == worker[w].deltas
             l == [u \in TopicIds |-> IF u \in DOMAIN d THEN d[u].to_version
                                      ELSE regs[worker[w].reg].last[u]]
  <2>1. regs' = [regs EXCEPT ![worker[w].reg].last = l] /\ topics' = topics
    BY <1>6, Zenon DEF RecordProcessed
  <2>2. t \in DOMAIN d => d[t].to_version <= topics[t].last_version
    BY <1>0, Zenon DEF VersionsBounded
  <2>3. r = worker[w].reg => l[t] <= topics[t].last_version
    BY <1>1, <2>2, Zenon
  <2> HIDE DEF l
  <2>4. regs[r] \in [sub : SubscriberIds \cup {NoSubscriber},
                     last : [TopicIds -> Nat], transient : [TopicIds -> Nat]]
    BY <1>0, Zenon DEF RegsType
  <2>5. /\ regs'[r].transient = regs[r].transient
        /\ regs'[r].last = IF r = worker[w].reg THEN l ELSE regs[r].last
    BY <1>0, <2>1, <2>4, Zenon DEF RegsType
  <2> QED BY <1>1, <2>1, <2>3, <2>5, Zenon
<1>7. ASSUME NEW w \in Workers, ApplyUpdates(w)
      PROVE  /\ regs'[r].last[t] <= topics'[t].last_version
             /\ \/ regs'[r].transient[t] = regs[r].transient[t]
                \/ /\ regs'[r].transient[t] = topics'[t].last_version
                   /\ topics'[t].last_version = topics[t].last_version + 1
                   /\ \A q \in RegIds : q # r => regs'[q] = regs[q]
  <2> DEFINE p == worker[w].reg
             resp == worker[w].resp
  <2>1. IsResponse(resp)
    BY Zenon DEF Inv, TypeOK, WorkersType, WorkerOK
  <2>2. \A q \in RegIds : regs[q] \in [sub : SubscriberIds \cup {NoSubscriber},
                                       last : [TopicIds -> Nat],
                                       transient : [TopicIds -> Nat]]
    BY <1>0, Zenon DEF RegsType
  <2>3. CASE regs' = regs
    BY <1>2, <2>3, Zenon
  <2>4. CASE /\ resp.kind = "reset"
             /\ regs' = [regs EXCEPT ![p].last[resp.topic] = resp.from_version]
             /\ topics' = topics
    <3>1. resp.from_version <= topics[resp.topic].last_version
      BY <2>4, Zenon DEF Inv, ThreadsOK
    <3>2. resp.topic \in TopicIds
      BY <2>1, <2>4, NoUpdateKind, Zenon DEF IsResponse
    <3>3. /\ regs'[r].transient = regs[r].transient
          /\ regs'[r].last = IF r = p THEN [regs[r].last EXCEPT ![resp.topic] = resp.from_version]
                             ELSE regs[r].last
      BY <1>0, <2>2, <2>4, Zenon DEF RegsType
    <3>4. regs'[r].last[t] = regs[r].last[t]
            \/ (t = resp.topic /\ regs'[r].last[t] = resp.from_version)
      BY <2>2, <3>2, <3>3, Zenon
    <3> QED BY <1>1, <2>4, <3>1, <3>3, <3>4, Zenon
  <2>5. CASE /\ resp.kind = "put"
             /\ topics' = [topics EXCEPT ![resp.topic] = Put(@, resp.key, resp.value)]
             /\ regs' = [regs EXCEPT ![p].transient[resp.topic] =
                                        topics'[resp.topic].last_version]
    <3>1. resp.topic \in TopicIds /\ resp.key \in Keys /\ resp.value \in EntryValue
      BY <2>1, <2>5, NoUpdateKind, Zenon DEF IsResponse
    <3>2. topics'[resp.topic] = Put(topics[resp.topic], resp.key, resp.value)
      BY <2>5, <3>1, Zenon DEF Inv, TypeOK, TopicsType
    <3>3. topics'[resp.topic].last_version = topics[resp.topic].last_version + 1
      BY <3>1, <3>2, PutOK, SMTT(40) DEF Inv, TopicsOK
    <3>4. /\ regs'[r].last = regs[r].last
          /\ regs'[r].transient =
                IF r = p THEN [regs[r].transient EXCEPT ![resp.topic] =
                                                 topics'[resp.topic].last_version]
                ELSE regs[r].transient
      BY <1>0, <2>2, <2>5, SMTT(40) DEF RegsType
    <3>5. \A q \in RegIds : q # p => regs'[q] = regs[q]
      BY <1>0, <2>5, Zenon DEF RegsType
    <3>6. \/ regs'[r].transient[t] = regs[r].transient[t]
          \/ t = resp.topic /\ r = p /\ regs'[r].transient[t] = topics'[t].last_version
      BY <2>2, <3>1, <3>4
    <3> QED BY <1>0, <1>1, <3>3, <3>4, <3>5, <3>6
  <2> QED BY <1>7, <2>3, <2>4, <2>5, Zenon DEF ApplyUpdates
<1>8. CASE UNCHANGED <<topics, subscribers, regs, nextReg, missed, subscriber_set>>
  BY <1>2, <1>8, Zenon
<1>9. CASE regs'[r].last[t] = 0 /\ regs'[r].transient[t] = 0
  BY <1>0, <1>9
<1> QED BY <1>2, <1>3, <1>4, <1>5, <1>6, <1>7, <1>8, <1>9, WhoTouchesMaps

LEMMA TransientNext == ASSUME Inv, [Next]_ssvars PROVE TransientVersionsUnique'
<1> SUFFICES ASSUME NEW q \in RegIds, NEW r \in RegIds, NEW t \in TopicIds, q # r,
                    regs'[q].transient[t] = regs'[r].transient[t]
             PROVE  regs'[q].transient[t] = 0
  BY Zenon DEF TransientVersionsUnique
<1>1. /\ topics[t].last_version \in Nat
      /\ \A p \in RegIds : /\ regs[p].transient[t] \in Nat
                           /\ regs[p].transient[t] <= topics[t].last_version
  BY Zenon DEF Inv, TypeOK, TopicsType, Topic, RegsType, VersionsBounded
<1>2. regs[q].transient[t] = regs[r].transient[t] => regs[q].transient[t] = 0
  BY Zenon DEF Inv, TransientVersionsUnique
<1> DEFINE Move(p) == \/ regs'[p].transient[t] = regs[p].transient[t]
                      \/ regs'[p].transient[t] = 0
                      \/ /\ regs'[p].transient[t] = topics'[t].last_version
                         /\ topics'[t].last_version = topics[t].last_version + 1
                         /\ \A o \in RegIds : o # p => regs'[o] = regs[o]
<1>3. Move(q) /\ Move(r)
  BY RegMoves, Zenon
<1> QED BY <1>1, <1>2, <1>3

LEMMA BoundedNext == ASSUME Inv, [Next]_ssvars PROVE VersionsBounded'
<1> SUFFICES ASSUME NEW t \in TopicIds
             PROVE  /\ \A r \in RegIds : /\ regs'[r].last[t] <= topics'[t].last_version
                                         /\ regs'[r].transient[t] <= topics'[t].last_version
                    /\ \A v \in Workers :
                          /\ t \in DOMAIN worker'[v].deltas =>
                                worker'[v].deltas[t].to_version <= topics'[t].last_version
                          /\ t \in DOMAIN worker'[v].min =>
                                worker'[v].min[t] <= topics'[t].last_version
  BY Zenon DEF VersionsBounded
<1>0. /\ topics[t].last_version \in Nat /\ topics'[t].last_version \in Nat
      /\ topics'[t].last_version >= topics[t].last_version
  <2>1. topics[t] \in Topic /\ topics'[t] \in Topic
    BY TypeNext, Zenon DEF Inv, TypeOK, TopicsType
  <2> QED BY <2>1, TopicsNext, Zenon DEF Topic
<1>1. ASSUME NEW r \in RegIds
      PROVE  /\ regs'[r].last[t] <= topics'[t].last_version
             /\ regs'[r].transient[t] <= topics'[t].last_version
  <2>1. regs[r].transient[t] \in Nat /\ regs[r].transient[t] <= topics[t].last_version
    BY Zenon DEF Inv, TypeOK, RegsType, VersionsBounded
  <2> QED BY <1>0, <2>1, RegMoves
<1>2. ASSUME NEW v \in Workers
      PROVE  /\ t \in DOMAIN worker'[v].deltas =>
                   worker'[v].deltas[t].to_version <= topics'[t].last_version
             /\ t \in DOMAIN worker'[v].min =>
                   worker'[v].min[t] <= topics'[t].last_version
  <2> DEFINE Below(x) == /\ t \in DOMAIN x.deltas =>
                               x.deltas[t].to_version <= topics'[t].last_version
                         /\ t \in DOMAIN x.min => x.min[t] <= topics'[t].last_version
  <2>0. WorkerOK(worker[v]) /\ DOMAIN <<>> = {}
    BY DEF Inv, TypeOK, WorkersType
  <2>1. /\ t \in DOMAIN worker[v].deltas =>
              /\ worker[v].deltas[t].to_version \in Nat
              /\ worker[v].deltas[t].to_version <= topics[t].last_version
        /\ t \in DOMAIN worker[v].min => /\ worker[v].min[t] \in Nat
                                         /\ worker[v].min[t] <= topics[t].last_version
    BY <2>0, Zenon DEF Inv, VersionsBounded, WorkerOK, IsDelta
  <2>2. Below(worker[v])
    BY <1>0, <2>1
  <2>3. CASE worker'[v] = worker[v] \/ FindsReg(v)
    BY <2>2, <2>3, Zenon DEF FindsReg
  <2>4. CASE worker'[v] = DoneWorker \/ TakesItem(v)
    BY <2>0, <2>4, DoneWorkerFields, Zenon DEF TakesItem
  <2>5. CASE SameReg(v)
    <3>1. worker[v].reg \in RegIds /\ regs[worker[v].reg].sub \in SubscriberIds
      BY <2>5, Zenon DEF SameReg, Inv, ThreadsOK, HasReg
    <3>2. regs[worker[v].reg].last[t] \in Nat
      BY <3>1 DEF Inv, TypeOK, RegsType
    <3>3. TopicDelta(topics[t], regs[worker[v].reg].last[t]).to_version
            = topics[t].last_version
      BY <3>2, DeltaType, Zenon DEF Inv, TopicsOK
    <3>4. t \in DOMAIN worker'[v].deltas =>
             worker'[v].deltas[t].to_version <= topics'[t].last_version
      BY <1>0, <2>0, <2>2, <2>5, <3>3, Zenon DEF SameReg, Payload
    <3>5. t \in DOMAIN worker'[v].min => worker'[v].min[t] <= topics'[t].last_version
      <4>1. \/ worker'[v].min = worker[v].min
            \/ t \in DOMAIN worker'[v].min =>
                  worker'[v].min[t] = MinSubscriberTopicVersion(t)
        BY <2>0, <2>5, Zenon DEF SameReg, Payload
      <4>2. CASE worker'[v].min = worker[v].min
        BY <2>2, <4>2, Zenon
      <4>3. MinSubscriberTopicVersion(t) <= topics'[t].last_version
        BY <1>0, MinVersionBounded
      <4> QED BY <4>1, <4>2, <4>3, Zenon
    <3> QED BY <3>4, <3>5, Zenon
  <2> QED BY <2>3, <2>4, <2>5, WorkerMoves, Zenon
<1> QED BY <1>1, <1>2, Zenon

-------------------------------------------------------------------------------
(* No registered subscriber is lost. *)

\* The three places that keep the heartbeats of subscriber s going.
InQueue(s) == \E i \in 1 .. Len(queue) : queue[i] = s
WithWorker(s) == \E w \in Workers : /\ worker[w].sub = s
                                    /\ \/ worker[w].pc \in {"lookup", "offer"}
                                       \/ worker[w].reg = subscribers[s]
WithHandler(s) == \E h \in Handlers : /\ handler[h].pc \in {"check", "offer", "erase"}
                                      /\ handler[h].reg = subscribers[s]

\* A queued id stays queued, or a worker takes it.
LEMMA QueueKeeps ==
    ASSUME Inv, [Next]_ssvars, NEW s \in SubscriberIds, InQueue(s)
    PROVE  InQueue(s)' \/ WithWorker(s)'
<1>0. queue \in Seq(SubscriberIds) /\ WorkersType /\ HandlersType
  BY Zenon DEF Inv, TypeOK
<1>1. ASSUME NEW x, queue' = Append(queue, x) PROVE InQueue(s)'
  <2>1. PICK i \in 1 .. Len(queue) : queue[i] = s
    BY Zenon DEF InQueue
  <2>2. i \in 1 .. Len(queue') /\ queue'[i] = s
    BY <1>0, <1>1, <2>1
  <2> QED BY <2>2, Zenon DEF InQueue
<1>2. ASSUME NEW w \in Workers, Dequeue(w) PROVE InQueue(s)' \/ WithWorker(s)'
  <2> DEFINE x == [IdleWorker EXCEPT !.pc = "lookup", !.sub = Head(queue)]
  <2>1. queue # <<>> /\ queue' = Tail(queue) /\ worker' = [worker EXCEPT ![w] = x]
    BY <1>2, Zenon DEF Dequeue
  <2>2. x.pc = "lookup" /\ x.sub = Head(queue)
    BY Zenon DEF IdleWorker
  <2> HIDE DEF x
  <2>3. worker'[w].pc = "lookup" /\ worker'[w].sub = Head(queue)
    BY <1>0, <2>1, <2>2, Zenon DEF WorkersType
  <2>4. PICK i \in 1 .. Len(queue) : queue[i] = s
    BY Zenon DEF InQueue
  <2>5. CASE i = 1
    BY <1>0, <2>1, <2>3, <2>4, <2>5 DEF WithWorker
  <2>6. CASE i # 1
    <3>1. i - 1 \in 1 .. Len(queue') /\ queue'[i - 1] = s
      BY <1>0, <2>1, <2>4, <2>6
    <3> QED BY <3>1, Zenon DEF InQueue
  <2> QED BY <2>5, <2>6, Zenon
<1>3. CASE UNCHANGED queue
  BY <1>3, Zenon DEF InQueue
<1>4. ASSUME NEW h \in Handlers, RegisterStep(h)
      PROVE  queue' = queue \/ \E x : queue' = Append(queue, x)
  BY <1>4, Zenon DEF RegisterStep, RegisterInsert, RegisterCheckSize, RegisterOffer, RegisterErase
<1>5. ASSUME NEW h \in Handlers, NEW q \in SubscriberIds, RegisterCreateTopics(h, q)
      PROVE  queue' = queue
  BY <1>5, Zenon DEF RegisterCreateTopics
<1>6. ASSUME NEW w \in Workers, WorkerStep(w) \/ RpcTransportError(w) \/ RpcEnds(w)
      PROVE  \/ queue' = queue
             \/ Dequeue(w)
             \/ \E x : queue' = Append(queue, x)
  BY <1>6, Zenon DEF WorkerStep, Lookup, GatherDeltas, GatherMinVersions, RecordProcessed,
     ApplyUpdates, FinishGone, FinishFailed, FinishOffer, OfferWakes, RpcTransportError,
     RpcEnds, RpcFailed, RpcReturns
<1>7. SetExitFlag \/ UNCHANGED ssvars => queue' = queue
  BY Zenon DEF SetExitFlag, ssvars
<1> QED BY <1>1, <1>2, <1>3, <1>4, <1>5, <1>6, <1>7, Zenon DEF Next

\* A worker that carries the id keeps it, or puts it on the queue.
LEMMA WorkerKeeps ==
    ASSUME Inv, [Next]_ssvars, NEW s \in SubscriberIds, WithWorker(s), ~ shutdown,
           subscribers[s] # NoReg, subscribers'[s] = subscribers[s]
    PROVE  InQueue(s)' \/ WithWorker(s)'
<1>0. queue \in Seq(SubscriberIds) /\ RegsType
  BY Zenon DEF Inv, TypeOK
<1>1. PICK w \in Workers : /\ worker[w].sub = s
                           /\ \/ worker[w].pc \in {"lookup", "offer"}
                              \/ worker[w].reg = subscribers[s]
  BY Zenon DEF WithWorker
<1>2. worker[w].pc \notin {"idle", "exit"}
  BY <1>1, Zenon DEF Inv, ThreadsOK, HasReg
<1>3. CASE worker'[w] = worker[w]
  BY <1>1, <1>3, Zenon DEF WithWorker
<1>4. CASE TakesItem(w)
  BY <1>2, <1>4, Zenon DEF TakesItem
<1>5. CASE FindsReg(w)
  BY <1>1, <1>5, Zenon DEF FindsReg, WithWorker
<1>6. CASE SameReg(w)
  BY <1>1, <1>6, Zenon DEF SameReg, HasReg, WithWorker
<1>7. ASSUME worker'[w] = DoneWorker, NEW v \in Workers, v = w, Ends(v)
      PROVE  InQueue(s)' \/ WithWorker(s)'
  <2>1. ASSUME queue' = Append(queue, s) PROVE InQueue(s)'
    <3>1. Len(queue') \in 1 .. Len(queue') /\ queue'[Len(queue')] = s
      BY <1>0, <2>1
    <3> QED BY <3>1, Zenon DEF InQueue
  <2>2. ~ FinishGone(v) /\ subscribers[worker[v].sub] # NoReg
    BY <1>1, <1>7, Zenon DEF FinishGone
  <2>3. ~ FinishFailed(v)
    <3> SUFFICES ASSUME FinishFailed(v) PROVE FALSE
      BY Zenon
    <3>1. worker[v].reg = subscribers[s] /\ regs[worker[v].reg].sub = s
      BY <1>1, <1>7, Zenon DEF FinishFailed, Inv, ThreadsOK, HasReg
    <3>2. subscribers' = [subscribers EXCEPT ![s] = NoReg]
      BY <3>1, Zenon DEF FinishFailed, UnregisterSubscriber, Registered
    <3> QED BY <1>0, <3>2, Zenon DEF RegsType
  <2>4. CASE OfferWakes(v)
    BY <1>1, <1>7, <2>1, <2>4, Zenon DEF OfferWakes
  <2>5. CASE FinishOffer(v)
    <3>1. worker'[v].pc # "offer"
      BY <1>7, DoneWorkerFields, Zenon
    <3>2. \/ queue' = Append(queue, worker[v].sub)
          \/ worker' = [worker EXCEPT ![v].pc = "offer"]
      BY <2>5, Zenon DEF FinishOffer
    <3>3. CASE worker' = [worker EXCEPT ![v].pc = "offer"]
      <4>1. worker'[v].pc = "offer"
        <5> DEFINE x == [worker[v] EXCEPT !.pc = "offer"]
        <5>1. worker' = [worker EXCEPT ![v] = x]
          BY <3>3, Zenon
        <5>2. x.pc = "offer"
          BY Zenon DEF Inv, TypeOK, WorkersType, WorkerOK
        <5> HIDE DEF x
        <5>3. WorkersType
          BY Zenon DEF Inv, TypeOK
        <5> QED BY <5>1, <5>2, <5>3, Zenon DEF WorkersType
      <4> QED BY <3>1, <4>1, Zenon
    <3> QED BY <1>1, <1>7, <2>1, <3>2, <3>3, Zenon
  <2> QED BY <1>7, <2>2, <2>3, <2>4, <2>5, Zenon DEF Ends
<1> QED BY <1>3, <1>4, <1>5, <1>6, <1>7, WorkerMoves, Zenon

\* So does the server thread that handles the registration.
LEMMA HandlerKeeps ==
    ASSUME Inv, [Next]_ssvars, NEW s \in SubscriberIds, WithHandler(s), ~ shutdown,
           subscribers[s] # NoReg, subscribers'[s] = subscribers[s]
    PROVE  InQueue(s)' \/ WithHandler(s)'
<1>0. queue \in Seq(SubscriberIds) /\ RegsType /\ HandlersType
  BY Zenon DEF Inv, TypeOK
<1>1. PICK h \in Handlers : /\ handler[h].pc \in {"check", "offer", "erase"}
                            /\ handler[h].reg = subscribers[s]
  BY Zenon DEF WithHandler
<1>2. handler[h].sub = s
  BY <1>1, Zenon DEF Inv, ThreadsOK, RegisteredIsTracked
<1>3. CASE handler'[h] = handler[h]
  BY <1>1, <1>3, Zenon DEF WithHandler
<1>4. ASSUME NEW g \in Handlers, NEW q \in SubscriberIds, RegisterCreateTopics(g, q)
      PROVE  handler'[h] = handler[h]
  BY <1>0, <1>1, <1>4, Zenon DEF RegisterCreateTopics, HandlersType
<1>5. ASSUME NEW g \in Handlers, RegisterInsert(g) PROVE handler'[h] = handler[h]
  BY <1>0, <1>1, <1>5, Zenon DEF RegisterInsert, HandlersType
<1>6. ASSUME NEW g \in Handlers, RegisterCheckSize(g) PROVE WithHandler(s)'
  <2>1. /\ handler'[h].reg = handler[h].reg
        /\ handler'[h].pc \in {"check", "offer", "erase"}
    BY <1>0, <1>1, <1>6, Zenon DEF RegisterCheckSize, HandlersType
  <2> QED BY <1>1, <2>1, Zenon DEF WithHandler
<1>7. ASSUME NEW g \in Handlers, RegisterOffer(g) PROVE InQueue(s)' \/ WithHandler(s)'
  <2>1. CASE g # h
    BY <1>0, <1>3, <1>7, <2>1, Zenon DEF RegisterOffer, HandlersType
  <2>2. CASE g = h
    <3>1. queue' = Append(queue, s)
      BY <1>2, <1>7, <2>2, Zenon DEF RegisterOffer
    <3>2. Len(queue') \in 1 .. Len(queue') /\ queue'[Len(queue')] = s
      BY <1>0, <3>1
    <3> QED BY <3>2, Zenon DEF InQueue
  <2> QED BY <2>1, <2>2, Zenon
<1>8. ASSUME NEW g \in Handlers, RegisterErase(g) PROVE handler'[h] = handler[h]
  <2>1. g # h
    <3> SUFFICES ASSUME g = h PROVE FALSE
      BY Zenon
    <3>1. subscribers' = [subscribers EXCEPT ![s] = NoReg]
      BY <1>2, <1>8, Zenon DEF RegisterErase
    <3> QED BY <1>0, <3>1, Zenon DEF RegsType
  <2> QED BY <1>0, <1>8, <2>1, Zenon DEF RegisterErase, HandlersType
<1>9. ASSUME NEW w \in Workers, WorkerStep(w) \/ RpcTransportError(w) \/ RpcEnds(w)
      PROVE  UNCHANGED handler
  BY <1>9, Zenon DEF WorkerStep, Dequeue, Lookup, GatherDeltas, GatherMinVersions,
     RecordProcessed, ApplyUpdates, FinishGone, FinishFailed, FinishOffer, OfferWakes,
     RpcTransportError, RpcEnds, RpcFailed, RpcReturns, WorkerUnchanged
<1>10. SetExitFlag \/ UNCHANGED ssvars => UNCHANGED handler
  BY Zenon DEF SetExitFlag, ssvars
<1> QED
  BY <1>3, <1>4, <1>5, <1>6, <1>7, <1>8, <1>9, <1>10, Zenon DEF Next, RegisterStep

\* Only RegisterInsert gives a subscriber another registration.
LEMMA NewRegistration ==
    ASSUME Inv, [Next]_ssvars, NEW s \in SubscriberIds,
           subscribers'[s] # NoReg, subscribers'[s] # subscribers[s]
    PROVE  WithHandler(s)'
<1>0. RegsType /\ HandlersType
  BY Zenon DEF Inv, TypeOK
<1>1. ASSUME NEW h \in Handlers, RegisterInsert(h) PROVE WithHandler(s)'
  <2>1. handler[h].sub = s /\ subscribers'[s] = nextReg
    BY <1>0, <1>1, Zenon DEF RegisterInsert, RegsType
  <2>2. handler'[h] = [pc |-> "check", sub |-> handler[h].sub, reg |-> nextReg]
    BY <1>0, <1>1, Zenon DEF RegisterInsert, HandlersType
  <2> QED BY <2>1, <2>2 DEF WithHandler
<1>2. ASSUME NEW h \in Handlers, RegisterErase(h) PROVE FALSE
  BY <1>0, <1>2, Zenon DEF RegisterErase, RegsType
<1>3. ASSUME NEW w \in Workers, FinishFailed(w) PROVE FALSE
  BY <1>0, <1>3, Zenon DEF FinishFailed, UnregisterSubscriber, RegsType
<1>4. ASSUME NEW w \in Workers, RecordProcessed(w) \/ ApplyUpdates(w) \/ FinishOffer(w)
      PROVE  FALSE
  BY <1>4, Zenon DEF RecordProcessed, ApplyUpdates, FinishOffer
<1> QED BY <1>1, <1>2, <1>3, <1>4, WhoTouchesMaps, Zenon

LEMMA ShutdownStays == ASSUME [Next]_ssvars, shutdown PROVE shutdown'
<1>1. ASSUME NEW h \in Handlers, RegisterStep(h) PROVE UNCHANGED shutdown
  BY <1>1, Zenon DEF RegisterStep, RegisterInsert, RegisterCheckSize, RegisterOffer, RegisterErase
<1>2. ASSUME NEW h \in Handlers, NEW s \in SubscriberIds, RegisterCreateTopics(h, s)
      PROVE  UNCHANGED shutdown
  BY <1>2, Zenon DEF RegisterCreateTopics
<1>3. ASSUME NEW w \in Workers, WorkerStep(w) \/ RpcTransportError(w) \/ RpcEnds(w)
      PROVE  UNCHANGED shutdown
  BY <1>3, Zenon DEF WorkerStep, Dequeue, Lookup, GatherDeltas, GatherMinVersions,
     RecordProcessed, ApplyUpdates, FinishGone, FinishFailed, FinishOffer, OfferWakes,
     RpcTransportError, RpcEnds, RpcFailed, RpcReturns, WorkerUnchanged
<1> QED BY <1>1, <1>2, <1>3, Zenon DEF Next, SetExitFlag, ssvars

LEMMA NoLostNext == ASSUME Inv, [Next]_ssvars PROVE NoLostSubscriber'
<1> SUFFICES ASSUME ~ shutdown', NEW s \in SubscriberIds, subscribers'[s] # NoReg
             PROVE  InQueue(s)' \/ WithWorker(s)' \/ WithHandler(s)'
  BY Zenon DEF NoLostSubscriber, InQueue, WithWorker, WithHandler
<1>1. ~ shutdown
  BY ShutdownStays, Zenon
<1>2. CASE subscribers'[s] # subscribers[s]
  BY <1>2, NewRegistration, Zenon
<1>3. CASE subscribers'[s] = subscribers[s]
  <2>1. InQueue(s) \/ WithWorker(s) \/ WithHandler(s)
    BY <1>1, <1>3, Zenon DEF Inv, NoLostSubscriber, InQueue, WithWorker, WithHandler
  <2> QED BY <1>1, <1>3, <2>1, QueueKeeps, WorkerKeeps, HandlerKeeps, Zenon
<1> QED BY <1>2, <1>3, Zenon

-------------------------------------------------------------------------------

LEMMA NextInv == Inv /\ [Next]_ssvars => Inv'
<1> SUFFICES ASSUME Inv, [Next]_ssvars PROVE Inv'
  BY Zenon
<1> QED BY TypeNext, TopicsNext, ThreadsNext, TrackedNext, BoundedNext, TransientNext,
           NoLostNext, Zenon DEF Inv

LEMMA InvAlways == Spec => []Inv
BY InitInv, NextInv, PTL DEF Spec

\* Whatever the registrations, restarts, failures and interleavings, a
\* registered subscriber's next heartbeat is never lost, and every structure
\* keeps its type.
THEOREM SubscribersKept == Spec => [](TypeOK /\ NoLostSubscriber)
<1>1. Inv => TypeOK /\ NoLostSubscriber
  BY Zenon DEF Inv
<1> QED BY <1>1, InvAlways, PTL

\* The failure detector tracks every current registration, below its limit.
THEOREM CurrentIsTracked == Spec => []RegisteredIsTracked
<1>1. Inv => RegisteredIsTracked
  BY Zenon DEF Inv
<1> QED BY <1>1, InvAlways, PTL

\* No version processed, gathered, sent as a minimum or published is ahead of
\* its topic.
THEOREM NoVersionAhead == Spec => []VersionsBounded
<1>1. Inv => VersionsBounded
  BY Zenon DEF Inv
<1> QED BY <1>1, InvAlways, PTL

\* Two registrations never own the same version of a topic, so unregistering
\* one deletes nothing that another published.
THEOREM OwnedVersionsDiffer == Spec => []TransientVersionsUnique
<1>1. Inv => TransientVersionsUnique
  BY Zenon DEF Inv
<1> QED BY <1>1, InvAlways, PTL

\* A worker that fails to reach a subscriber unregisters the registration it
\* was given and no later one (the check of the registration id at
\* statestore.cc:563-566).
THEOREM LateFailureHarmless == Spec => OnlyOwnFailureUnregisters
<1> DEFINE A == \A s \in SubscriberIds :
         subscribers[s] # NoReg /\ subscribers'[s] = NoReg =>
            \/ \E w \in Workers : /\ worker[w].pc = "finish" /\ worker'[w].pc # "finish"
                                  /\ worker[w].reg = subscribers[s]
                                  /\ ~ worker[w].ok
            \/ \E h \in Handlers : handler[h].pc = "erase" /\ handler[h].sub = s
<1>1. ASSUME Inv, [Next]_ssvars PROVE A
  <2> SUFFICES ASSUME NEW s \in SubscriberIds,
                      subscribers[s] # NoReg, subscribers'[s] = NoReg
               PROVE  \/ \E w \in Workers : /\ worker[w].pc = "finish"
                                            /\ worker'[w].pc # "finish"
                                            /\ worker[w].reg = subscribers[s]
                                            /\ ~ worker[w].ok
                      \/ \E h \in Handlers : handler[h].pc = "erase" /\ handler[h].sub = s
    BY Zenon
  <2>0. RegsType /\ WorkersType /\ MaxMissed \in Nat
    BY <1>1, StatestoreAssumption, Zenon DEF Inv, TypeOK
  <2>1. ASSUME NEW h \in Handlers, RegisterInsert(h) PROVE FALSE
    BY <2>0, <2>1 DEF RegisterInsert, RegsType, NoReg
  <2>2. ASSUME NEW h \in Handlers, RegisterErase(h)
        PROVE  handler[h].pc = "erase" /\ handler[h].sub = s
    BY <2>0, <2>2, Zenon DEF RegisterErase, RegsType
  <2>3. ASSUME NEW w \in Workers, RecordProcessed(w) \/ ApplyUpdates(w) \/ FinishOffer(w)
        PROVE  FALSE
    BY <2>3, Zenon DEF RecordProcessed, ApplyUpdates, FinishOffer
  <2>4. ASSUME NEW w \in Workers, FinishFailed(w)
        PROVE  /\ worker[w].pc = "finish" /\ worker'[w].pc # "finish"
               /\ worker[w].reg = subscribers[s] /\ ~ worker[w].ok
    <3> DEFINE r == worker[w].reg
    <3>1. worker[w].pc = "finish" /\ worker'[w].pc # "finish"
      BY <2>0, <2>4, DoneWorkerFields, Zenon DEF FinishFailed, WorkersType
    <3>2. Registered(r) /\ regs[r].sub = s
      BY <2>0, <2>4, Zenon DEF FinishFailed, UnregisterSubscriber, RegsType
    <3>3. r \in RegIds
      BY <1>1, <3>1, Zenon DEF Inv, ThreadsOK, HasReg
    <3>5. UpdateHeartbeat(r, worker[w].ok)[r] > MaxMissed
      BY <2>4, Zenon DEF FinishFailed, Failed
    <3>4. ~ worker[w].ok
      <4> SUFFICES ASSUME worker[w].ok PROVE FALSE
        BY Zenon
      <4>1. UpdateHeartbeat(r, worker[w].ok)[r] = 0
        BY <2>0, <3>3, Zenon DEF UpdateHeartbeat, RegsType
      <4>2. ~ (0 > MaxMissed)
        BY <2>0
      <4> QED BY <3>5, <4>1, <4>2, Zenon
    <3> QED BY <3>1, <3>2, <3>4, Zenon DEF Registered
  <2> QED BY <1>1, <2>1, <2>2, <2>3, <2>4, WhoTouchesMaps, Zenon
<1>2. ASSUME Inv, [Next]_ssvars PROVE [A]_ssvars
  BY <1>1, <1>2, Zenon
<1> QED BY <1>2, InvAlways, PTL DEF Spec, OnlyOwnFailureUnregisters

===============================================================================
