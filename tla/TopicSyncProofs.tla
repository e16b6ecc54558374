--------------------------- MODULE TopicSyncProofs ----------------------------
(***************************************************************************)
(* The operations of a topic keep it well formed, for every set of keys and *)
(* values (the lemmas StatestoreProofs rests on, too), and TopicSync, for    *)
(* every bound on the updates: the update log indexes the entries, and a     *)
(* client that applies the deltas knows every entry up to the version it is  *)
(* believed to have processed.                                               *)
(***************************************************************************)
EXTENDS TopicSync, TLAPS

-------------------------------------------------------------------------------
(* The operations of a topic *)

\* A well-formed topic.
TopicOK(t) == t \in Topic /\ LogIndexes(t) /\ UniqueVersions(t) /\ LogReaches(t)

\* The entry at k becomes e, under the next version: what Put and
\* DeleteIfVersionsMatch have in common.
UpdatedAt(t, u, k, v) ==
    /\ u.entries = [t.entries EXCEPT
                      ![k] = [value |-> v, version |-> t.last_version + 1]]
    /\ u.log = LogAfter(t, k)
    /\ u.last_version = t.last_version + 1
    /\ u.key_bytes \in Int
    /\ u.value_bytes \in Int
    /\ u = [entries |-> u.entries, log |-> u.log, last_version |-> u.last_version,
            key_bytes |-> u.key_bytes, value_bytes |-> u.value_bytes]

\* The size of a value is a number.
LEMMA SizeOfType == ASSUME NEW v \in EntryValue PROVE SizeOf(v) \in Nat
BY TopicAssumption, Zenon DEF SizeOf, EntryValue

\* Put is an update in the sense of UpdatedAt.
LEMMA PutUpdates ==
    ASSUME NEW t \in Topic, NEW k \in Keys, NEW v \in EntryValue
    PROVE  UpdatedAt(t, Put(t, k, v), k, v)
<1>1. t.entries[k].value \in EntryValue
  BY Zenon DEF Topic, TopicEntry
<1>2. SizeOf(v) \in Nat /\ SizeOf(t.entries[k].value) \in Nat
  BY <1>1, SizeOfType, Zenon
<1>3. PutKeyDelta(t, k) \in Int
  BY TopicAssumption DEF PutKeyDelta
<1>4. PutValueDelta(t, k, v) \in Int
  BY <1>2 DEF PutValueDelta
<1>5. t.key_bytes \in Int /\ t.value_bytes \in Int
  BY Zenon DEF Topic
<1>6. t.key_bytes + PutKeyDelta(t, k) \in Int
  BY <1>3, <1>5
<1>7. t.value_bytes + PutValueDelta(t, k, v) \in Int
  BY <1>4, <1>5
<1> QED BY <1>6, <1>7, Zenon DEF UpdatedAt, Put

\* A deletion that takes effect is an update to NULL_VALUE.
LEMMA DeleteUpdates ==
    ASSUME NEW t \in Topic, NEW k \in Keys, NEW version,
           VersionsMatch(t, version, k)
    PROVE  UpdatedAt(t, DeleteIfVersionsMatch(t, version, k), k, NULL_VALUE)
<1>1. t.entries[k].value \in EntryValue
  BY Zenon DEF Topic, TopicEntry
<1>2. SizeOf(t.entries[k].value) \in Nat
  BY <1>1, SizeOfType, Zenon
<1>3. t.key_bytes \in Int /\ t.value_bytes \in Int
  BY Zenon DEF Topic
<1>4. t.value_bytes - SizeOf(t.entries[k].value) \in Int
  BY <1>2, <1>3
<1> QED BY <1>3, <1>4, Zenon DEF UpdatedAt, DeleteIfVersionsMatch

\* An update keeps the log the inverse of the entries and the versions unique.
LEMMA UpdatePreserves ==
    ASSUME NEW t, TopicOK(t), NEW u, NEW k \in Keys, NEW v \in EntryValue,
           UpdatedAt(t, u, k, v)
    PROVE  TopicOK(u)
<1> DEFINE new == t.last_version + 1
<1>1. t.last_version \in Nat /\ new \in Nat
  BY DEF TopicOK, Topic
<1>2. t.entries \in [Keys -> TopicEntry] /\ t.log \in SUBSET (Nat \X Keys)
  BY Zenon DEF TopicOK, Topic
<1>3. \A x \in Keys : u.entries[x] = IF x = k THEN [value |-> v, version |-> new]
                                          ELSE t.entries[x]
  BY <1>2, Zenon DEF UpdatedAt
<1>4. u.entries \in [Keys -> TopicEntry]
  BY <1>1, <1>2 DEF UpdatedAt, TopicEntry
<1>5. u.log \in SUBSET (Nat \X Keys)
  BY <1>1, <1>2 DEF UpdatedAt, LogAfter
<1>6. u \in Topic
  BY <1>1, <1>4, <1>5, Zenon DEF UpdatedAt, Topic
<1>7. \A x \in Keys : /\ t.entries[x].version \in Nat
                      /\ t.entries[x].version <= t.last_version
                      /\ HasEntry(t, x) <=> t.entries[x].version > 0
  BY <1>2, Zenon DEF TopicOK, UniqueVersions, TopicEntry
<1>8. \A x \in Keys : HasEntry(u, x) <=> (x = k \/ HasEntry(t, x))
  <2>1. [value |-> v, version |-> new] # NoEntry
    <3>1. new # 0
      BY <1>1
    <3>2. [value |-> v, version |-> new].version = new
      BY Zenon
    <3>3. NoEntry.version = 0
      BY Zenon DEF NoEntry, TOPIC_INITIAL_VERSION
    <3> QED BY <3>1, <3>2, <3>3, Zenon
  <2> QED BY <1>3, <2>1, Zenon DEF HasEntry
<1>9. UniqueVersions(u)
  <2>1. \A x \in Keys : /\ u.entries[x].version <= u.last_version
                        /\ HasEntry(u, x) <=> u.entries[x].version > 0
    <3> SUFFICES ASSUME NEW x \in Keys
                 PROVE  /\ u.entries[x].version <= u.last_version
                        /\ HasEntry(u, x) <=> u.entries[x].version > 0
      BY Zenon
    <3>0. u.last_version = new
      BY Zenon DEF UpdatedAt
    <3>1. CASE x = k
      <4>1. u.entries[x].version = new /\ HasEntry(u, x)
        BY <1>3, <1>8, <3>1
      <4> QED BY <1>1, <3>0, <4>1
    <3>2. CASE x # k
      <4>1. u.entries[x] = t.entries[x] /\ (HasEntry(u, x) <=> HasEntry(t, x))
        BY <1>3, <1>8, <3>2, Zenon
      <4> QED BY <1>1, <1>7, <3>0, <4>1
    <3> QED BY <3>1, <3>2, Zenon
  <2>2. \A i, j \in Keys : HasEntry(u, i)
                              /\ u.entries[i].version = u.entries[j].version
                           => i = j
    <3> SUFFICES ASSUME NEW i \in Keys, NEW j \in Keys, HasEntry(u, i),
                        u.entries[i].version = u.entries[j].version
                 PROVE  i = j
      BY Zenon
    <3>1. CASE i = k
      BY <1>1, <1>3, <1>7, <3>1
    <3>2. CASE i # k /\ j = k
      BY <1>1, <1>3, <1>7, <3>2
    <3>3. CASE i # k /\ j # k
      BY <1>3, <1>8, <3>3, Zenon DEF TopicOK, UniqueVersions
    <3> QED BY <3>1, <3>2, <3>3, Zenon
  <2> QED BY <2>1, <2>2, Zenon DEF UniqueVersions
<1>10. LogIndexes(u)
  <2> DEFINE Had == {x \in Keys : HasEntry(t, x)}
  <2>1. t.log = {<<t.entries[x].version, x>> : x \in Had}
    BY Zenon DEF TopicOK, LogIndexes
  <2>2. u.log = {e \in t.log : e[1] # t.entries[k].version} \cup {<<new, k>>}
    BY Zenon DEF UpdatedAt, LogAfter
  <2>3. {e \in t.log : e[1] # t.entries[k].version}
          = {<<t.entries[x].version, x>> : x \in Had \ {k}}
    BY <2>1 DEF TopicOK, UniqueVersions
  <2>4. {x \in Keys : HasEntry(u, x)} = Had \cup {k}
    BY <1>8, Zenon
  <2>5. {<<u.entries[x].version, x>> : x \in Had \cup {k}}
          = {<<t.entries[x].version, x>> : x \in Had \ {k}} \cup {<<new, k>>}
    BY <1>3
  <2> QED BY <2>2, <2>3, <2>4, <2>5, Zenon DEF LogIndexes
<1>11. LogReaches(u)
  BY Zenon DEF LogReaches, UpdatedAt, LogAfter
<1> QED BY <1>6, <1>9, <1>10, <1>11, Zenon DEF TopicOK

\* A delta ends at last_version_: it always reaches the present.
LEMMA DeltaReachesPresent ==
    ASSUME NEW t, TopicOK(t) PROVE ToVersion(t) = t.last_version
<1>1. t.last_version \in Nat /\ t.log \in SUBSET (Nat \X Keys)
  BY Zenon DEF TopicOK, Topic
<1>2. \A e \in t.log : e[1] \in Nat /\ e[1] <= t.last_version /\ e[1] > 0
  BY <1>1 DEF TopicOK, LogIndexes, UniqueVersions
<1>3. CASE t.last_version = 0
  <2>1. t.log = {}
    BY <1>2, <1>3
  <2> QED BY <1>3, <2>1, Zenon DEF ToVersion, TOPIC_INITIAL_VERSION
<1>4. CASE t.last_version > 0
  <2> DEFINE V == {e[1] : e \in t.log}
  <2>1. PICK k \in Keys : <<t.last_version, k>> \in t.log
    BY <1>4, Zenon DEF TopicOK, LogReaches
  <2>2. t.last_version \in V /\ t.log # {}
    BY <2>1
  <2>3. \A u \in V : (\A e \in t.log : e[1] <= u) => u = t.last_version
    BY <1>1, <1>2, <2>1
  <2>4. \A e \in t.log : e[1] <= t.last_version
    BY <1>2, Zenon
  <2> QED BY <2>2, <2>3, <2>4, Zenon DEF ToVersion
<1> QED BY <1>1, <1>3, <1>4

\* A new topic is well formed.
LEMMA NewTopicOK == TopicOK(NewTopic)
<1>1. NewTopic \in Topic
  BY DEF NewTopic, Topic, TopicEntry, NoEntry, EntryValue, TOPIC_INITIAL_VERSION
<1>2. \A k \in Keys : ~ HasEntry(NewTopic, k) /\ NewTopic.entries[k].version = 0
  BY Zenon DEF NewTopic, HasEntry, NoEntry, TOPIC_INITIAL_VERSION
<1>3. NewTopic.last_version = 0 /\ NewTopic.log = {}
  BY Zenon DEF NewTopic
<1> QED BY <1>1, <1>2, <1>3 DEF TopicOK, LogIndexes, UniqueVersions, LogReaches

\* Put keeps a topic well formed and gives out the next version.
LEMMA PutOK ==
    ASSUME NEW t, TopicOK(t), NEW k \in Keys, NEW v \in EntryValue
    PROVE  TopicOK(Put(t, k, v)) /\ Put(t, k, v).last_version = t.last_version + 1
<1>1. UpdatedAt(t, Put(t, k, v), k, v)
  BY PutUpdates, Zenon DEF TopicOK
<1> QED BY <1>1, UpdatePreserves DEF UpdatedAt

\* So does DeleteIfVersionsMatch, which leaves the topic alone on a mismatch.
LEMMA DeleteOK ==
    ASSUME NEW t, TopicOK(t), NEW k \in Keys, NEW version
    PROVE  /\ TopicOK(DeleteIfVersionsMatch(t, version, k))
           /\ DeleteIfVersionsMatch(t, version, k).last_version
                \in {t.last_version, t.last_version + 1}
<1>1. CASE VersionsMatch(t, version, k)
  <2>1. UpdatedAt(t, DeleteIfVersionsMatch(t, version, k), k, NULL_VALUE)
    BY <1>1, DeleteUpdates, Zenon DEF TopicOK
  <2>2. NULL_VALUE \in EntryValue
    BY Zenon DEF EntryValue
  <2> QED BY <2>1, <2>2, UpdatePreserves DEF UpdatedAt
<1>2. CASE ~ VersionsMatch(t, version, k)
  BY <1>2, Zenon DEF DeleteIfVersionsMatch
<1> QED BY <1>1, <1>2, Zenon

-------------------------------------------------------------------------------
(* A topic and a client that follows it *)

\* The inductive invariant
SyncInv == SyncTypeOK /\ TopicOK(topic) /\ ProcessedMeansKnown

\* What a client knows survives an update of the topic: the entry that changed
\* is now newer than what the client is believed to have processed.
LEMMA UpdateKeepsKnown ==
    ASSUME SyncInv, NEW k \in Keys, NEW v \in EntryValue,
           UpdatedAt(topic, topic', k, v), UNCHANGED <<processed, view>>
    PROVE  ProcessedMeansKnown'
<1>1. topic.last_version \in Nat /\ processed \in Nat
  BY Zenon DEF SyncInv, SyncTypeOK, Topic
<1>2. topic.entries \in [Keys -> TopicEntry]
  BY Zenon DEF SyncInv, SyncTypeOK, Topic
<1>3. processed' <= topic'.last_version
  BY <1>1 DEF UpdatedAt, SyncInv, ProcessedMeansKnown
<1>4. ASSUME processed' > TOPIC_INITIAL_VERSION, NEW x \in Keys,
             topic'.entries[x].version <= processed'
      PROVE  view'[x] = topic'.entries[x].value
  <2>1. x # k
    BY <1>1, <1>2, <1>4 DEF UpdatedAt, SyncInv, ProcessedMeansKnown
  <2>2. topic'.entries[x] = topic.entries[x]
    BY <1>2, <2>1, Zenon DEF UpdatedAt
  <2> QED BY <1>4, <2>2, Zenon DEF SyncInv, ProcessedMeansKnown
<1> QED BY <1>3, <1>4, Zenon DEF ProcessedMeansKnown

\* After the delta from what it has processed, the client knows every entry.
LEMMA DeltaBringsAll ==
    ASSUME SyncInv, NEW k \in Keys
    PROVE  ApplyDelta(view, TopicDelta(topic, processed))[k] = topic.entries[k].value
<1> DEFINE d == TopicDelta(topic, processed)
<1>1. topic.entries \in [Keys -> TopicEntry] /\ processed \in Nat
  BY Zenon DEF SyncInv, SyncTypeOK, Topic
<1>2. topic.entries[k].version \in Nat
  BY <1>1, Zenon DEF TopicEntry
<1>3. d.items = [x \in KeysAfter(topic, processed) |-> topic.entries[x].value]
  BY Zenon DEF TopicDelta
<1>4. d.is_delta = (processed > TOPIC_INITIAL_VERSION)
  BY Zenon DEF TopicDelta
<1>5. DOMAIN d.items = KeysAfter(topic, processed)
  BY <1>3, Zenon
<1> HIDE DEF d
<1>6. ApplyDelta(view, d)[k] = IF k \in DOMAIN d.items THEN d.items[k]
                               ELSE IF d.is_delta THEN view[k] ELSE NULL_VALUE
  BY Zenon DEF ApplyDelta
<1>7. CASE k \in KeysAfter(topic, processed)
  BY <1>3, <1>5, <1>6, <1>7, Zenon DEF d
<1>8. CASE k \notin KeysAfter(topic, processed)
  <2>1. ApplyDelta(view, d)[k] = IF processed > TOPIC_INITIAL_VERSION
                                 THEN view[k] ELSE NULL_VALUE
    BY <1>4, <1>5, <1>6, <1>8, Zenon
  <2>2. CASE HasEntry(topic, k)
    <3>1. <<topic.entries[k].version, k>> \in topic.log
      BY <2>2, Zenon DEF SyncInv, TopicOK, LogIndexes
    <3>2. ~ (topic.entries[k].version > processed)
      <4> DEFINE e == <<topic.entries[k].version, k>>
      <4>1. e \in topic.log /\ e[2] = k /\ e[1] = topic.entries[k].version
        BY <3>1, Zenon
      <4> QED BY <1>8, <4>1, Zenon DEF KeysAfter
    <3>3. topic.entries[k].version > 0
      BY <2>2, Zenon DEF SyncInv, TopicOK, UniqueVersions
    <3>4. processed > TOPIC_INITIAL_VERSION /\ topic.entries[k].version <= processed
      BY <1>1, <1>2, <3>2, <3>3 DEF TOPIC_INITIAL_VERSION
    <3> QED BY <2>1, <3>4, Zenon DEF SyncInv, ProcessedMeansKnown, d
  <2>3. CASE ~ HasEntry(topic, k)
    <3>1. topic.entries[k] = NoEntry
      BY <2>3, Zenon DEF HasEntry
    <3>2. topic.entries[k].value = NULL_VALUE /\ topic.entries[k].version = 0
      BY <3>1 DEF NoEntry, TOPIC_INITIAL_VERSION
    <3>3. processed > TOPIC_INITIAL_VERSION => view[k] = NULL_VALUE
      BY <1>1, <3>2 DEF SyncInv, ProcessedMeansKnown, TOPIC_INITIAL_VERSION
    <3> QED BY <2>1, <3>2, <3>3, Zenon DEF d
  <2> QED BY <2>2, <2>3, Zenon
<1> QED BY <1>7, <1>8, Zenon

\* What the client knows after a delta is a value for every key.
LEMMA ApplyDeltaType ==
    ASSUME SyncInv
    PROVE  ApplyDelta(view, TopicDelta(topic, processed)) \in [Keys -> EntryValue]
<1> DEFINE w == ApplyDelta(view, TopicDelta(topic, processed))
<1>1. \A k \in Keys : w[k] = topic.entries[k].value
  BY DeltaBringsAll, Zenon
<1>2. \A k \in Keys : topic.entries[k].value \in EntryValue
  BY Zenon DEF SyncInv, SyncTypeOK, Topic, TopicEntry
<1>3. w = [k \in Keys |-> w[k]]
  BY Zenon DEF ApplyDelta
<1> HIDE DEF w
<1>4. w \in [Keys -> EntryValue]
  BY <1>1, <1>2, <1>3, Zenon
<1> QED BY <1>4, Zenon DEF w

\* A new topic and a client that knows nothing satisfy the invariant.
LEMMA SyncInitInv == SyncInit => SyncInv
<1> SUFFICES ASSUME SyncInit PROVE SyncInv
  BY Zenon
<1>1. TopicOK(topic)
  BY NewTopicOK, Zenon DEF SyncInit
<1>2. SyncTypeOK
  BY <1>1 DEF SyncInit, SyncTypeOK, TopicOK, EntryValue, Metrics, TOPIC_INITIAL_VERSION
<1>3. topic.last_version = 0 /\ processed = 0
  BY Zenon DEF SyncInit, NewTopic, TOPIC_INITIAL_VERSION
<1>4. ProcessedMeansKnown
  BY <1>3 DEF ProcessedMeansKnown, TOPIC_INITIAL_VERSION
<1> QED BY <1>1, <1>2, <1>4, Zenon DEF SyncInv

\* Every step keeps the invariant.
LEMMA SyncNextInv == SyncInv /\ [SyncNext]_syncvars => SyncInv'
<1> SUFFICES ASSUME SyncInv, [SyncNext]_syncvars PROVE SyncInv'
  BY Zenon
<1>0. topic \in Topic /\ metrics \in Metrics /\ topic.last_version \in Nat
  BY Zenon DEF SyncInv, SyncTypeOK, Topic
<1>1. ASSUME NEW k \in Keys, NEW v \in EntryValue, PutEntry(k, v) PROVE SyncInv'
  <2>1. UpdatedAt(topic, topic', k, v)
    BY <1>0, <1>1, PutUpdates, Zenon DEF PutEntry
  <2>2. PutKeyDelta(topic, k) \in Int /\ PutValueDelta(topic, k, v) \in Int
    <3>1. topic.entries[k].value \in EntryValue
      BY <1>0, Zenon DEF Topic, TopicEntry
    <3>2. SizeOf(v) \in Nat /\ SizeOf(topic.entries[k].value) \in Nat
      BY <3>1, SizeOfType, Zenon
    <3> QED BY <3>2, TopicAssumption DEF PutKeyDelta, PutValueDelta
  <2>3. metrics' \in Metrics
    BY <1>0, <1>1, <2>2 DEF PutEntry, Increment, Metrics
  <2>4. TopicOK(topic')
    BY <2>1, UpdatePreserves, Zenon DEF SyncInv
  <2>5. ProcessedMeansKnown'
    BY <1>1, <2>1, UpdateKeepsKnown, Zenon DEF PutEntry
  <2>6. SyncTypeOK'
    BY <1>1, <2>3, <2>4, Zenon DEF SyncInv, SyncTypeOK, TopicOK, PutEntry
  <2> QED BY <2>4, <2>5, <2>6, Zenon DEF SyncInv
<1>2. ASSUME NEW k \in Keys, NEW version \in 1 .. MaxUpdates, DeleteEntry(k, version)
      PROVE  SyncInv'
  <2>1. CASE VersionsMatch(topic, version, k)
    <3>1. UpdatedAt(topic, topic', k, NULL_VALUE)
      BY <1>0, <1>2, <2>1, DeleteUpdates, Zenon DEF DeleteEntry
    <3>2. SizeOf(topic.entries[k].value) \in Nat
      BY <1>0, SizeOfType, Zenon DEF Topic, TopicEntry
    <3>3. metrics' \in Metrics
      BY <1>0, <1>2, <2>1, <3>2 DEF DeleteEntry, Increment, Metrics
    <3>4. NULL_VALUE \in EntryValue
      BY Zenon DEF EntryValue
    <3>5. TopicOK(topic')
      BY <3>1, <3>4, UpdatePreserves, Zenon DEF SyncInv
    <3>6. ProcessedMeansKnown'
      BY <1>2, <3>1, <3>4, UpdateKeepsKnown, Zenon DEF DeleteEntry
    <3>7. SyncTypeOK'
      BY <1>2, <3>3, <3>5, Zenon DEF SyncInv, SyncTypeOK, TopicOK, DeleteEntry
    <3> QED BY <3>5, <3>6, <3>7, Zenon DEF SyncInv
  <2>2. CASE ~ VersionsMatch(topic, version, k)
    <3>1. UNCHANGED syncvars
      BY <1>2, <2>2, Zenon DEF DeleteEntry, DeleteIfVersionsMatch, syncvars
    <3> QED BY <3>1, Zenon DEF syncvars, SyncInv, SyncTypeOK, ProcessedMeansKnown
  <2> QED BY <2>1, <2>2, Zenon
<1>3. CASE Sync
  <2>1. topic' = topic /\ metrics' = metrics
    BY <1>3, Zenon DEF Sync
  <2>2. view' = ApplyDelta(view, TopicDelta(topic, processed))
    BY <1>3, Zenon DEF Sync
  <2>3. processed' = topic.last_version
    BY <1>3, DeltaReachesPresent, Zenon DEF Sync, TopicDelta, SyncInv
  <2>4. SyncTypeOK'
    BY <1>0, <2>1, <2>2, <2>3, ApplyDeltaType, Zenon DEF SyncTypeOK
  <2>5. \A k \in Keys : view'[k] = topic.entries[k].value
    BY <2>2, DeltaBringsAll, Zenon
  <2>6. ProcessedMeansKnown'
    BY <1>0, <2>1, <2>3, <2>5 DEF ProcessedMeansKnown
  <2> QED BY <2>1, <2>4, <2>6, Zenon DEF SyncInv
<1>4. CASE SyncReplyLost
  <2>1. topic' = topic /\ metrics' = metrics /\ processed' = processed
    BY <1>4, Zenon DEF SyncReplyLost
  <2>2. view' = ApplyDelta(view, TopicDelta(topic, processed))
    BY <1>4, Zenon DEF SyncReplyLost
  <2>3. SyncTypeOK'
    BY <1>0, <2>1, <2>2, ApplyDeltaType, Zenon DEF SyncTypeOK, SyncInv
  <2>4. \A k \in Keys : view'[k] = topic.entries[k].value
    BY <2>2, DeltaBringsAll
  <2>5. ProcessedMeansKnown'
    BY <2>1, <2>4, Zenon DEF ProcessedMeansKnown, SyncInv
  <2> QED BY <2>1, <2>3, <2>5, Zenon DEF SyncInv
<1>5. CASE Reregister
  BY <1>0, <1>5 DEF Reregister, SyncInv, SyncTypeOK, ProcessedMeansKnown, TOPIC_INITIAL_VERSION
<1>6. CASE UNCHANGED syncvars
  BY <1>6, Zenon DEF syncvars, SyncInv, SyncTypeOK, ProcessedMeansKnown
<1> QED BY <1>1, <1>2, <1>3, <1>4, <1>5, <1>6, Zenon DEF SyncNext

\* The invariant holds throughout.
LEMMA SyncInvAlways == SyncSpec => []SyncInv
BY SyncInitInv, SyncNextInv, PTL DEF SyncSpec

\* The topic's state is well formed and its update log is, at every moment, the
\* inverse of its entries (Topic::Put and DeleteIfVersionsMatch).
THEOREM LogIsIndex == SyncSpec => [](SyncTypeOK /\ LogIndexesEntries /\ VersionsAreUnique)
<1>1. SyncInv => SyncTypeOK /\ LogIndexesEntries /\ VersionsAreUnique
  BY Zenon DEF SyncInv, TopicOK, LogIndexesEntries, VersionsAreUnique
<1> QED BY <1>1, SyncInvAlways, PTL

\* A client that applies the deltas it is sent knows every entry up to the
\* version the statestore has recorded for it (GatherTopicUpdates and
\* SetLastTopicVersionProcessed), lost replies and re-registrations included.
THEOREM ClientKnowsProcessed == SyncSpec => []ProcessedMeansKnown
<1>1. SyncInv => ProcessedMeansKnown
  BY Zenon DEF SyncInv
<1> QED BY <1>1, SyncInvAlways, PTL

===============================================================================
