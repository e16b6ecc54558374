------------------------------ MODULE TopicSync -------------------------------
(***************************************************************************)
(* One topic of the statestore, the process-wide size metrics it reports to *)
(* and one client that follows it by deltas.  Sequential: every operation   *)
(* holds topic_lock_.  The concurrent statestore is module Statestore.      *)
(***************************************************************************)
EXTENDS TopicOps

CONSTANT MaxUpdates     \* bound on the number of updates to the topic
ASSUME MaxUpdatesAssumption == MaxUpdates \in Nat

VARIABLES
    topic,      \* the Topic
    metrics,    \* key_size_metric_, value_size_metric_, topic_size_metric_
    processed,  \* LastTopicVersionProcessed of the client's registration
    view        \* what the client knows of the topic

syncvars == <<topic, metrics, processed, view>>

Metrics == [key : Int, value : Int, topic : Int]

\* The three counters move together.
Increment(dk, dv, dt) ==
    metrics' = [key |-> metrics.key + dk,
                value |-> metrics.value + dv,
                topic |-> metrics.topic + dt]

-------------------------------------------------------------------------------

SyncInit == /\ topic = NewTopic
            /\ metrics = [key |-> 0, value |-> 0, topic |-> 0]
            /\ processed = TOPIC_INITIAL_VERSION
            /\ view = [k \in Keys |-> NULL_VALUE]

\* Topic::Put, of a value or (with NULL_VALUE) of a deletion.
PutEntry(k, v) ==
    /\ topic.last_version < MaxUpdates
    /\ topic' = Put(topic, k, v)
    /\ Increment(PutKeyDelta(topic, k), PutValueDelta(topic, k, v),
                 PutKeyDelta(topic, k) + PutValueDelta(topic, k, v))
    /\ UNCHANGED <<processed, view>>

\* Topic::DeleteIfVersionsMatch, with the version some registration recorded:
\* the current one or one that has been overwritten since.
DeleteEntry(k, version) ==
    /\ topic.last_version < MaxUpdates
    /\ topic' = DeleteIfVersionsMatch(topic, version, k)
    /\ IF VersionsMatch(topic, version, k)
       THEN LET size == SizeOf(topic.entries[k].value)
            IN  Increment(0, size, size)
       ELSE UNCHANGED metrics
    /\ UNCHANGED <<processed, view>>

\* A heartbeat: the client applies the delta and the statestore records that.
Sync ==
    LET d == TopicDelta(topic, processed)
    IN  /\ view' = ApplyDelta(view, d)
        /\ processed' = d.to_version
        /\ UNCHANGED <<topic, metrics>>

\* A heartbeat whose reply is lost: applied by the client, but not recorded.
SyncReplyLost ==
    /\ view' = ApplyDelta(view, TopicDelta(topic, processed))
    /\ UNCHANGED <<topic, metrics, processed>>

\* The client registers anew: the next update is a full one, whatever it knew.
Reregister ==
    /\ processed' = TOPIC_INITIAL_VERSION
    /\ UNCHANGED <<topic, metrics, view>>

SyncNext == \/ \E k \in Keys, v \in EntryValue : PutEntry(k, v)
            \/ \E k \in Keys, version \in 1 .. MaxUpdates : DeleteEntry(k, version)
            \/ Sync
            \/ SyncReplyLost
            \/ Reregister

SyncSpec == SyncInit /\ [][SyncNext]_syncvars

-------------------------------------------------------------------------------

\* Every variable has its type.
SyncTypeOK == /\ topic \in Topic
              /\ metrics \in Metrics
              /\ processed \in Nat
              /\ view \in [Keys -> EntryValue]

\* The update log is exactly the inverse of the entries, one item per entry at
\* the entry's version (statestore.cc:109-112, "at most a single item"), and its
\* last item is at last_version_, so that a delta always brings a client up to
\* the present (GatherTopicUpdates reads rbegin()).
LogIndexesEntries == LogIndexes(topic) /\ LogReaches(topic)

\* Versions are given out once (statestore.h:68-69, "unique across the topic"),
\* by updates and deletions alike, and none is above last_version_.
VersionsAreUnique == UniqueVersions(topic)

\* The client is never behind what the statestore believes it has processed:
\* an entry no newer than LastTopicVersionProcessed is known with its value, a
\* deletion included, whether or not replies were lost on the way.
ProcessedMeansKnown ==
    /\ processed <= topic.last_version
    /\ processed > TOPIC_INITIAL_VERSION =>
          \A k \in Keys : topic.entries[k].version <= processed
                             => view[k] = topic.entries[k].value

===============================================================================
