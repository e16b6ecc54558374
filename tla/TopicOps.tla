------------------------------- MODULE TopicOps -------------------------------
(***************************************************************************)
(* A statestore topic as a value: the operations of class Statestore::Topic *)
(* (be/src/statestore/statestore.cc) and the delta that                     *)
(* Statestore::GatherTopicUpdates computes from one.  Keys and values are   *)
(* opaque; only the sizes the topic accounts for are kept.                  *)
(***************************************************************************)
EXTENDS Integers

CONSTANTS
    Keys,        \* TopicEntryKey
    Values,      \* the non-empty byte strings an entry may hold
    NULL_VALUE,  \* TopicEntry::NULL_VALUE, the value of a deleted entry
    KeySize,     \* bytes in a key
    ValueSize    \* bytes in a value

ASSUME TopicAssumption ==
    /\ NULL_VALUE \notin Values
    /\ KeySize \in [Keys -> Nat]
    /\ ValueSize \in [Values -> Nat \ {0}]

-------------------------------------------------------------------------------

\* TOPIC_INITIAL_VERSION: below the version of every entry.
TOPIC_INITIAL_VERSION == 0

EntryValue == Values \cup {NULL_VALUE}

\* NULL_VALUE is the empty string.
SizeOf(v) == IF v = NULL_VALUE THEN 0 ELSE ValueSize[v]

TopicEntry == [value : EntryValue, version : Nat]

\* A key that is not in entries_; versions start at 1, so no entry equals it.
NoEntry == [value |-> NULL_VALUE, version |-> TOPIC_INITIAL_VERSION]

Topic == [entries : [Keys -> TopicEntry],
          log : SUBSET (Nat \X Keys),
          last_version : Nat,
          key_bytes : Int,
          value_bytes : Int]

NewTopic == [entries |-> [k \in Keys |-> NoEntry],
             log |-> {},
             last_version |-> 0,
             key_bytes |-> 0,
             value_bytes |-> 0]

HasEntry(t, k) == t.entries[k] # NoEntry

\* What Put adds to the sizes of the topic (and to the metrics).
PutKeyDelta(t, k) == IF HasEntry(t, k) THEN 0 ELSE KeySize[k]
PutValueDelta(t, k, v) == SizeOf(v) - SizeOf(t.entries[k].value)

\* Mutant: the old item stays in the log.
LogAfterKeepsOld(t, k) == t.log \cup {<<t.last_version + 1, k>>}

\* The log is keyed by version; erasing the version of the old entry removes
\* the only item the log has for the key.
LogAfter(t, k) ==
    {e \in t.log : e[1] # t.entries[k].version} \cup {<<t.last_version + 1, k>>}

Put(t, k, v) ==
    [entries |-> [t.entries EXCEPT
                     ![k] = [value |-> v, version |-> t.last_version + 1]],
     log |-> LogAfter(t, k),
     last_version |-> t.last_version + 1,
     key_bytes |-> t.key_bytes + PutKeyDelta(t, k),
     value_bytes |-> t.value_bytes + PutValueDelta(t, k, v)]

VersionsMatch(t, version, k) ==
    HasEntry(t, k) /\ t.entries[k].version = version

DeleteIfVersionsMatch(t, version, k) ==
    IF VersionsMatch(t, version, k)
    THEN [entries |-> [t.entries EXCEPT
                          ![k] = [value |-> NULL_VALUE,
                                  version |-> t.last_version + 1]],
          log |-> LogAfter(t, k),
          last_version |-> t.last_version + 1,
          key_bytes |-> t.key_bytes,
          value_bytes |-> t.value_bytes - SizeOf(t.entries[k].value)]
    ELSE t

-------------------------------------------------------------------------------

\* The version of the last item of the log, or the initial version.
ToVersion(t) ==
    IF t.log = {}
    THEN TOPIC_INITIAL_VERSION
    ELSE CHOOSE v \in {e[1] : e \in t.log} : \A e \in t.log : e[1] <= v

\* Mutant: one item too few.
KeysAfterSkipsOne(t, from) == {k \in Keys : \E e \in t.log : e[2] = k /\ e[1] > from + 1}

\* The items of the log strictly above from (upper_bound), each with the value
\* its entry has now; a NULL_VALUE item is a deletion.
KeysAfter(t, from) == {k \in Keys : \E e \in t.log : e[2] = k /\ e[1] > from}

TopicDelta(t, from) ==
    [is_delta |-> from > TOPIC_INITIAL_VERSION,
     from_version |-> from,
     to_version |-> ToVersion(t),
     items |-> [k \in KeysAfter(t, from) |-> t.entries[k].value]]

\* What a client does with a delta: a non-delta update replaces all it knew.
ApplyDelta(view, d) ==
    [k \in Keys |-> IF k \in DOMAIN d.items THEN d.items[k]
                    ELSE IF d.is_delta THEN view[k]
                    ELSE NULL_VALUE]

-------------------------------------------------------------------------------
(* What makes a topic well formed. *)

\* The update log is the inverse of the entries: one item per entry.
LogIndexes(t) ==
    t.log = {<<t.entries[k].version, k>> : k \in {x \in Keys : HasEntry(t, x)}}

\* No two entries share a version, and none is above last_version_.
UniqueVersions(t) ==
    /\ \A k \in Keys : /\ t.entries[k].version <= t.last_version
                       /\ HasEntry(t, k) <=> t.entries[k].version > 0
    /\ \A j, k \in Keys :
          /\ HasEntry(t, j)
          /\ t.entries[j].version = t.entries[k].version
          => j = k

\* The last item of the log is at last_version_.
LogReaches(t) ==
    t.last_version > 0 => \E k \in Keys : <<t.last_version, k>> \in t.log

===============================================================================
