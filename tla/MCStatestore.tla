----------------------------- MODULE MCStatestore -----------------------------
(* Statestore for TLC: one transient topic that all subscribers publish in. *)
EXTENDS Statestore

CONSTANTS t1, k1, v1, w1, w2

MCWorkers == {w1, w2}
MCTopicIds == {t1}
MCKeys == {k1}
MCValues == {v1}
MCKeySize == [k \in MCKeys |-> 1]
MCValueSize == [v \in MCValues |-> 1]
MCAllTopics == [s \in SubscriberIds |-> MCTopicIds]

\* All publish under the same key, the worst case for transient entries.
MCSharedKey == [s \in SubscriberIds |-> k1]

===============================================================================
