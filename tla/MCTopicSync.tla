----------------------------- MODULE MCTopicSync ------------------------------
(* TopicSync for TLC: two keys, two values of different sizes. *)
EXTENDS TopicSync

CONSTANTS k1, k2, small, large

MCKeys == {k1, k2}
MCValues == {small, large}
MCKeySize == [k \in MCKeys |-> IF k = k1 THEN 1 ELSE 2]
MCValueSize == [v \in MCValues |-> IF v = small THEN 1 ELSE 3]

===============================================================================
