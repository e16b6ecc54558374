---------------------------- MODULE MCMembership ------------------------------
(* Membership for TLC: Me and another impalad. *)
EXTENDS Membership, TLC

CONSTANTS b1, b2, ip1, ip2, host1, host2

MCKeys == {b1, b2}
MCValues == {ip1, ip2}
MCHostname == b1 :> host1 @@ b2 :> host2
MCKeySize == [k \in Keys |-> 1]
MCValueSize == [v \in Values |-> 1]

\* Every backend keeps its address
FixedIp(k, ip) == ip = IF k = b2 THEN ip2 ELSE ip1

===============================================================================
