---------------------------- MODULE MCImpalaServer -----------------------------
(* An instance of ImpalaServer: p is a COMPUTE STATS with a child query c, or an INSERT. *)
EXTENDS ImpalaServer

CONSTANTS p, c

Stats == [x \in Queries |-> IF x = p THEN <<c>> ELSE <<>>]
Insert == [x \in Queries |-> <<>>]
BothPlans == {Stats, Insert}
================================================================================
