----------------------------- MODULE MCThreadPool -----------------------------
(* ThreadPool for TLC. *)
EXTENDS ThreadPool

CONSTANTS w1, w2, o1, o2

MCWorkers == {w1, w2}
MCOfferers == {o1, o2}

===============================================================================
