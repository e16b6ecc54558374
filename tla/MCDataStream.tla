---------------------------- MODULE MCDataStream ------------------------------
(***************************************************************************)
(* Small instances of DataStream for TLC.                                    *)
(***************************************************************************)
EXTENDS DataStream, TLC

CONSTANTS s1, s2

OneSender == {s1}
TwoSenders == {s1, s2}

SenderSymmetry == Permutations(Senders)

===============================================================================
