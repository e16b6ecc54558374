---------------------------- MODULE MCHdfsScanNode -----------------------------
(* Instances of HdfsScanNode: a text file and a sequence file of one split each. *)
EXTENDS HdfsScanNode, TLC

CONSTANTS text, seq, a, b

ScannerSymmetry == Permutations(Scanners)

OneEach == text :> {a} @@ seq :> {b}
================================================================================
