----------------------------- MODULE MCDiskIoMgr ------------------------------
(***************************************************************************)
(* An instance of DiskIoMgr: two threads of one disk, a range of two buffers *)
(* and one of one, two scanners.                                             *)
(***************************************************************************)
EXTENDS DiskIoMgr

CONSTANTS d1, t1, t2, r1, r2, p1, c1, c2

OneDisk == [x \in Threads \cup AllRanges |-> d1]

Lengths == [x \in AllRanges |-> IF x = r1 THEN 2 ELSE 1]

ScannerSymmetry == Permutations(Scanners)

===============================================================================
