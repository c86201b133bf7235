---------------------------- MODULE MCSnapuserdMerge ----------------------------
(* Instances of SnapuserdMerge for TLC. *)
EXTENDS SnapuserdMerge, TLC

CONSTANTS r1, r2

(* Blocks are shifted by one: in each window the first copy reads the block *)
(* that the second one writes, and so do the windows among themselves; then *)
(* one block is replaced.                                                   *)
ShiftedOps == << [new |-> 1, src |-> 2], [new |-> 2, src |-> 3],
                 [new |-> 3, src |-> 4], [new |-> 4, src |-> 5],
                 [new |-> 5, src |-> 0] >>

IoSites == {"read", "write", "ra_open", "merge_open", "ra_msync", "commit", "terminate", "timeout"}

ReaderSymmetry == Permutations(Readers)

=============================================================================
