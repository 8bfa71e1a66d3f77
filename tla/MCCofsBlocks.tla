---------------------------- MODULE MCCofsBlocks ----------------------------
(* Instances of CofsBlocks: blocks 0..Last, of which 0 is the file system's,
   and interchangeable files.                                               *)
EXTENDS CofsBlocks, TLC

CONSTANT Last

BlocksDef == 0..Last
MetaDef == {0}
Symmetry == Permutations(Files)
=============================================================================
