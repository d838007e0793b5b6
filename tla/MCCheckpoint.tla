---------------------------- MODULE MCCheckpoint ----------------------------
(* Small tasks for TLC: one file of two blocks and one of a single block.  *)
EXTENDS Checkpoint
CONSTANTS long, short

MCFiles == {long, short}
MCBlocks == [f \in MCFiles |-> IF f = long THEN 2 ELSE 1]
=============================================================================
