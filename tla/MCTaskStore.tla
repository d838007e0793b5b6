---------------------------- MODULE MCTaskStore ----------------------------
EXTENDS TaskStore, TLC

\* Nothing distinguishes the processes or the tasks.
Symmetry == Permutations(Processes) \cup Permutations(Tasks)
=============================================================================
