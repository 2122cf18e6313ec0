----------------------------- MODULE MCTaskRun ------------------------------
EXTENDS TaskRun, TLC

Symmetry == Permutations(Thread) \union Permutations(Art) \union Permutations(Nfo)
=============================================================================
