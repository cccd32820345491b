------------------------------- MODULE MCLog -------------------------------
\* Instances of Log for model checking.
EXTENDS Log, TLC

\* Processes, blocks and their contents are interchangeable.
LogSymmetry == Permutations(Proc) \cup Permutations(Block) \cup Permutations(Val)
=============================================================================
