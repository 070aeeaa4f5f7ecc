----------------------------- MODULE MCKvStore -----------------------------
EXTENDS KvStore, TLC

\* Two keys of one bucket, one of them negative, and a key of the other bucket.
MCKeys == {-1, 1, 2}

\* Tasks other than the first, and nodes, are interchangeable.
Symmetry == Permutations(Tasks \ {InitTask}) \cup Permutations(Nodes)
                \cup Permutations(Stores \ {InitStore})
=============================================================================
