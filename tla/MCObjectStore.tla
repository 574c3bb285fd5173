--------------------------- MODULE MCObjectStore ---------------------------
(* ObjectStore on a small instance.                                        *)
EXTENDS ObjectStore

Symmetry ==
    Permutations(Slugs) \cup Permutations(RandomIDs) \cup Permutations(Values)
    \cup Permutations(Consumers) \cup Permutations(Keys)
=============================================================================
