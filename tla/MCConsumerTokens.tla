-------------------------- MODULE MCConsumerTokens --------------------------
(* ConsumerTokens on a small instance.                                     *)
EXTENDS ConsumerTokens, TLC

\* In half seconds: a negative, a truncated and a longer --ttl.
MCDurations == {-1, 1, 3}

Symmetry == Permutations(RandomSuffixes) \cup Permutations(Consumers)
=============================================================================
