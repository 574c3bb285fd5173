--------------------------- MODULE MCSealedWrite ---------------------------
(* Sealed values are sets of keys; one slug, no further variants.           *)
EXTENDS SealedWrite, TLC

MCValues == SUBSET (Keys \cup {OwnerKey})

MCExplicit == {{}, Keys}

Symmetry == Permutations(Consumers) \cup Permutations(Keys) \cup Permutations(Writers)

\* No guard and no invariant but the type reads the last reply.
WithoutReply ==
    <<objects, extra, consumers, issued, ownerPublicKey, writer, history>>
=============================================================================
