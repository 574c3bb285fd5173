------------------------------ MODULE Catalog ------------------------------
(***************************************************************************)
(* What the object store promises a client: every name holds a list of     *)
(* entries, an entry is an id and a value, and one operation touches one   *)
(* entry of one name or moves a whole name.  The split of a name into a    *)
(* first variant and further ones, and all the metadata, are hidden.       *)
(* ObjectStore implements this specification.                              *)
(***************************************************************************)
EXTENDS Naturals, Sequences, SequencesExt

CONSTANTS Slugs, IDs, Values

VARIABLE catalog    \* slug -> sequence of <<id, value>>

Init == catalog = [s \in Slugs |-> << >>]

IDsOf(s) == {catalog[s][i][1] : i \in DOMAIN catalog[s]}

\* A new entry goes to the end, under an id its name does not have yet.
Add(s, id, v) ==
    /\ id \notin IDsOf(s)
    /\ catalog' = [catalog EXCEPT ![s] = Append(@, <<id, v>>)]

\* A value is replaced in place; the entry keeps its id.
Replace(s, i, v) == catalog' = [catalog EXCEPT ![s][i] = <<@[1], v>>]

Drop(s, i) == catalog' = [catalog EXCEPT ![s] = RemoveAt(@, i)]

\* A name moves as a whole, and only to a free slug.
Move(s, t) ==
    /\ catalog[t] = << >>
    /\ catalog' = [catalog EXCEPT ![t] = catalog[s], ![s] = << >>]

Next ==
    \/ \E s \in Slugs, id \in IDs, v \in Values : Add(s, id, v)
    \/ \E s \in Slugs : \E i \in DOMAIN catalog[s] :
        \/ \E v \in Values : Replace(s, i, v)
        \/ Drop(s, i)
    \/ \E s, t \in Slugs : s # t /\ Move(s, t)

Spec == Init /\ [][Next]_catalog
=============================================================================
