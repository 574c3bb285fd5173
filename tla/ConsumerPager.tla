--------------------------- MODULE ConsumerPager ---------------------------
(***************************************************************************)
(* client.ListConsumers: the consumers command walks the directory by page *)
(* number while other clients add, remove and rename entries.  The server  *)
(* slices the sorted names anew for every page, so an entry that leaves    *)
(* moves the ones behind it across the boundary of the next page.          *)
(*                                                                         *)
(* Names are numbers, in the order of the names.  The entries collected    *)
(* are the set of their names and their number, which counts an entry that *)
(* was listed twice twice: the client only appends and takes the length.   *)
(***************************************************************************)
EXTENDS Integers, FiniteSets

CONSTANTS
    Names,             \* consumer names: a set of numbers
    Queries,           \* for each possible query, the names that contain it
    consumersPageMax,  \* 100
    MaxRemoved         \* bound on the entries that leave during a listing

ASSUME NamesAssumption ==
    /\ Names \subseteq Nat /\ IsFiniteSet(Names)
    /\ Queries \subseteq SUBSET Names
    /\ MaxRemoved \in Nat

ASSUME PageMaxAssumption == consumersPageMax \in Nat \ {0}

VARIABLES
    directory,  \* the names in the server's directory
    pc,         \* where the command is
    query,      \* the names its query matches
    page,       \* the number of the page to ask for next
    all,        \* the names collected
    count,      \* how many entries were collected
    stayed,     \* the names in the directory ever since the command started
    removed,    \* how many entries left since then
    joined      \* how many entries joined since then

vars == <<directory, pc, query, page, all, count, stayed, removed, joined>>

client == <<pc, query, page, all, count>>

\* Every variable holds a value of its kind.
TypeOK ==
    /\ directory \subseteq Names
    /\ pc \in {"idle", "paging", "done", "failed"}
    /\ query \in Queries
    /\ page \in Nat \ {0}
    /\ all \subseteq Names
    /\ count \in Nat
    /\ stayed \subseteq directory
    /\ removed \in 0..MaxRemoved
    /\ joined \in Nat

Init ==
    /\ directory \in SUBSET Names
    /\ pc = "idle"
    /\ query \in Queries
    /\ page = 1
    /\ all = {} /\ count = 0
    /\ stayed = directory /\ removed = 0 /\ joined = 0

-----------------------------------------------------------------------------
(* The server.                                                             *)

matched == directory \cap query

\* The position of n in the sorted names of S.
Rank(S, n) == Cardinality({m \in S : m <= n})

start == (page - 1) * consumersPageMax

\* Mutant: a page begins with the last entry of the page before it.
SliceOverlapping ==
    {n \in matched : /\ start <= Rank(matched, n)
                     /\ Rank(matched, n) <= start + consumersPageMax}

\* matched[start:end], both bounds cut at the length.
Slice ==
    {n \in matched : /\ start < Rank(matched, n)
                     /\ Rank(matched, n) <= start + consumersPageMax}

total == Cardinality(matched)

\* Other clients: an entry joins by itself or through an object's used_by,
\* leaves, or takes another name, merging with an entry of that name.
Add ==
    /\ \E n \in Names \ directory : directory' = directory \cup {n}
    /\ joined' = joined + 1
    /\ UNCHANGED <<client, stayed, removed>>

Leaves(n) ==
    /\ removed < MaxRemoved
    /\ removed' = removed + 1
    /\ stayed' = stayed \ {n}

Delete ==
    /\ \E n \in directory : directory' = directory \ {n} /\ Leaves(n)
    /\ UNCHANGED <<client, joined>>

Rename ==
    /\ \E n \in directory, m \in Names :
         /\ n # m /\ directory' = (directory \ {n}) \cup {m} /\ Leaves(n)
         /\ joined' = IF m \in directory THEN joined ELSE joined + 1
    /\ UNCHANGED client

-----------------------------------------------------------------------------
(* The client.                                                             *)

\* Mutant: pages are counted from zero.
BeginAtZero ==
    /\ pc # "paging"
    /\ pc' = "paging" /\ page' = 0
    /\ query' \in Queries
    /\ all' = {} /\ count' = 0
    /\ stayed' = directory /\ removed' = 0 /\ joined' = 0
    /\ UNCHANGED directory

Begin ==
    /\ pc # "paging"
    /\ pc' = "paging" /\ page' = 1
    /\ query' \in Queries
    /\ all' = {} /\ count' = 0
    /\ stayed' = directory /\ removed' = 0 /\ joined' = 0
    /\ UNCHANGED directory

\* Mutant: the page's entries are counted a second time.
CompleteCountedTwice(collected, entries) ==
    entries = {} \/ collected + Cardinality(entries) >= total

\* The listing ends at an empty page or when the total is reached.
Complete(collected, entries) == entries = {} \/ collected >= total

Fetch ==
    /\ pc = "paging"
    /\ all' = all \cup Slice
    /\ count' = count + Cardinality(Slice)
    /\ IF Complete(count', Slice)
       THEN pc' = "done" /\ UNCHANGED page
       ELSE page' = page + 1 /\ UNCHANGED pc
    /\ UNCHANGED <<directory, query, stayed, removed, joined>>

\* An error or Ctrl-C: ListConsumers returns nil.
Break ==
    /\ pc = "paging"
    /\ pc' = "failed" /\ all' = {} /\ count' = 0
    /\ UNCHANGED <<directory, query, page, stayed, removed, joined>>

Next == Add \/ Delete \/ Rename \/ Begin \/ Fetch \/ Break

Spec == Init /\ [][Next]_vars

-----------------------------------------------------------------------------
(* Properties.                                                             *)

Missed == (stayed \cap query) \ all

\* Of the entries that matched and stayed throughout, the listing misses at
\* most one for every entry that left meanwhile: none while the directory
\* only grows, however many entries it gains between two pages.
MissedAtMostRemoved == pc = "done" => Cardinality(Missed) <= removed

\* The listing repeats at most one entry for every entry that joined
\* meanwhile: one that was printed already and is moved into the next page.
RepeatedAtMostJoined == count <= Cardinality(all) + joined

\* "following the server's pagination so the caller always gets the whole
\* set": what was there throughout is listed.
WholeSet == pc = "done" => Missed = {}
=============================================================================
