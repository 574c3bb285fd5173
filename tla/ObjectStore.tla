---------------------------- MODULE ObjectStore ----------------------------
(***************************************************************************)
(* The object half of testserver.Store: the objects and extra maps that    *)
(* hold the variants of every name, and the consumer directory their       *)
(* used_by lists feed.  Every action is one exported or handler-called     *)
(* method of Store, which holds s.mu from its first to its last line and   *)
(* is therefore atomic.                                                    *)
(*                                                                         *)
(* Abstractions.  A used_by or tags slice is the set of its members: the   *)
(* methods only test membership and remove duplicates.  The two            *)
(* timestamps are left out: nothing here reads them.                       *)
(***************************************************************************)
EXTENDS Naturals, Sequences, SequencesExt

CONSTANTS
    Slugs,             \* the names objects are stored under
    RandomIDs,         \* what uuid.NewString may return
    Values,            \* sealed values
    Descriptions, EmptyDescription,
    Tags,
    Consumers,         \* the names a used_by list or the directory may hold
    Keys,              \* age public keys
    Nil,               \* a nil pointer: an optional argument left out, no key
    Absent             \* no entry in a Go map

ASSUME EmptyDescriptionAssumption == EmptyDescription \in Descriptions

ASSUME NilAssumption ==
    /\ Nil \notin Slugs \cup Descriptions \cup Keys
    /\ \A S \in (SUBSET Tags) \cup (SUBSET Consumers) : S # Nil

VARIABLES
    objects,    \* slug -> its first variant, or Absent
    extra,      \* slug -> its further variants, in order
    consumers,  \* consumer -> registered key, Nil for none, or Absent
    issued,     \* the random UUIDs handed out so far
    reply       \* what the last operation returned

vars == <<objects, extra, consumers, issued, reply>>

-----------------------------------------------------------------------------
(* Types.  A UUID is derived from a slug (objectID) or random.             *)

objectID(slug) == <<"sha1", slug>>

NewString(r) == <<"random", r>>

IDs == {objectID(s) : s \in Slugs} \cup {NewString(r) : r \in RandomIDs}

Object == [id : IDs, value : Values, usedBy : SUBSET Consumers,
           description : Descriptions, tags : SUBSET Tags]

ASSUME AbsentAssumption ==
    /\ \A o \in Object : o # Absent
    /\ Absent \notin Keys \cup {Nil}

Replies == {"ok", "not found", "already exists", "several variants"}

\* Every variable holds a value of its kind, after any sequence of calls.
TypeOK ==
    /\ objects \in [Slugs -> Object \cup {Absent}]
    /\ extra \in [Slugs -> Seq(Object)]
    /\ consumers \in [Consumers -> Keys \cup {Nil, Absent}]
    /\ issued \subseteq RandomIDs
    /\ reply \in Replies

\* newStore: four empty maps.
Init ==
    /\ objects = [s \in Slugs |-> Absent]
    /\ extra = [s \in Slugs |-> << >>]
    /\ consumers = [c \in Consumers |-> Absent]
    /\ issued = {}
    /\ reply = "ok"

-----------------------------------------------------------------------------
(* Reading and writing back the variants of a name.                        *)

variantsLocked(slug) ==
    IF objects[slug] = Absent THEN << >> ELSE <<objects[slug]>> \o extra[slug]

\* storeVariantsLocked(slug, vs), as its effect on each of the two maps.
StoreFirst(objs, slug, vs) ==
    [objs EXCEPT ![slug] = IF vs = << >> THEN Absent ELSE vs[1]]

\* Mutant: the branch that drops the further variants is forgotten.
StoreRestKept(ext, slug, vs) ==
    IF Len(vs) > 1 THEN [ext EXCEPT ![slug] = Tail(vs)] ELSE ext

StoreRest(ext, slug, vs) ==
    [ext EXCEPT ![slug] = IF Len(vs) > 1 THEN Tail(vs) ELSE << >>]

NoSelector == [id |-> Nil, consumer |-> Nil]

\* What selectorFrom lets through: an id, a consumer or neither, never both.
Selectors == {NoSelector} \cup [id : IDs, consumer : {Nil}]
                          \cup [id : {Nil}, consumer : Consumers]

Selects(sel, v) ==
    \/ sel.id # Nil /\ v.id = sel.id
    \/ sel.consumer # Nil /\ sel.consumer \in v.usedBy

\* findLocked returns index i: the first variant the selector matches, or
\* the only one when the selector is empty.
findLocked(slug, sel, i) ==
    LET vs == variantsLocked(slug) IN
    /\ i \in DOMAIN vs
    /\ IF sel = NoSelector THEN Len(vs) = 1
       ELSE /\ Selects(sel, vs[i])
            /\ \A j \in DOMAIN vs : j < i => ~Selects(sel, vs[j])

\* findLocked returns an error instead.
FindError(slug, sel) ==
    IF sel = NoSelector /\ variantsLocked(slug) # << >>
    THEN "several variants" ELSE "not found"

Found(slug, sel) == \E i \in DOMAIN variantsLocked(slug) : findLocked(slug, sel, i)

-----------------------------------------------------------------------------
(* Helpers of the actions.                                                 *)

\* An optional argument replaces the old value when it is there.
Given(opt, old) == IF opt = Nil THEN old ELSE opt

\* Mutant: joining writes the nil key over an entry that is already there.
JoinedOverwriting(names) ==
    [c \in Consumers |-> IF c \in names THEN Nil ELSE consumers[c]]

\* Every name that is new to the directory joins it with no key.
Joined(names) ==
    [c \in Consumers |->
        IF c \in names /\ consumers[c] = Absent THEN Nil ELSE consumers[c]]

Refuse(err) ==
    /\ reply' = err
    /\ UNCHANGED <<objects, extra, consumers, issued>>

\* used_by walks of the consumer operations visit s.objects only.
WalkUsedBy(f(_)) ==
    objects' = [s \in Slugs |->
        IF objects[s] = Absent THEN Absent
        ELSE [objects[s] EXCEPT !.usedBy = f(@)]]

\* Mutant: the new name joins the list and the old one stays.
renameUsedByKeeps(usedBy, from, to) ==
    IF from \in usedBy THEN usedBy \cup {to} ELSE usedBy

renameUsedBy(usedBy, from, to) ==
    IF from \in usedBy THEN (usedBy \ {from}) \cup {to} ELSE usedBy

removeUsedBy(usedBy, name) == usedBy \ {name}

-----------------------------------------------------------------------------
(* Objects.                                                                *)

createObject(slug, value, usedBy, description, tags) ==
    \/ /\ objects[slug] # Absent
       /\ Refuse("already exists")
    \/ /\ objects[slug] = Absent
       /\ objects' = [objects EXCEPT ![slug] =
              [id |-> objectID(slug), value |-> value, usedBy |-> usedBy,
               description |-> description, tags |-> tags]]
       /\ consumers' = Joined(usedBy)
       /\ reply' = "ok"
       /\ UNCHANGED <<extra, issued>>

\* Mutant: the variant gets the id derived from the name.
AddVariantDerived(slug, value, usedBy) ==
    /\ objects[slug] # Absent
    /\ extra' = [extra EXCEPT ![slug] = Append(@,
          [id |-> objectID(slug), value |-> value, usedBy |-> usedBy,
           description |-> EmptyDescription, tags |-> {}])]
    /\ reply' = "ok"
    /\ UNCHANGED <<objects, consumers, issued>>

AddVariant(slug, value, usedBy) ==
    \/ /\ objects[slug] = Absent
       /\ Refuse("not found")
    \/ /\ objects[slug] # Absent
       /\ \E r \in RandomIDs \ issued :
            /\ extra' = [extra EXCEPT ![slug] = Append(@,
                  [id |-> NewString(r), value |-> value, usedBy |-> usedBy,
                   description |-> EmptyDescription, tags |-> {}])]
            /\ issued' = issued \cup {r}
       /\ reply' = "ok"
       /\ UNCHANGED <<objects, consumers>>

updateVariant(slug, sel, value, tags, usedBy) ==
    \/ /\ ~Found(slug, sel)
       /\ Refuse(FindError(slug, sel))
    \/ \E i \in DOMAIN variantsLocked(slug) :
       /\ findLocked(slug, sel, i)
       /\ LET obj == [variantsLocked(slug)[i] EXCEPT
                         !.value = value, !.tags = Given(tags, @),
                         !.usedBy = Given(usedBy, @)]
              vs  == [variantsLocked(slug) EXCEPT ![i] = obj]
          IN /\ objects' = StoreFirst(objects, slug, vs)
             /\ extra' = StoreRest(extra, slug, vs)
       /\ consumers' = Joined(Given(usedBy, {}))
       /\ reply' = "ok"
       /\ UNCHANGED issued

\* Mutant: only the addressed variant moves to the new slug.
patchVariantMovesOne(slug, sel, description, newSlug, tags) ==
    \E i \in DOMAIN variantsLocked(slug) :
       /\ findLocked(slug, sel, i)
       /\ LET obj == [variantsLocked(slug)[i] EXCEPT
                         !.description = Given(description, @),
                         !.tags = Given(tags, @)]
              vs  == [variantsLocked(slug) EXCEPT ![i] = obj]
              to  == Given(newSlug, slug)
          IN /\ to = slug \/ objects[to] = Absent
             /\ objects' = StoreFirst(StoreFirst(objects, slug, << >>), to, <<vs[i]>>)
             /\ extra' = [extra EXCEPT ![slug] = << >>]
       /\ reply' = "ok"
       /\ UNCHANGED <<consumers, issued>>

patchVariant(slug, sel, description, newSlug, tags) ==
    LET to    == Given(newSlug, slug)
        taken == to # slug /\ objects[to] # Absent
    IN
    \/ /\ ~Found(slug, sel)
       /\ Refuse(FindError(slug, sel))
    \/ /\ Found(slug, sel) /\ taken
       /\ Refuse("already exists")
    \/ \E i \in DOMAIN variantsLocked(slug) :
       /\ findLocked(slug, sel, i) /\ ~taken
       /\ LET obj == [variantsLocked(slug)[i] EXCEPT
                         !.description = Given(description, @),
                         !.tags = Given(tags, @)]
              vs  == [variantsLocked(slug) EXCEPT ![i] = obj]
          IN /\ objects' = StoreFirst(StoreFirst(objects, slug, << >>), to, vs)
             /\ extra' = StoreRest(StoreRest(extra, slug, << >>), to, vs)
       /\ reply' = "ok"
       /\ UNCHANGED <<consumers, issued>>

\* Mutant: the lookup's ok is ignored, so that a zero Object is stored.
SetObjectTagsUpsert(slug, tags) ==
    /\ objects[slug] = Absent
    /\ objects' = [objects EXCEPT ![slug] =
          [id |-> Nil, value |-> Nil, usedBy |-> {},
           description |-> EmptyDescription, tags |-> tags]]
    /\ reply' = "ok"
    /\ UNCHANGED <<extra, consumers, issued>>

SetObjectTags(slug, tags) ==
    \/ /\ objects[slug] = Absent
       /\ Refuse("not found")
    \/ /\ objects[slug] # Absent
       /\ objects' = [objects EXCEPT ![slug].tags = tags]
       /\ reply' = "ok"
       /\ UNCHANGED <<extra, consumers, issued>>

deleteVariant(slug, sel) ==
    \/ /\ ~Found(slug, sel)
       /\ Refuse(FindError(slug, sel))
    \/ \E i \in DOMAIN variantsLocked(slug) :
       /\ findLocked(slug, sel, i)
       /\ LET vs == RemoveAt(variantsLocked(slug), i)
          IN /\ objects' = StoreFirst(objects, slug, vs)
             /\ extra' = StoreRest(extra, slug, vs)
       /\ reply' = "ok"
       /\ UNCHANGED <<consumers, issued>>

-----------------------------------------------------------------------------
(* The consumer directory.                                                 *)

AddConsumer(name) ==
    \/ /\ consumers[name] # Absent
       /\ Refuse("already exists")
    \/ /\ consumers[name] = Absent
       /\ consumers' = [consumers EXCEPT ![name] = Nil]
       /\ reply' = "ok"
       /\ UNCHANGED <<objects, extra, issued>>

\* The key a renamed entry keeps: the target's own wins when it has one.
MergedKey(name, target) ==
    IF consumers[target] \in Keys THEN consumers[target] ELSE consumers[name]

UpdateConsumer(name, newName, publicKey) ==
    LET target == Given(newName, name)
        moved  == [consumers EXCEPT ![name] = Absent,
                                    ![target] = MergedKey(name, target)]
    IN
    \/ /\ consumers[name] = Absent /\ newName # Nil
       /\ Refuse("not found")
    \/ /\ consumers[name] = Absent /\ newName = Nil
       /\ consumers' = [consumers EXCEPT ![name] = publicKey]
       /\ reply' = "ok"
       /\ UNCHANGED <<objects, extra, issued>>
    \/ /\ consumers[name] # Absent
       /\ consumers' = [moved EXCEPT ![target] = Given(publicKey, @)]
       /\ WalkUsedBy(LAMBDA u : renameUsedBy(u, name, target))
       /\ reply' = "ok"
       /\ UNCHANGED <<extra, issued>>

\* Mutant: the entry goes, the used_by lists keep naming it.
DeleteConsumerOnly(name) ==
    /\ consumers[name] # Absent
    /\ consumers' = [consumers EXCEPT ![name] = Absent]
    /\ reply' = "ok"
    /\ UNCHANGED <<objects, extra, issued>>

DeleteConsumer(name) ==
    \/ /\ consumers[name] = Absent
       /\ Refuse("not found")
    \/ /\ consumers[name] # Absent
       /\ consumers' = [consumers EXCEPT ![name] = Absent]
       /\ WalkUsedBy(LAMBDA u : removeUsedBy(u, name))
       /\ reply' = "ok"
       /\ UNCHANGED <<extra, issued>>

-----------------------------------------------------------------------------
Opt(S) == S \cup {Nil}

Create ==
    \E s \in Slugs, v \in Values, u \in SUBSET Consumers,
       d \in Descriptions, t \in SUBSET Tags : createObject(s, v, u, d, t)

Extend ==
    \E s \in Slugs, v \in Values, u \in SUBSET Consumers : AddVariant(s, v, u)

Update ==
    \E s \in Slugs, sel \in Selectors, v \in Values,
       t \in Opt(SUBSET Tags), u \in Opt(SUBSET Consumers) :
        updateVariant(s, sel, v, t, u)

\* patchObjectRequest.problem refuses a patch with nothing in it.
Patch ==
    \E s \in Slugs, sel \in Selectors, d \in Opt(Descriptions),
       n \in Opt(Slugs), t \in Opt(SUBSET Tags) :
        /\ <<d, n, t>> # <<Nil, Nil, Nil>>
        /\ patchVariant(s, sel, d, n, t)

Retag == \E s \in Slugs, t \in SUBSET Tags : SetObjectTags(s, t)

Delete == \E s \in Slugs, sel \in Selectors : deleteVariant(s, sel)

Register == \E c \in Consumers : AddConsumer(c)

Rename ==
    \E c \in Consumers, n \in Opt(Consumers), k \in Opt(Keys) :
        UpdateConsumer(c, n, k)

Unregister == \E c \in Consumers : DeleteConsumer(c)

Next ==
    \/ Create \/ Extend \/ Update \/ Patch \/ Retag \/ Delete
    \/ Register \/ Rename \/ Unregister

Spec == Init /\ [][Next]_vars

-----------------------------------------------------------------------------
(* Properties.                                                             *)

\* A name without a first variant has no further ones: storeVariantsLocked
\* never leaves orphans in extra that a later createObject would adopt.
NoOrphanVariants ==
    \A s \in Slugs : objects[s] = Absent => extra[s] = << >>

\* "ID is its UUID, the one thing that tells apart variants sharing a name":
\* no two variants of a name share an id, through renames of the name,
\* re-creation of a renamed name and promotion of a further variant.
VariantIDsDistinct ==
    \A s \in Slugs : \A i, j \in DOMAIN variantsLocked(s) :
        variantsLocked(s)[i].id = variantsLocked(s)[j].id => i = j

\* A random id was issued before it is stored, and an id derived from a slug
\* is only ever the first of its name: what was appended by AddVariant stays
\* behind what createObject made.
IDsIssued ==
    \A s \in Slugs : \A i \in DOMAIN variantsLocked(s) :
        \/ i = 1 /\ \E t \in Slugs : variantsLocked(s)[i].id = objectID(t)
        \/ \E r \in issued : variantsLocked(s)[i].id = NewString(r)

\* An object made by createObject names only directory entries in used_by,
\* whatever renames, merges and removals of consumers came after.  (Variants
\* added by AddVariant are exempt: the walks skip them, as the comment on
\* extra says.)
DirectoryCoversCreated ==
    \A s \in Slugs : \A i \in DOMAIN variantsLocked(s) :
        variantsLocked(s)[i].id \in {objectID(t) : t \in Slugs} =>
            \A c \in variantsLocked(s)[i].usedBy : consumers[c] # Absent

\* A registered key is replaced or goes with its entry; an entry that stays
\* never falls back to having none, by no operation and no merge.
KeyNeverForgotten ==
    [][\A c \in Consumers :
          consumers[c] \in Keys /\ consumers'[c] # Absent => consumers'[c] \in Keys]_vars

\* The ids and values under a name, in order.
Contents(slug) ==
    LET vs == variantsLocked(slug)
    IN  [i \in DOMAIN vs |-> <<vs[i].id, vs[i].value>>]

Abstract == INSTANCE Catalog WITH catalog <- [s \in Slugs |-> Contents(s)]

\* The store implements Catalog: no step loses, adds or rewrites more than
\* the one variant it addresses, and a rename moves the whole name, ids,
\* values and order intact, and only to a free slug.  (patchVariant "moves
\* every variant"; deleteVariant and updateVariant write back the others.)
ImplementsCatalog == Abstract!Spec
=============================================================================
