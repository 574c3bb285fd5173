------------------------- MODULE CatalogRefinement -------------------------
(***************************************************************************)
(* Proof that ObjectStore implements Catalog, for every set of slugs, ids  *)
(* and values: the initial states agree, and every operation is one change *)
(* of one name, the move of a name to a free slug, or no change at all.    *)
(***************************************************************************)
EXTENDS ObjectStoreProofs

-----------------------------------------------------------------------------
(* What the catalog sees of a list of variants.                            *)

Pairs(vs) == [i \in DOMAIN vs |-> <<vs[i].id, vs[i].value>>]

\* Two sequences of the same length with the same elements are the same.
LEMMA SameElements ==
    ASSUME NEW S, NEW p \in Seq(S), NEW q \in Seq(S), Len(p) = Len(q),
           \A i \in 1..Len(p) : p[i] = q[i]
    PROVE  p = q
BY SeqEqual

\* The pairs of a list of objects, one for each.
LEMMA PairsType ==
    ASSUME NEW vs \in Seq(Object)
    PROVE  /\ Pairs(vs) \in Seq(IDs \X Values)
           /\ DOMAIN Pairs(vs) = DOMAIN vs /\ Len(Pairs(vs)) = Len(vs)
           /\ \A i \in DOMAIN vs : Pairs(vs)[i] = <<vs[i].id, vs[i].value>>
<1>1. Len(vs) \in Nat /\ DOMAIN vs = 1..Len(vs)
  BY LenProperties
<1>2. \A i \in 1..Len(vs) : <<vs[i].id, vs[i].value>> \in IDs \X Values
  <2> TAKE i \in 1..Len(vs)
  <2>1. vs[i] \in Object
    BY <1>1, ElementOfSeq
  <2> QED BY <2>1 DEF Object
<1>3. Pairs(vs) = [i \in 1..Len(vs) |-> <<vs[i].id, vs[i].value>>]
  BY <1>1 DEF Pairs
<1>4. Pairs(vs) \in [1..Len(vs) -> IDs \X Values]
  BY <1>2, <1>3
<1>5. Pairs(vs) \in Seq(IDs \X Values)
  BY <1>1, <1>4, SeqDef
<1> QED BY <1>1, <1>3, <1>5

\* A list that only changes metadata looks the same.
LEMMA PairsSame ==
    ASSUME NEW p \in Seq(Object), NEW q \in Seq(Object), DOMAIN p = DOMAIN q,
           \A i \in DOMAIN q : p[i].id = q[i].id /\ p[i].value = q[i].value
    PROVE  Pairs(p) = Pairs(q)
BY DEF Pairs

\* One variant more.
LEMMA PairsAppend ==
    ASSUME NEW vs \in Seq(Object), NEW o \in Object
    PROVE  Pairs(Append(vs, o)) = Append(Pairs(vs), <<o.id, o.value>>)
<1> DEFINE p == Pairs(vs)
           q == Append(vs, o)
           e == <<o.id, o.value>>
<1>1. /\ p \in Seq(IDs \X Values) /\ Len(p) = Len(vs) /\ DOMAIN p = DOMAIN vs
      /\ \A i \in DOMAIN vs : p[i] = <<vs[i].id, vs[i].value>>
  BY PairsType
<1>2. /\ q \in Seq(Object) /\ Len(q) = Len(vs) + 1 /\ Len(vs) \in Nat
      /\ DOMAIN vs = 1..Len(vs)
      /\ \A i \in 1..Len(vs) : q[i] = vs[i]
      /\ q[Len(vs) + 1] = o
  OBVIOUS
<1>3. e \in IDs \X Values
  BY DEF Object
<1> HIDE DEF p, q, e
<1>4. /\ Pairs(q) \in Seq(IDs \X Values) /\ Len(Pairs(q)) = Len(vs) + 1
      /\ \A i \in 1..(Len(vs) + 1) : Pairs(q)[i] = <<q[i].id, q[i].value>>
  BY <1>2, PairsType
<1>5. /\ Append(p, e) \in Seq(IDs \X Values) /\ Len(Append(p, e)) = Len(vs) + 1
      /\ \A i \in 1..Len(vs) : Append(p, e)[i] = p[i]
      /\ Append(p, e)[Len(vs) + 1] = e
  BY <1>1, <1>2, <1>3
<1>6. \A i \in 1..(Len(vs) + 1) : Pairs(q)[i] = Append(p, e)[i]
  <2> TAKE i \in 1..(Len(vs) + 1)
  <2>1. CASE i \in 1..Len(vs)
    BY <1>1, <1>2, <1>4, <1>5, <2>1
  <2>2. CASE i = Len(vs) + 1
    BY <1>2, <1>4, <1>5, <2>2 DEF e
  <2>3. i \in 1..Len(vs) \/ i = Len(vs) + 1
    BY <1>2
  <2> QED BY <2>1, <2>2, <2>3
<1>7. Pairs(q) = Append(p, e)
  BY <1>2, <1>4, <1>5, <1>6, SameElements
<1> QED BY <1>7 DEF p, q, e

\* One variant fewer.
LEMMA PairsRemove ==
    ASSUME NEW vs \in Seq(Object), NEW i \in DOMAIN vs
    PROVE  Pairs(RemoveAt(vs, i)) = RemoveAt(Pairs(vs), i)
<1> DEFINE p == Pairs(vs)
           q == RemoveAt(vs, i)
<1>1. /\ p \in Seq(IDs \X Values) /\ Len(p) = Len(vs) /\ DOMAIN p = DOMAIN vs
      /\ \A k \in DOMAIN vs : p[k] = <<vs[k].id, vs[k].value>>
      /\ Len(vs) \in Nat /\ DOMAIN vs = 1..Len(vs)
  BY PairsType
<1>2. /\ q \in Seq(Object) /\ Len(q) = Len(vs) - 1
      /\ \A k \in 1..(Len(vs) - 1) : q[k] = IF k < i THEN vs[k] ELSE vs[k + 1]
  BY RemoveAtProperties
<1> HIDE DEF p, q
<1>3. /\ RemoveAt(p, i) \in Seq(IDs \X Values) /\ Len(RemoveAt(p, i)) = Len(vs) - 1
      /\ \A k \in 1..(Len(vs) - 1) : RemoveAt(p, i)[k] = IF k < i THEN p[k] ELSE p[k + 1]
  <2>1. i \in DOMAIN p
    BY <1>1
  <2>2. /\ RemoveAt(p, i) \in Seq(IDs \X Values) /\ Len(RemoveAt(p, i)) = Len(p) - 1
        /\ \A k \in 1..(Len(p) - 1) : RemoveAt(p, i)[k] = IF k < i THEN p[k] ELSE p[k + 1]
    BY <1>1, <2>1, RemoveAtProperties, Zenon
  <2> QED BY <1>1, <2>2
<1>4. /\ Pairs(q) \in Seq(IDs \X Values) /\ Len(Pairs(q)) = Len(vs) - 1
      /\ \A k \in 1..(Len(vs) - 1) : Pairs(q)[k] = <<q[k].id, q[k].value>>
  BY <1>2, PairsType
<1>5. \A k \in 1..(Len(vs) - 1) : Pairs(q)[k] = RemoveAt(p, i)[k]
  <2> TAKE k \in 1..(Len(vs) - 1)
  <2>1. k \in DOMAIN vs /\ k + 1 \in DOMAIN vs
    BY <1>1
  <2>2. CASE k < i
    BY <1>1, <1>2, <1>3, <1>4, <2>1, <2>2
  <2>3. CASE ~(k < i)
    BY <1>1, <1>2, <1>3, <1>4, <2>1, <2>3
  <2> QED BY <2>2, <2>3
<1>6. Pairs(q) = RemoveAt(p, i)
  BY <1>3, <1>4, <1>5, SameElements
<1> QED BY <1>6 DEF p, q

\* One variant with another value.
LEMMA PairsReplace ==
    ASSUME NEW p \in Seq(Object), NEW q \in Seq(Object), DOMAIN p = DOMAIN q,
           NEW i \in DOMAIN q, p[i].id = q[i].id,
           \A k \in DOMAIN q : k # i => p[k] = q[k]
    PROVE  Pairs(p) = [Pairs(q) EXCEPT ![i] = <<Pairs(q)[i][1], p[i].value>>]
<1>1. /\ Pairs(q) = [k \in DOMAIN q |-> <<q[k].id, q[k].value>>]
      /\ Pairs(p) = [k \in DOMAIN q |-> <<p[k].id, p[k].value>>]
  BY DEF Pairs
<1>2. Pairs(q)[i][1] = q[i].id
  BY <1>1
<1>3. <<Pairs(q)[i][1], p[i].value>> = <<p[i].id, p[i].value>>
  BY <1>2
<1>4. [Pairs(q) EXCEPT ![i] = <<p[i].id, p[i].value>>] =
         [k \in DOMAIN q |-> IF k = i THEN <<p[i].id, p[i].value>> ELSE <<q[k].id, q[k].value>>]
  BY <1>1
<1>5. \A k \in DOMAIN q : <<p[k].id, p[k].value>> =
         IF k = i THEN <<p[i].id, p[i].value>> ELSE <<q[k].id, q[k].value>>
  OBVIOUS
<1> QED BY <1>1, <1>3, <1>4, <1>5

-----------------------------------------------------------------------------
(* From the lists of variants to the steps of the catalog.                 *)

CatalogView == [s \in Slugs |-> Contents(s)]

CatalogStep == Abstract!Next \/ UNCHANGED CatalogView

Unchanged(s) == Contents(s)' = Contents(s)

\* The catalog sees the pairs of each list.
LEMMA ContentsArePairs ==
    /\ \A s \in Slugs : Contents(s) = Pairs(variantsLocked(s))
    /\ \A s \in Slugs : Contents(s)' = Pairs(variantsLocked(s)')
BY DEF Contents, Pairs

\* A step that changes what is under at most one name.
LEMMA OneNameChanges ==
    ASSUME NEW slug \in Slugs, \A s \in Slugs \ {slug} : Unchanged(s)
    PROVE  CatalogView' = [CatalogView EXCEPT ![slug] = Contents(slug)']
BY DEF CatalogView, Unchanged

\* A step under which every list keeps its ids and values.
LEMMA NothingChanges ==
    ASSUME \A s \in Slugs : Unchanged(s)
    PROVE  CatalogStep
BY DEF CatalogStep, CatalogView, Unchanged

\* One entry is added.
LEMMA EntryAdded ==
    ASSUME NEW slug \in Slugs, NEW o \in Object,
           \A s \in Slugs \ {slug} : Unchanged(s),
           variantsLocked(slug) \in Seq(Object),
           variantsLocked(slug)' = Append(variantsLocked(slug), o),
           \A i \in DOMAIN variantsLocked(slug) : variantsLocked(slug)[i].id # o.id
    PROVE  CatalogStep
<1>1. Contents(slug)' = Append(Contents(slug), <<o.id, o.value>>)
  BY ContentsArePairs, PairsAppend
<1>2. o.id \in IDs /\ o.value \in Values
  BY DEF Object
<1>3. \A i \in DOMAIN Contents(slug) : Contents(slug)[i][1] # o.id
  <2>1. /\ DOMAIN Contents(slug) = DOMAIN variantsLocked(slug)
        /\ \A i \in DOMAIN variantsLocked(slug) :
             Contents(slug)[i] = <<variantsLocked(slug)[i].id, variantsLocked(slug)[i].value>>
    BY ContentsArePairs, PairsType
  <2> QED BY <2>1
<1>4. CatalogView' = [CatalogView EXCEPT ![slug] =
         Append(CatalogView[slug], <<o.id, o.value>>)]
  BY <1>1, OneNameChanges DEF CatalogView
<1>5. o.id \notin {CatalogView[slug][i][1] : i \in DOMAIN CatalogView[slug]}
  BY <1>3 DEF CatalogView
<1>6. Abstract!Add(slug, o.id, o.value)
  BY <1>4, <1>5 DEF Abstract!Add, Abstract!IDsOf, CatalogView
<1> QED BY <1>2, <1>6 DEF CatalogStep, Abstract!Next

\* One entry gets another value, or the one it has.
LEMMA EntryReplaced ==
    ASSUME NEW slug \in Slugs, \A s \in Slugs \ {slug} : Unchanged(s),
           variantsLocked(slug) \in Seq(Object), variantsLocked(slug)' \in Seq(Object),
           DOMAIN variantsLocked(slug)' = DOMAIN variantsLocked(slug),
           NEW i \in DOMAIN variantsLocked(slug),
           variantsLocked(slug)'[i].id = variantsLocked(slug)[i].id,
           \A k \in DOMAIN variantsLocked(slug) :
              k # i => variantsLocked(slug)'[k] = variantsLocked(slug)[k]
    PROVE  CatalogStep
<1> DEFINE v == variantsLocked(slug)'[i].value
<1>1. v \in Values
  <2>1. variantsLocked(slug)'[i] \in Object
    BY ElementOfSeq
  <2> QED BY <2>1 DEF Object
<1>2. Contents(slug)' = [Contents(slug) EXCEPT ![i] = <<Contents(slug)[i][1], v>>]
  BY ContentsArePairs, PairsReplace
<1>3. i \in DOMAIN Contents(slug)
  BY ContentsArePairs, PairsType
<1> HIDE DEF v
<1>4. CatalogView' = [CatalogView EXCEPT ![slug] =
         [CatalogView[slug] EXCEPT ![i] = <<CatalogView[slug][i][1], v>>]]
  BY <1>2, OneNameChanges DEF CatalogView
<1>5. i \in DOMAIN CatalogView[slug] /\ Abstract!Replace(slug, i, v)
  BY <1>3, <1>4 DEF Abstract!Replace, CatalogView
<1> QED BY <1>1, <1>5 DEF CatalogStep, Abstract!Next, CatalogView

\* One entry goes.
LEMMA EntryDropped ==
    ASSUME NEW slug \in Slugs, \A s \in Slugs \ {slug} : Unchanged(s),
           variantsLocked(slug) \in Seq(Object), NEW i \in DOMAIN variantsLocked(slug),
           variantsLocked(slug)' = RemoveAt(variantsLocked(slug), i)
    PROVE  CatalogStep
<1>1. Contents(slug)' = RemoveAt(Contents(slug), i)
  BY ContentsArePairs, PairsRemove
<1>2. i \in DOMAIN Contents(slug)
  BY ContentsArePairs, PairsType
<1>3. CatalogView' = [CatalogView EXCEPT ![slug] = RemoveAt(CatalogView[slug], i)]
  BY <1>1, OneNameChanges DEF CatalogView
<1>4. i \in DOMAIN CatalogView[slug] /\ Abstract!Drop(slug, i)
  BY <1>2, <1>3 DEF Abstract!Drop, CatalogView, RemoveAt, Abstract!RemoveAt
<1> QED BY <1>4 DEF CatalogStep, Abstract!Next, CatalogView

\* A name moves to a slug that was free.
LEMMA NameMoved ==
    ASSUME NEW slug \in Slugs, NEW to \in Slugs, slug # to,
           \A s \in Slugs \ {slug, to} : Unchanged(s),
           variantsLocked(to) = << >>, variantsLocked(slug)' = << >>,
           Contents(to)' = Contents(slug)
    PROVE  CatalogStep
<1>1. Pairs(<< >>) = << >>
  BY DEF Pairs
<1>2. Contents(to) = << >> /\ Contents(slug)' = << >>
  BY <1>1, ContentsArePairs
<1>3. CatalogView' = [CatalogView EXCEPT ![to] = CatalogView[slug], ![slug] = << >>]
  BY <1>2 DEF CatalogView, Unchanged
<1>4. Abstract!Move(slug, to)
  BY <1>2, <1>3 DEF Abstract!Move, CatalogView
<1> QED BY <1>4 DEF CatalogStep, Abstract!Next

-----------------------------------------------------------------------------
(* The operations.                                                         *)

\* A list that stays is seen as the same.
LEMMA SameListUnchanged ==
    ASSUME NEW s \in Slugs, variantsLocked(s)' = variantsLocked(s)
    PROVE  Unchanged(s)
BY ContentsArePairs DEF Unchanged

\* A step that leaves both maps alone, as refusals do.
LEMMA MapsStay ==
    ASSUME objects' = objects, extra' = extra
    PROVE  CatalogStep
BY SameListUnchanged, NothingChanges DEF variantsLocked

\* createObject adds the first entry of a name.
LEMMA CreateRefines ==
    ASSUME IndInv, NEW slug \in Slugs, NEW value \in Values,
           NEW usedBy \in SUBSET Consumers, NEW description \in Descriptions,
           NEW tags \in SUBSET Tags,
           createObject(slug, value, usedBy, description, tags)
    PROVE  CatalogStep
<1>1. CASE objects[slug] # Absent
  BY <1>1, MapsStay DEF createObject, Refuse
<1>2. CASE objects[slug] = Absent
  <2> DEFINE new == [id |-> objectID(slug), value |-> value, usedBy |-> usedBy,
                     description |-> description, tags |-> tags]
  <2>1. objects' = [objects EXCEPT ![slug] = new] /\ extra' = extra
    BY <1>2 DEF createObject
  <2>2. new \in Object
    BY DEF Object, IDs
  <2> HIDE DEF new
  <2>3. extra[slug] = << >> /\ variantsLocked(slug) = << >>
    BY <1>2 DEF IndInv, NoOrphanVariants, variantsLocked
  <2>4. variantsLocked(slug)' = <<new>>
    BY <2>1, <2>2, <2>3, ObjectsAreThere DEF variantsLocked, IndInv, TypeOK
  <2>5. Append(variantsLocked(slug), new) = <<new>> /\ variantsLocked(slug) \in Seq(Object)
    BY <2>3
  <2>6. \A s \in Slugs \ {slug} : Unchanged(s)
    BY <2>1, SameListUnchanged DEF variantsLocked, IndInv, TypeOK
  <2>7. /\ variantsLocked(slug)' = Append(variantsLocked(slug), new)
        /\ \A i \in DOMAIN variantsLocked(slug) : variantsLocked(slug)[i].id # new.id
    BY <2>3, <2>4, <2>5
  <2> QED BY <2>2, <2>5, <2>6, <2>7, EntryAdded
<1> QED BY <1>1, <1>2

\* AddVariant adds an entry at the end, under an id that is new.
LEMMA AddVariantRefines ==
    ASSUME IndInv, NEW slug \in Slugs, NEW value \in Values,
           NEW usedBy \in SUBSET Consumers, AddVariant(slug, value, usedBy)
    PROVE  CatalogStep
<1>1. CASE objects[slug] = Absent
  BY <1>1, MapsStay DEF AddVariant, Refuse
<1>2. CASE objects[slug] # Absent
  <2>1. PICK r \in RandomIDs \ issued :
          /\ extra' = [extra EXCEPT ![slug] = Append(@,
                [id |-> NewString(r), value |-> value, usedBy |-> usedBy,
                 description |-> EmptyDescription, tags |-> {}])]
          /\ objects' = objects
    BY <1>2 DEF AddVariant
  <2> DEFINE new == [id |-> NewString(r), value |-> value, usedBy |-> usedBy,
                     description |-> EmptyDescription, tags |-> {}]
             old == variantsLocked(slug)
  <2>2. new \in Object /\ new.id = NewString(r)
    BY EmptyDescriptionAssumption DEF Object, IDs
  <2> HIDE DEF new
  <2>3. extra' = [extra EXCEPT ![slug] = Append(extra[slug], new)]
    BY <2>1 DEF new
  <2>4. /\ extra[slug] \in Seq(Object) /\ objects[slug] \in Object /\ old \in Seq(Object)
    BY <1>2, VariantsType DEF IndInv, TypeOK
  <2>4a. \A i \in DOMAIN old : \/ \E t \in Slugs : old[i].id = objectID(t)
                              \/ \E q \in issued : old[i].id = NewString(q)
    BY DEF IndInv, IDsIssued
  <2>5. old = <<objects[slug]>> \o extra[slug]
    BY <1>2 DEF variantsLocked
  <2>6. variantsLocked(slug)' = <<objects[slug]>> \o Append(extra[slug], new)
    BY <1>2, <2>1, <2>3 DEF variantsLocked, IndInv, TypeOK
  <2>7. variantsLocked(slug)' = Append(old, new)
    BY <2>2, <2>4, <2>5, <2>6
  <2>8. \A i \in DOMAIN old : old[i].id # new.id
    BY <2>1, <2>2, <2>4a, DerivedIsNotRandom
  <2>9. \A s \in Slugs \ {slug} : Unchanged(s)
    BY <2>1, <2>3, SameListUnchanged DEF variantsLocked, IndInv, TypeOK
  <2> QED BY <2>2, <2>4, <2>7, <2>8, <2>9, EntryAdded
<1> QED BY <1>1, <1>2

\* updateVariant replaces the value of one entry.
LEMMA UpdateRefines ==
    ASSUME IndInv, NEW slug \in Slugs, NEW sel, NEW value \in Values,
           NEW tags \in Opt(SUBSET Tags), NEW usedBy \in Opt(SUBSET Consumers),
           updateVariant(slug, sel, value, tags, usedBy)
    PROVE  CatalogStep
<1>1. CASE Refuse(FindError(slug, sel))
  BY <1>1, MapsStay DEF Refuse
<1>2. ASSUME NEW i \in DOMAIN variantsLocked(slug),
             LET obj == [variantsLocked(slug)[i] EXCEPT
                            !.value = value, !.tags = Given(tags, @),
                            !.usedBy = Given(usedBy, @)]
                 vs  == [variantsLocked(slug) EXCEPT ![i] = obj]
             IN /\ objects' = StoreFirst(objects, slug, vs)
                /\ extra' = StoreRest(extra, slug, vs)
      PROVE  CatalogStep
  <2> DEFINE old == variantsLocked(slug)
             obj == [old[i] EXCEPT !.value = value, !.tags = Given(tags, @),
                                   !.usedBy = Given(usedBy, @)]
             vs  == [old EXCEPT ![i] = obj]
  <2>1. old \in Seq(Object) /\ old[i] \in Object
    BY VariantsType, ElementOfSeq DEF IndInv
  <2>2. /\ Given(tags, old[i].tags) \in SUBSET Tags
        /\ Given(usedBy, old[i].usedBy) \in SUBSET Consumers
    BY <2>1, GivenType DEF Object
  <2>3. obj \in Object /\ obj.id = old[i].id
    BY <2>1, <2>2 DEF Object
  <2> HIDE DEF obj
  <2>4. /\ vs \in Seq(Object) /\ DOMAIN vs = DOMAIN old
        /\ vs[i] = obj /\ \A k \in DOMAIN old : k # i => vs[k] = old[k]
    BY <2>1, <2>3
  <2> HIDE DEF vs, old
  <2>5. objects' = StoreFirst(objects, slug, vs) /\ extra' = StoreRest(extra, slug, vs)
    BY <1>2 DEF vs, obj, old
  <2>6. /\ variantsLocked(slug)' = vs
        /\ \A s \in Slugs \ {slug} : variantsLocked(s)' = variantsLocked(s)
    BY <2>4, <2>5, StoreOne DEF IndInv
  <2>7. \A s \in Slugs \ {slug} : Unchanged(s)
    BY <2>6, SameListUnchanged
  <2> QED BY <2>1, <2>3, <2>4, <2>6, <2>7, EntryReplaced DEF old
<1> QED BY <1>1, <1>2 DEF updateVariant

\* patchVariant changes no entry, and moves the whole name when it renames.
LEMMA PatchRefines ==
    ASSUME IndInv, NEW slug \in Slugs, NEW sel,
           NEW description \in Opt(Descriptions), NEW newSlug \in Opt(Slugs),
           NEW tags \in Opt(SUBSET Tags),
           patchVariant(slug, sel, description, newSlug, tags)
    PROVE  CatalogStep
<1> DEFINE to == Given(newSlug, slug)
<1>1. CASE Refuse(FindError(slug, sel)) \/ Refuse("already exists")
  BY <1>1, MapsStay DEF Refuse
<1>2. ASSUME NEW i \in DOMAIN variantsLocked(slug), ~(to # slug /\ objects[to] # Absent),
             LET obj == [variantsLocked(slug)[i] EXCEPT
                            !.description = Given(description, @),
                            !.tags = Given(tags, @)]
                 vs  == [variantsLocked(slug) EXCEPT ![i] = obj]
             IN /\ objects' = StoreFirst(StoreFirst(objects, slug, << >>), to, vs)
                /\ extra' = StoreRest(StoreRest(extra, slug, << >>), to, vs)
      PROVE  CatalogStep
  <2> DEFINE old == variantsLocked(slug)
             obj == [old[i] EXCEPT !.description = Given(description, @),
                                   !.tags = Given(tags, @)]
             vs  == [old EXCEPT ![i] = obj]
  <2>1. old \in Seq(Object) /\ old[i] \in Object /\ to \in Slugs
    BY VariantsType, ElementOfSeq, GivenType DEF IndInv
  <2>2. /\ Given(tags, old[i].tags) \in SUBSET Tags
        /\ Given(description, old[i].description) \in Descriptions
    BY <2>1, GivenType DEF Object
  <2>3. obj \in Object /\ obj.id = old[i].id /\ obj.value = old[i].value
    BY <2>1, <2>2 DEF Object
  <2> HIDE DEF obj
  <2>4. /\ vs \in Seq(Object) /\ DOMAIN vs = DOMAIN old
        /\ vs[i] = obj /\ \A k \in DOMAIN old : k # i => vs[k] = old[k]
    BY <2>1, <2>3
  <2>5. \A k \in DOMAIN old : vs[k].id = old[k].id /\ vs[k].value = old[k].value
    BY <2>3, <2>4
  <2>6. /\ objects' = StoreFirst(StoreFirst(objects, slug, << >>), to, vs)
        /\ extra' = StoreRest(StoreRest(extra, slug, << >>), to, vs)
    BY <1>2 DEF obj
  <2> HIDE DEF vs, old
  <2>7. Pairs(vs) = Pairs(old)
    BY <2>1, <2>4, <2>5, PairsSame
  <2>8. /\ variantsLocked(to)' = vs
        /\ to # slug => variantsLocked(slug)' = << >>
        /\ \A s \in Slugs \ {slug, to} : variantsLocked(s)' = variantsLocked(s)
    BY <2>1, <2>4, <2>6, StoreMoved DEF IndInv
  <2>9. Contents(to)' = Contents(slug)
    BY <2>1, <2>7, <2>8, ContentsArePairs DEF old
  <2>10. \A s \in Slugs \ {slug, to} : Unchanged(s)
    BY <2>8, SameListUnchanged
  <2>11. CASE to = slug
    BY <2>9, <2>10, <2>11, NothingChanges DEF Unchanged
  <2>12. CASE to # slug
    <3>1. variantsLocked(to) = << >>
      BY <1>2, <2>12 DEF variantsLocked
    <3> HIDE DEF to
    <3> QED BY <2>1, <2>8, <2>9, <2>10, <2>12, <3>1, NameMoved
  <2> QED BY <2>11, <2>12
<1> QED BY <1>1, <1>2 DEF patchVariant

\* deleteVariant drops one entry.
LEMMA DeleteRefines ==
    ASSUME IndInv, NEW slug \in Slugs, NEW sel, deleteVariant(slug, sel)
    PROVE  CatalogStep
<1>1. CASE Refuse(FindError(slug, sel))
  BY <1>1, MapsStay DEF Refuse
<1>2. ASSUME NEW i \in DOMAIN variantsLocked(slug),
             LET vs == RemoveAt(variantsLocked(slug), i)
             IN /\ objects' = StoreFirst(objects, slug, vs)
                /\ extra' = StoreRest(extra, slug, vs)
      PROVE  CatalogStep
  <2> DEFINE vs == RemoveAt(variantsLocked(slug), i)
  <2>1. variantsLocked(slug) \in Seq(Object)
    BY VariantsType DEF IndInv
  <2>2. vs \in Seq(Object)
    BY <2>1, RemoveAtProperties
  <2>3. /\ variantsLocked(slug)' = vs
        /\ \A s \in Slugs \ {slug} : variantsLocked(s)' = variantsLocked(s)
    BY <1>2, <2>2, StoreOne DEF IndInv
  <2>4. \A s \in Slugs \ {slug} : Unchanged(s)
    BY <2>3, SameListUnchanged
  <2> QED BY <2>1, <2>3, <2>4, EntryDropped
<1> QED BY <1>1, <1>2 DEF deleteVariant

\* A step that rewrites metadata of first variants in place is not seen.
LEMMA FirstRewritten ==
    ASSUME IndInv, extra' = extra,
           objects' \in [Slugs -> Object \cup {Absent}],
           \A s \in Slugs :
              /\ objects'[s] = Absent <=> objects[s] = Absent
              /\ objects[s] # Absent => /\ objects'[s].id = objects[s].id
                                        /\ objects'[s].value = objects[s].value
    PROVE  CatalogStep
<1>1. ASSUME NEW s \in Slugs PROVE Unchanged(s)
  <2>1. CASE objects[s] = Absent
    BY <2>1, SameListUnchanged DEF variantsLocked
  <2>2. CASE objects[s] # Absent
    <3>1. /\ variantsLocked(s) = <<objects[s]>> \o extra[s]
          /\ variantsLocked(s)' = <<objects'[s]>> \o extra[s]
      BY <2>2 DEF variantsLocked
    <3>2. objects[s] \in Object /\ objects'[s] \in Object /\ extra[s] \in Seq(Object)
      BY <2>2 DEF IndInv, TypeOK
    <3> DEFINE p == <<objects'[s]>> \o extra[s]
               q == <<objects[s]>> \o extra[s]
    <3>3. /\ p \in Seq(Object) /\ q \in Seq(Object)
          /\ DOMAIN p = DOMAIN q
          /\ p[1] = objects'[s] /\ q[1] = objects[s]
          /\ \A i \in DOMAIN q : i # 1 => p[i] = q[i]
      BY <3>2
    <3> HIDE DEF p, q
    <3>4. \A i \in DOMAIN q : p[i].id = q[i].id /\ p[i].value = q[i].value
      BY <2>2, <3>3
    <3>5. Pairs(p) = Pairs(q)
      BY <3>3, <3>4, PairsSame
    <3> QED BY <3>1, <3>5, ContentsArePairs DEF p, q, Unchanged
  <2> QED BY <2>1, <2>2
<1> QED BY <1>1, NothingChanges

\* SetObjectTags is not seen.
LEMMA SetTagsRefines ==
    ASSUME IndInv, NEW slug \in Slugs, NEW tags \in SUBSET Tags,
           SetObjectTags(slug, tags)
    PROVE  CatalogStep
<1>1. CASE objects[slug] = Absent
  BY <1>1, MapsStay DEF SetObjectTags, Refuse
<1>2. CASE objects[slug] # Absent
  <2> DEFINE obj == [objects[slug] EXCEPT !.tags = tags]
  <2>1. objects' = [objects EXCEPT ![slug] = obj] /\ extra' = extra
    BY <1>2 DEF SetObjectTags
  <2>2. objects[slug] \in Object
    BY <1>2 DEF IndInv, TypeOK
  <2>3. obj \in Object /\ obj.id = objects[slug].id /\ obj.value = objects[slug].value
    BY <2>2 DEF Object
  <2> HIDE DEF obj
  <2>4. objects' \in [Slugs -> Object \cup {Absent}]
    BY <2>1, <2>3 DEF IndInv, TypeOK
  <2>5. \A s \in Slugs :
          /\ objects'[s] = Absent <=> objects[s] = Absent
          /\ objects[s] # Absent => /\ objects'[s].id = objects[s].id
                                    /\ objects'[s].value = objects[s].value
    BY <1>2, <2>1, <2>3, ObjectsAreThere DEF IndInv, TypeOK
  <2> QED BY <2>1, <2>4, <2>5, FirstRewritten
<1> QED BY <1>1, <1>2

\* The used_by walks of the consumer operations are not seen.
LEMMA WalkRefines ==
    ASSUME IndInv, NEW g \in [Slugs -> SUBSET Consumers],
           objects' = [s \in Slugs |-> IF objects[s] = Absent THEN Absent
                                       ELSE [objects[s] EXCEPT !.usedBy = g[s]]],
           extra' = extra
    PROVE  CatalogStep
<1> DEFINE obj(s) == [objects[s] EXCEPT !.usedBy = g[s]]
<1>1. ASSUME NEW s \in Slugs, objects[s] # Absent
      PROVE  obj(s) \in Object /\ obj(s).id = objects[s].id /\ obj(s).value = objects[s].value
  <2>1. objects[s] \in Object
    BY <1>1 DEF IndInv, TypeOK
  <2> QED BY <2>1 DEF Object
<1>2. objects' = [s \in Slugs |-> IF objects[s] = Absent THEN Absent ELSE obj(s)]
  OBVIOUS
<1> HIDE DEF obj
<1>3. objects' \in [Slugs -> Object \cup {Absent}]
  BY <1>1, <1>2
<1>4. \A s \in Slugs :
        /\ objects'[s] = Absent <=> objects[s] = Absent
        /\ objects[s] # Absent => /\ objects'[s].id = objects[s].id
                                  /\ objects'[s].value = objects[s].value
  BY <1>1, <1>2, ObjectsAreThere
<1> QED BY <1>3, <1>4, FirstRewritten

-----------------------------------------------------------------------------
(* The refinement.                                                         *)

\* The consumer operations are not seen.
LEMMA ConsumersRefine ==
    ASSUME IndInv, Register \/ Rename \/ Unregister
    PROVE  CatalogStep
<1>1. \A s \in Slugs : objects[s] # Absent => objects[s].usedBy \in SUBSET Consumers
  BY DEF IndInv, TypeOK, Object
<1>2. CASE UNCHANGED <<objects, extra>>
  BY <1>2, MapsStay
<1>3. ASSUME NEW name \in Consumers, NEW target \in Consumers, extra' = extra,
             WalkUsedBy(LAMBDA u : renameUsedBy(u, name, target))
      PROVE  CatalogStep
  <2> DEFINE g == [s \in Slugs |-> IF objects[s] = Absent THEN {}
                                   ELSE renameUsedBy(objects[s].usedBy, name, target)]
  <2>1. objects' = [s \in Slugs |-> IF objects[s] = Absent THEN Absent
                                    ELSE [objects[s] EXCEPT !.usedBy = g[s]]]
    BY <1>3 DEF WalkUsedBy
  <2>2. g \in [Slugs -> SUBSET Consumers]
    BY <1>1 DEF renameUsedBy
  <2> QED BY <1>3, <2>1, <2>2, WalkRefines
<1>4. ASSUME NEW name \in Consumers, extra' = extra,
             WalkUsedBy(LAMBDA u : removeUsedBy(u, name))
      PROVE  CatalogStep
  <2> DEFINE g == [s \in Slugs |-> IF objects[s] = Absent THEN {}
                                   ELSE removeUsedBy(objects[s].usedBy, name)]
  <2>1. objects' = [s \in Slugs |-> IF objects[s] = Absent THEN Absent
                                    ELSE [objects[s] EXCEPT !.usedBy = g[s]]]
    BY <1>4 DEF WalkUsedBy
  <2>2. g \in [Slugs -> SUBSET Consumers]
    BY <1>1 DEF removeUsedBy
  <2> QED BY <1>4, <2>1, <2>2, WalkRefines
<1>5. CASE Register
  BY <1>2, <1>5 DEF Register, AddConsumer, Refuse
<1>6. CASE Rename
  <2>1. PICK name \in Consumers, newName \in Opt(Consumers), publicKey \in Opt(Keys) :
          UpdateConsumer(name, newName, publicKey)
    BY <1>6 DEF Rename
  <2>2. Given(newName, name) \in Consumers
    BY GivenType
  <2> QED BY <1>2, <1>3, <2>1, <2>2 DEF UpdateConsumer, Refuse
<1>7. CASE Unregister
  BY <1>2, <1>4, <1>7 DEF Unregister, DeleteConsumer, Refuse
<1> QED BY <1>5, <1>6, <1>7

\* Every step of the store is a step of the catalog or is not seen.
LEMMA NextRefines == IndInv /\ [Next]_vars => CatalogStep
<1> SUFFICES ASSUME IndInv, [Next]_vars PROVE CatalogStep
  OBVIOUS
<1>1. CASE Create
  BY <1>1, CreateRefines DEF Create
<1>2. CASE Extend
  BY <1>2, AddVariantRefines DEF Extend
<1>3. CASE Update
  BY <1>3, UpdateRefines DEF Update
<1>4. CASE Patch
  BY <1>4, PatchRefines DEF Patch
<1>5. CASE Retag
  BY <1>5, SetTagsRefines DEF Retag
<1>6. CASE Delete
  BY <1>6, DeleteRefines DEF Delete
<1>7. CASE Register \/ Rename \/ Unregister
  BY <1>7, ConsumersRefine
<1>8. CASE UNCHANGED vars
  BY <1>8, MapsStay DEF vars
<1> QED BY <1>1, <1>2, <1>3, <1>4, <1>5, <1>6, <1>7, <1>8 DEF Next

\* The store implements the catalog: whatever is called in whatever order,
\* no operation touches more than the entry it addresses, ids under a name
\* stay apart, and a rename moves the whole name to a free slug.
THEOREM StoreImplementsCatalog == Spec => ImplementsCatalog
<1>1. Init => Abstract!Init
  <2> SUFFICES ASSUME Init PROVE Abstract!Init
    OBVIOUS
  <2>1. \A s \in Slugs : variantsLocked(s) = << >>
    BY DEF Init, variantsLocked
  <2>2. \A s \in Slugs : Contents(s) = << >>
    BY <2>1 DEF Contents
  <2> QED BY <2>2 DEF Abstract!Init
<1>2. IndInv /\ [Next]_vars => [Abstract!Next]_CatalogView
  BY NextRefines DEF CatalogStep
<1>3. IndInv /\ [Next]_vars => [Abstract!Next]_([s \in Slugs |-> Contents(s)])
  BY <1>2 DEF CatalogView
<1> QED BY <1>1, <1>3, Invariance, PTL DEF Spec, ImplementsCatalog, Abstract!Spec
=============================================================================
