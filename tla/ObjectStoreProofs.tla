------------------------- MODULE ObjectStoreProofs -------------------------
(***************************************************************************)
(* Proofs about ObjectStore, for every set of slugs, ids, consumers and    *)
(* keys.  The argument works on variantsLocked, the list of variants of a  *)
(* name: the first lemmas say what each way of writing objects and extra   *)
(* does to that list, the others carry the invariant over each operation.  *)
(***************************************************************************)
EXTENDS ObjectStore, SequenceTheorems, TLAPS

-----------------------------------------------------------------------------
(* Sequences.                                                              *)

\* RemoveAt shortens a sequence by one and closes the gap.
LEMMA RemoveAtProperties ==
    ASSUME NEW S, NEW q \in Seq(S), NEW i \in DOMAIN q
    PROVE  /\ RemoveAt(q, i) \in Seq(S)
           /\ Len(RemoveAt(q, i)) = Len(q) - 1
           /\ \A k \in 1..(Len(q) - 1) :
                RemoveAt(q, i)[k] = IF k < i THEN q[k] ELSE q[k + 1]
<1> DEFINE a == SubSeq(q, 1, i - 1)
           b == SubSeq(q, i + 1, Len(q))
<1>0. i \in 1..Len(q) /\ Len(q) \in Nat
  BY LenProperties
<1>1. /\ a \in Seq(S) /\ Len(a) = i - 1
      /\ \A k \in 1..(i - 1) : a[k] = q[k]
  BY <1>0
<1>2. /\ b \in Seq(S) /\ Len(b) = Len(q) - i
      /\ \A k \in 1..(Len(q) - i) : b[k] = q[k + i]
  BY <1>0
<1> HIDE DEF a, b
<1>3. /\ a \o b \in Seq(S) /\ Len(a \o b) = Len(q) - 1
      /\ \A k \in 1..(Len(q) - 1) : (a \o b)[k] = IF k < i THEN a[k] ELSE b[k - (i - 1)]
  BY <1>0, <1>1, <1>2
<1>4. \A k \in 1..(Len(q) - 1) : (a \o b)[k] = IF k < i THEN q[k] ELSE q[k + 1]
  <2> TAKE k \in 1..(Len(q) - 1)
  <2>1. CASE k < i
    BY <2>1, <1>0, <1>1, <1>3
  <2>2. CASE ~(k < i)
    <3>1. k - (i - 1) \in 1..(Len(q) - i) /\ (k - (i - 1)) + i = k + 1
      BY <2>2, <1>0
    <3> QED BY <2>2, <3>1, <1>2, <1>3
  <2> QED BY <2>1, <2>2
<1> QED BY <1>3, <1>4 DEF RemoveAt, a, b

\* A nonempty sequence is its first element and the rest, as
\* storeVariantsLocked splits it.
LEMMA SplitFirst ==
    ASSUME NEW S, NEW q \in Seq(S), q # << >>
    PROVE  /\ q[1] \in S
           /\ (IF Len(q) > 1 THEN Tail(q) ELSE << >>) \in Seq(S)
           /\ <<q[1]>> \o (IF Len(q) > 1 THEN Tail(q) ELSE << >>) = q
<1>1. Len(q) \in Nat /\ Len(q) >= 1 /\ q[1] \in S
  BY EmptySeq
<1>2. CASE Len(q) > 1
  BY <1>1, <1>2
<1>3. CASE Len(q) = 1
  BY <1>1, <1>3
<1> QED BY <1>1, <1>2, <1>3

-----------------------------------------------------------------------------
(* The list of variants of a name, and what writing it back does.          *)

\* The variants of a name are a sequence of objects, the first one first.
LEMMA VariantsType ==
    ASSUME TypeOK, NEW s \in Slugs
    PROVE  /\ variantsLocked(s) \in Seq(Object)
           /\ objects[s] = Absent <=> variantsLocked(s) = << >>
           /\ objects[s] # Absent =>
                /\ objects[s] \in Object
                /\ variantsLocked(s)[1] = objects[s]
                /\ Len(variantsLocked(s)) = 1 + Len(extra[s])
                /\ \A i \in DOMAIN extra[s] : variantsLocked(s)[i + 1] = extra[s][i]
<1>1. extra[s] \in Seq(Object) /\ (objects[s] # Absent => objects[s] \in Object)
  BY DEF TypeOK
<1>2. CASE objects[s] = Absent
  BY <1>2 DEF variantsLocked
<1>3. CASE objects[s] # Absent
  <2>1. variantsLocked(s) = <<objects[s]>> \o extra[s]
    BY <1>3 DEF variantsLocked
  <2> QED BY <1>1, <1>3, <2>1
<1> QED BY <1>2, <1>3

\* used_by lists hold consumers.
LEMMA UsedByAreConsumers ==
    ASSUME TypeOK, NEW s \in Slugs, NEW i \in DOMAIN variantsLocked(s)
    PROVE  variantsLocked(s)[i].usedBy \subseteq Consumers
<1>1. variantsLocked(s)[i] \in Object
  BY VariantsType, ElementOfSeq
<1> QED BY <1>1 DEF Object

\* Absent is no object, so writing a list never reads back as nothing.
LEMMA ObjectsAreThere == \A o \in Object : o # Absent
BY AbsentAssumption

\* storeVariantsLocked reads back as what was written, under any maps.
LEMMA StoreReadsBack ==
    ASSUME NEW objs \in [Slugs -> Object \cup {Absent}],
           NEW ext \in [Slugs -> Seq(Object)],
           NEW slug \in Slugs, NEW vs \in Seq(Object),
           objects' = StoreFirst(objs, slug, vs),
           extra' = StoreRest(ext, slug, vs)
    PROVE  /\ objects' \in [Slugs -> Object \cup {Absent}]
           /\ extra' \in [Slugs -> Seq(Object)]
           /\ variantsLocked(slug)' = vs
           /\ objects'[slug] = Absent => extra'[slug] = << >>
           /\ \A s \in Slugs \ {slug} : objects'[s] = objs[s] /\ extra'[s] = ext[s]
<1>1. \A s \in Slugs \ {slug} : objects'[s] = objs[s] /\ extra'[s] = ext[s]
  BY DEF StoreFirst, StoreRest
<1>2. CASE vs = << >>
  <2>1. objects'[slug] = Absent /\ extra'[slug] = << >>
    BY <1>2 DEF StoreFirst, StoreRest
  <2>2. << >> \in Seq(Object)
    OBVIOUS
  <2>3. variantsLocked(slug)' = vs
    BY <1>2, <2>1 DEF variantsLocked
  <2> QED BY <1>1, <1>2, <2>1, <2>2, <2>3 DEF StoreFirst, StoreRest
<1>3. CASE vs # << >>
  <2> DEFINE rest == IF Len(vs) > 1 THEN Tail(vs) ELSE << >>
  <2>1. vs[1] \in Object /\ rest \in Seq(Object) /\ <<vs[1]>> \o rest = vs
    BY <1>3, SplitFirst
  <2>2. objects'[slug] = vs[1] /\ extra'[slug] = rest
    BY <1>3 DEF StoreFirst, StoreRest
  <2>3. objects'[slug] # Absent
    BY <2>1, <2>2, ObjectsAreThere
  <2>4. variantsLocked(slug)' = vs
    BY <2>1, <2>2, <2>3 DEF variantsLocked
  <2>5. objects' \in [Slugs -> Object \cup {Absent}]
    BY <1>3, <2>1 DEF StoreFirst
  <2>6. extra' \in [Slugs -> Seq(Object)]
    BY <2>1 DEF StoreRest
  <2> QED BY <1>1, <2>3, <2>4, <2>5, <2>6
<1> QED BY <1>2, <1>3

\* The list of every name whose two map entries stay as they are stays.
LEMMA SameEntriesSameVariants ==
    ASSUME NEW s \in Slugs, objects'[s] = objects[s], extra'[s] = extra[s]
    PROVE  variantsLocked(s)' = variantsLocked(s)
BY DEF variantsLocked

\* Writing back one name: its list is the one written, the others stay.
LEMMA StoreOne ==
    ASSUME TypeOK, NoOrphanVariants, NEW slug \in Slugs, NEW vs \in Seq(Object),
           objects' = StoreFirst(objects, slug, vs),
           extra' = StoreRest(extra, slug, vs)
    PROVE  /\ objects' \in [Slugs -> Object \cup {Absent}]
           /\ extra' \in [Slugs -> Seq(Object)]
           /\ NoOrphanVariants'
           /\ variantsLocked(slug)' = vs
           /\ \A s \in Slugs \ {slug} : variantsLocked(s)' = variantsLocked(s)
<1>1. /\ objects' \in [Slugs -> Object \cup {Absent}]
      /\ extra' \in [Slugs -> Seq(Object)]
      /\ variantsLocked(slug)' = vs
      /\ objects'[slug] = Absent => extra'[slug] = << >>
      /\ \A s \in Slugs \ {slug} : objects'[s] = objects[s] /\ extra'[s] = extra[s]
  BY StoreReadsBack DEF TypeOK
<1>2. NoOrphanVariants'
  BY <1>1 DEF NoOrphanVariants
<1>3. \A s \in Slugs \ {slug} : variantsLocked(s)' = variantsLocked(s)
  BY <1>1, SameEntriesSameVariants
<1> QED BY <1>1, <1>2, <1>3

\* Renaming a name: the list moves, the old slug is left empty.
LEMMA StoreMoved ==
    ASSUME TypeOK, NoOrphanVariants,
           NEW slug \in Slugs, NEW to \in Slugs, NEW vs \in Seq(Object),
           objects' = StoreFirst(StoreFirst(objects, slug, << >>), to, vs),
           extra' = StoreRest(StoreRest(extra, slug, << >>), to, vs)
    PROVE  /\ objects' \in [Slugs -> Object \cup {Absent}]
           /\ extra' \in [Slugs -> Seq(Object)]
           /\ NoOrphanVariants'
           /\ variantsLocked(to)' = vs
           /\ to # slug => variantsLocked(slug)' = << >>
           /\ \A s \in Slugs \ {slug, to} : variantsLocked(s)' = variantsLocked(s)
<1> DEFINE objs == StoreFirst(objects, slug, << >>)
           ext  == StoreRest(extra, slug, << >>)
<1>1. /\ objs \in [Slugs -> Object \cup {Absent}] /\ ext \in [Slugs -> Seq(Object)]
      /\ objs[slug] = Absent /\ ext[slug] = << >>
      /\ \A s \in Slugs \ {slug} : objs[s] = objects[s] /\ ext[s] = extra[s]
  BY DEF TypeOK, StoreFirst, StoreRest
<1> HIDE DEF objs, ext
<1>2. /\ objects' \in [Slugs -> Object \cup {Absent}]
      /\ extra' \in [Slugs -> Seq(Object)]
      /\ variantsLocked(to)' = vs
      /\ objects'[to] = Absent => extra'[to] = << >>
      /\ \A s \in Slugs \ {to} : objects'[s] = objs[s] /\ extra'[s] = ext[s]
  <2>1. objects' = StoreFirst(objs, to, vs) /\ extra' = StoreRest(ext, to, vs)
    BY DEF objs, ext
  <2> QED BY <1>1, <2>1, StoreReadsBack
<1>3. NoOrphanVariants'
  BY <1>1, <1>2 DEF NoOrphanVariants
<1>4. \A s \in Slugs \ {slug, to} : variantsLocked(s)' = variantsLocked(s)
  BY <1>1, <1>2, SameEntriesSameVariants
<1>5. to # slug => variantsLocked(slug)' = << >>
  BY <1>1, <1>2 DEF variantsLocked
<1> QED BY <1>2, <1>3, <1>4, <1>5

-----------------------------------------------------------------------------
(* The inductive invariant.  VariantIDsDistinct needs IDsIssued (a new     *)
(* random id collides with nothing stored), DirectoryCoversCreated needs   *)
(* it too (what createObject made is always the first of its name, so the  *)
(* used_by walks over s.objects reach it), and both rest on                *)
(* NoOrphanVariants (a created name starts with one variant).              *)

IndInv ==
    /\ TypeOK
    /\ NoOrphanVariants
    /\ IDsIssued
    /\ VariantIDsDistinct
    /\ DirectoryCoversCreated

\* A derived id is never a random one, and random ids differ.
LEMMA DerivedIsNotRandom ==
    /\ \A s, r : objectID(s) # NewString(r)
    /\ \A q, r : NewString(q) = NewString(r) => q = r
BY DEF objectID, NewString

\* A step after which every name has the ids some name had before, or none,
\* keeps the two invariants about ids.
LEMMA SameIDs ==
    ASSUME IDsIssued, VariantIDsDistinct, issued \subseteq issued',
           \A s \in Slugs : variantsLocked(s)' = << >> \/ \E t \in Slugs :
              /\ DOMAIN variantsLocked(s)' = DOMAIN variantsLocked(t)
              /\ \A i \in DOMAIN variantsLocked(t) :
                    variantsLocked(s)'[i].id = variantsLocked(t)[i].id
    PROVE  IDsIssued' /\ VariantIDsDistinct'
<1>1. ASSUME NEW s \in Slugs, NEW i \in DOMAIN variantsLocked(s)'
      PROVE  \/ i = 1 /\ \E u \in Slugs : variantsLocked(s)'[i].id = objectID(u)
             \/ \E r \in issued' : variantsLocked(s)'[i].id = NewString(r)
  <2>1. variantsLocked(s)' # << >>
    BY <1>1
  <2>2. PICK t \in Slugs : /\ DOMAIN variantsLocked(s)' = DOMAIN variantsLocked(t)
                           /\ \A k \in DOMAIN variantsLocked(t) :
                                variantsLocked(s)'[k].id = variantsLocked(t)[k].id
    BY <2>1
  <2> QED BY <2>2 DEF IDsIssued
<1>2. ASSUME NEW s \in Slugs, NEW i \in DOMAIN variantsLocked(s)',
             NEW j \in DOMAIN variantsLocked(s)',
             variantsLocked(s)'[i].id = variantsLocked(s)'[j].id
      PROVE  i = j
  <2>1. variantsLocked(s)' # << >>
    BY <1>2
  <2>2. PICK t \in Slugs : /\ DOMAIN variantsLocked(s)' = DOMAIN variantsLocked(t)
                           /\ \A k \in DOMAIN variantsLocked(t) :
                                variantsLocked(s)'[k].id = variantsLocked(t)[k].id
    BY <2>1
  <2> QED BY <1>2, <2>2 DEF VariantIDsDistinct
<1> QED BY <1>1, <1>2 DEF IDsIssued, VariantIDsDistinct

\* Joining names keeps the directory a directory, drops no entry, and puts
\* every joined name in it.
LEMMA JoinedProperties ==
    ASSUME TypeOK, NEW names \in SUBSET Consumers
    PROVE  /\ Joined(names) \in [Consumers -> Keys \cup {Nil, Absent}]
           /\ \A c \in Consumers : consumers[c] # Absent => Joined(names)[c] = consumers[c]
           /\ \A c \in names : Joined(names)[c] # Absent
<1>1. Nil # Absent
  BY AbsentAssumption
<1> QED BY <1>1 DEF TypeOK, Joined

\* The empty store satisfies the invariant.
LEMMA InitIndInv == Init => IndInv
<1> SUFFICES ASSUME Init PROVE IndInv
  OBVIOUS
<1>1. TypeOK
  BY DEF Init, TypeOK, Replies
<1>2. \A s \in Slugs : variantsLocked(s) = << >>
  BY DEF Init, variantsLocked
<1> QED BY <1>1, <1>2 DEF Init, IndInv, NoOrphanVariants, IDsIssued,
          VariantIDsDistinct, DirectoryCoversCreated

\* A refused operation leaves everything but the reply.
LEMMA RefuseIndInv ==
    ASSUME IndInv, NEW err \in Replies, Refuse(err)
    PROVE  IndInv'
<1>1. \A s \in Slugs : variantsLocked(s)' = variantsLocked(s)
  BY DEF Refuse, variantsLocked
<1> QED BY <1>1 DEF Refuse, IndInv, TypeOK, NoOrphanVariants, IDsIssued,
          VariantIDsDistinct, DirectoryCoversCreated

\* createObject keeps the invariant: its only variant has the name's own id.
LEMMA CreateIndInv ==
    ASSUME IndInv, NEW slug \in Slugs, NEW value \in Values,
           NEW usedBy \in SUBSET Consumers, NEW description \in Descriptions,
           NEW tags \in SUBSET Tags,
           createObject(slug, value, usedBy, description, tags)
    PROVE  IndInv'
<1>1. CASE objects[slug] # Absent
  BY <1>1, RefuseIndInv DEF createObject, Replies
<1>2. CASE objects[slug] = Absent
  <2> DEFINE new == [id |-> objectID(slug), value |-> value, usedBy |-> usedBy,
                     description |-> description, tags |-> tags]
  <2>1. /\ objects' = [objects EXCEPT ![slug] = new]
        /\ consumers' = Joined(usedBy) /\ reply' = "ok"
        /\ extra' = extra /\ issued' = issued
    BY <1>2 DEF createObject
  <2>2. new \in Object
    BY DEF Object, IDs
  <2> HIDE DEF new
  <2>3. extra[slug] = << >>
    BY <1>2 DEF IndInv, NoOrphanVariants
  <2>4. variantsLocked(slug)' = <<new>>
    BY <2>1, <2>2, <2>3, ObjectsAreThere DEF variantsLocked, IndInv, TypeOK
  <2>5. \A s \in Slugs \ {slug} : variantsLocked(s)' = variantsLocked(s)
    BY <2>1 DEF variantsLocked, IndInv, TypeOK
  <2>6. TypeOK'
    BY <2>1, <2>2, JoinedProperties DEF IndInv, TypeOK, Replies
  <2>7. NoOrphanVariants'
    BY <2>1, <2>3 DEF IndInv, TypeOK, NoOrphanVariants
  <2>8. new.id = objectID(slug) /\ new.usedBy = usedBy
    BY DEF new
  <2>9. IDsIssued'
    BY <2>1, <2>4, <2>5, <2>8 DEF IndInv, IDsIssued
  <2>10. VariantIDsDistinct'
    BY <2>4, <2>5 DEF IndInv, VariantIDsDistinct
  <2>11. DirectoryCoversCreated'
    <3>1. \A s \in Slugs \ {slug} : \A i \in DOMAIN variantsLocked(s) :
             variantsLocked(s)[i] \in Object
      BY VariantsType DEF IndInv
    <3>2. \A c \in Consumers : consumers[c] # Absent => consumers'[c] # Absent
      BY <2>1, JoinedProperties DEF IndInv
    <3>3. \A c \in usedBy : consumers'[c] # Absent
      BY <2>1, JoinedProperties DEF IndInv
    <3> QED BY <2>4, <2>5, <2>8, <3>1, <3>2, <3>3 DEF IndInv, DirectoryCoversCreated, Object
  <2> QED BY <2>6, <2>7, <2>9, <2>10, <2>11 DEF IndInv
<1> QED BY <1>1, <1>2

\* AddVariant keeps the invariant: the appended id was never issued before.
LEMMA AddVariantIndInv ==
    ASSUME IndInv, NEW slug \in Slugs, NEW value \in Values,
           NEW usedBy \in SUBSET Consumers, AddVariant(slug, value, usedBy)
    PROVE  IndInv'
<1>1. CASE objects[slug] = Absent
  BY <1>1, RefuseIndInv DEF AddVariant, Replies
<1>2. CASE objects[slug] # Absent
  <2>1. PICK r \in RandomIDs \ issued :
          /\ extra' = [extra EXCEPT ![slug] = Append(@,
                [id |-> NewString(r), value |-> value, usedBy |-> usedBy,
                 description |-> EmptyDescription, tags |-> {}])]
          /\ issued' = issued \cup {r}
          /\ reply' = "ok" /\ objects' = objects /\ consumers' = consumers
    BY <1>2 DEF AddVariant
  <2> DEFINE new == [id |-> NewString(r), value |-> value, usedBy |-> usedBy,
                     description |-> EmptyDescription, tags |-> {}]
             old == variantsLocked(slug)
  <2>2. new \in Object /\ new.id = NewString(r)
    BY EmptyDescriptionAssumption DEF Object, IDs
  <2> HIDE DEF new
  <2>3. extra' = [extra EXCEPT ![slug] = Append(extra[slug], new)]
    BY <2>1 DEF new
  <2>4. extra[slug] \in Seq(Object) /\ objects[slug] \in Object
    BY <1>2 DEF IndInv, TypeOK
  <2>5. TypeOK'
    <3>1. Append(extra[slug], new) \in Seq(Object)
      BY <2>2, <2>4
    <3>2. extra' \in [Slugs -> Seq(Object)]
      BY <2>3, <3>1 DEF IndInv, TypeOK
    <3>3. issued' \subseteq RandomIDs
      BY <2>1 DEF IndInv, TypeOK
    <3> QED BY <2>1, <3>2, <3>3 DEF IndInv, TypeOK, Replies
  <2>6. NoOrphanVariants'
    BY <1>2, <2>1, <2>3 DEF IndInv, TypeOK, NoOrphanVariants
  <2>7. variantsLocked(slug)' = Append(old, new)
    <3>1. variantsLocked(slug)' = <<objects[slug]>> \o Append(extra[slug], new)
      BY <1>2, <2>1, <2>3 DEF variantsLocked, IndInv, TypeOK
    <3>2. old = <<objects[slug]>> \o extra[slug]
      BY <1>2 DEF variantsLocked
    <3> QED BY <2>2, <2>4, <3>1, <3>2
  <2>8. \A s \in Slugs \ {slug} : variantsLocked(s)' = variantsLocked(s)
    BY <2>1, <2>3 DEF variantsLocked, IndInv, TypeOK
  <2>9. old \in Seq(Object) /\ old # << >>
    BY <1>2, VariantsType DEF IndInv
  <2>10. /\ DOMAIN variantsLocked(slug)' = 1..(Len(old) + 1)
         /\ \A i \in DOMAIN old : variantsLocked(slug)'[i] = old[i]
         /\ variantsLocked(slug)'[Len(old) + 1] = new
         /\ Len(old) \in Nat /\ DOMAIN old = 1..Len(old)
    BY <2>2, <2>7, <2>9
  <2>11. \A i \in DOMAIN old : old[i].id # new.id
    <3> SUFFICES ASSUME NEW i \in DOMAIN old PROVE old[i].id # NewString(r)
      BY <2>2
    <3>1. \/ \E t \in Slugs : old[i].id = objectID(t)
          \/ \E q \in issued : old[i].id = NewString(q)
      BY DEF IndInv, IDsIssued
    <3> QED BY <3>1, DerivedIsNotRandom
  <2>12. IDsIssued'
    BY <2>1, <2>2, <2>8, <2>10 DEF IndInv, IDsIssued
  <2>13. VariantIDsDistinct'
    <3>1. ASSUME NEW i \in DOMAIN variantsLocked(slug)',
                 NEW j \in DOMAIN variantsLocked(slug)',
                 variantsLocked(slug)'[i].id = variantsLocked(slug)'[j].id
          PROVE  i = j
      <4>1. (i \in DOMAIN old \/ i = Len(old) + 1) /\ (j \in DOMAIN old \/ j = Len(old) + 1)
        BY <2>10
      <4> QED BY <3>1, <4>1, <2>10, <2>11 DEF IndInv, VariantIDsDistinct
    <3> QED BY <2>8, <3>1 DEF IndInv, VariantIDsDistinct
  <2>14. DirectoryCoversCreated'
    <3>1. ASSUME NEW i \in DOMAIN variantsLocked(slug)',
                 variantsLocked(slug)'[i].id \in {objectID(t) : t \in Slugs}
          PROVE  i \in DOMAIN old /\ variantsLocked(slug)'[i] = old[i]
      BY <2>2, <2>10, <3>1, DerivedIsNotRandom
    <3> QED BY <2>1, <2>8, <3>1 DEF IndInv, DirectoryCoversCreated
  <2> QED BY <2>5, <2>6, <2>12, <2>13, <2>14 DEF IndInv
<1> QED BY <1>1, <1>2

\* Every error of findLocked is a reply.
LEMMA FindErrorIsReply == \A s, sel : FindError(s, sel) \in Replies
BY DEF FindError, Replies

\* An optional argument of a type defaults to a value of that type.
LEMMA GivenType ==
    ASSUME NEW S, NEW opt \in Opt(S), NEW old \in S
    PROVE  Given(opt, old) \in S
BY DEF Given, Opt

\* updateVariant keeps the invariant: ids and order stay, new names join.
LEMMA UpdateIndInv ==
    ASSUME IndInv, NEW slug \in Slugs, NEW sel, NEW value \in Values,
           NEW tags \in Opt(SUBSET Tags), NEW usedBy \in Opt(SUBSET Consumers),
           updateVariant(slug, sel, value, tags, usedBy)
    PROVE  IndInv'
<1>1. CASE Refuse(FindError(slug, sel))
  BY <1>1, RefuseIndInv, FindErrorIsReply
<1>2. ASSUME NEW i \in DOMAIN variantsLocked(slug),
             LET obj == [variantsLocked(slug)[i] EXCEPT
                            !.value = value, !.tags = Given(tags, @),
                            !.usedBy = Given(usedBy, @)]
                 vs  == [variantsLocked(slug) EXCEPT ![i] = obj]
             IN /\ objects' = StoreFirst(objects, slug, vs)
                /\ extra' = StoreRest(extra, slug, vs),
             consumers' = Joined(Given(usedBy, {})),
             reply' = "ok", issued' = issued
      PROVE  IndInv'
  <2> DEFINE old == variantsLocked(slug)
             obj == [old[i] EXCEPT !.value = value, !.tags = Given(tags, @),
                                   !.usedBy = Given(usedBy, @)]
             vs  == [old EXCEPT ![i] = obj]
  <2>1. old \in Seq(Object) /\ old[i] \in Object
    BY VariantsType, ElementOfSeq DEF IndInv
  <2>2. /\ Given(tags, old[i].tags) \in SUBSET Tags
        /\ Given(usedBy, old[i].usedBy) \in SUBSET Consumers
        /\ Given(usedBy, {}) \in SUBSET Consumers
    BY <2>1, GivenType DEF Object
  <2>3. obj \in Object /\ obj.id = old[i].id /\ obj.usedBy = Given(usedBy, old[i].usedBy)
    BY <2>1, <2>2 DEF Object
  <2> HIDE DEF obj
  <2>3a. /\ vs \in Seq(Object) /\ DOMAIN vs = DOMAIN old
         /\ vs[i] = obj /\ \A k \in DOMAIN old : k # i => vs[k] = old[k]
    BY <2>1, <2>3
  <2> HIDE DEF old
  <2> HIDE DEF vs
  <2>4. objects' = StoreFirst(objects, slug, vs) /\ extra' = StoreRest(extra, slug, vs)
    BY <1>2 DEF vs, obj, old
  <2>5. /\ objects' \in [Slugs -> Object \cup {Absent}]
        /\ extra' \in [Slugs -> Seq(Object)]
        /\ NoOrphanVariants'
        /\ variantsLocked(slug)' = vs
        /\ \A s \in Slugs \ {slug} : variantsLocked(s)' = variantsLocked(s)
    BY <2>3a, <2>4, StoreOne DEF IndInv
  <2>6. TypeOK'
    BY <1>2, <2>2, <2>5, JoinedProperties DEF IndInv, TypeOK, Replies
  <2>7. IDsIssued' /\ VariantIDsDistinct'
    <3>1. \A k \in DOMAIN old : vs[k].id = old[k].id
      BY <2>3, <2>3a
    <3> QED BY <1>2, <2>3a, <2>5, <3>1, SameIDs DEF IndInv, old
  <2>8. DirectoryCoversCreated'
    <3>1. /\ \A c \in Consumers : consumers[c] # Absent => consumers'[c] # Absent
          /\ \A c \in Given(usedBy, {}) : consumers'[c] # Absent
      BY <1>2, <2>2, JoinedProperties DEF IndInv
    <3>2. \A s \in Slugs : \A k \in DOMAIN variantsLocked(s) :
            variantsLocked(s)[k].usedBy \subseteq Consumers
      BY UsedByAreConsumers DEF IndInv
    <3>3. \A c \in vs[i].usedBy : c \in Given(usedBy, {}) \/ c \in old[i].usedBy
      BY <2>3, <2>3a DEF Given
    <3>4. ASSUME NEW k \in DOMAIN vs, vs[k].id \in {objectID(t) : t \in Slugs},
                 NEW c \in vs[k].usedBy
          PROVE  consumers'[c] # Absent
      <4>1. \A d \in old[k].usedBy : consumers[d] # Absent /\ d \in Consumers
        BY <2>3, <2>3a, <3>2, <3>4 DEF IndInv, DirectoryCoversCreated, old
      <4> QED BY <2>3a, <3>1, <3>3, <3>4, <4>1
    <3> QED BY <2>5, <3>1, <3>2, <3>4 DEF IndInv, DirectoryCoversCreated
  <2> QED BY <2>5, <2>6, <2>7, <2>8 DEF IndInv
<1> QED BY <1>1, <1>2 DEF updateVariant

\* patchVariant keeps the invariant: all variants go where the name goes.
LEMMA PatchIndInv ==
    ASSUME IndInv, NEW slug \in Slugs, NEW sel,
           NEW description \in Opt(Descriptions), NEW newSlug \in Opt(Slugs),
           NEW tags \in Opt(SUBSET Tags),
           patchVariant(slug, sel, description, newSlug, tags)
    PROVE  IndInv'
<1> DEFINE to == Given(newSlug, slug)
<1>1. CASE Refuse(FindError(slug, sel))
  BY <1>1, RefuseIndInv, FindErrorIsReply
<1>2. CASE Refuse("already exists")
  BY <1>2, RefuseIndInv DEF Replies
<1>3. ASSUME NEW i \in DOMAIN variantsLocked(slug),
             LET obj == [variantsLocked(slug)[i] EXCEPT
                            !.description = Given(description, @),
                            !.tags = Given(tags, @)]
                 vs  == [variantsLocked(slug) EXCEPT ![i] = obj]
             IN /\ objects' = StoreFirst(StoreFirst(objects, slug, << >>), to, vs)
                /\ extra' = StoreRest(StoreRest(extra, slug, << >>), to, vs),
             reply' = "ok", consumers' = consumers, issued' = issued
      PROVE  IndInv'
  <2> DEFINE old == variantsLocked(slug)
             obj == [old[i] EXCEPT !.description = Given(description, @),
                                   !.tags = Given(tags, @)]
             vs  == [old EXCEPT ![i] = obj]
  <2>1. old \in Seq(Object) /\ old[i] \in Object /\ to \in Slugs
    BY VariantsType, ElementOfSeq, GivenType DEF IndInv
  <2>2. /\ Given(tags, old[i].tags) \in SUBSET Tags
        /\ Given(description, old[i].description) \in Descriptions
    BY <2>1, GivenType DEF Object
  <2>3. obj \in Object /\ obj.id = old[i].id /\ obj.usedBy = old[i].usedBy
    BY <2>1, <2>2 DEF Object
  <2> HIDE DEF obj
  <2>4. /\ vs \in Seq(Object) /\ DOMAIN vs = DOMAIN old
        /\ vs[i] = obj /\ \A k \in DOMAIN old : k # i => vs[k] = old[k]
    BY <2>1, <2>3
  <2>5. \A k \in DOMAIN old : vs[k].id = old[k].id /\ vs[k].usedBy = old[k].usedBy
    BY <2>3, <2>4
  <2> HIDE DEF old
  <2>6. /\ objects' = StoreFirst(StoreFirst(objects, slug, << >>), to, vs)
        /\ extra' = StoreRest(StoreRest(extra, slug, << >>), to, vs)
    BY <1>3 DEF obj, old
  <2> HIDE DEF vs, to
  <2>7. /\ objects' \in [Slugs -> Object \cup {Absent}]
        /\ extra' \in [Slugs -> Seq(Object)]
        /\ NoOrphanVariants'
        /\ variantsLocked(to)' = vs
        /\ to # slug => variantsLocked(slug)' = << >>
        /\ \A s \in Slugs \ {slug, to} : variantsLocked(s)' = variantsLocked(s)
    BY <2>1, <2>4, <2>6, StoreMoved DEF IndInv
  <2>8. TypeOK'
    BY <1>3, <2>7 DEF IndInv, TypeOK, Replies
  <2>9. \A s \in Slugs : variantsLocked(s)' = << >> \/ \E t \in Slugs :
              /\ DOMAIN variantsLocked(s)' = DOMAIN variantsLocked(t)
              /\ \A k \in DOMAIN variantsLocked(t) :
                    /\ variantsLocked(s)'[k].id = variantsLocked(t)[k].id
                    /\ variantsLocked(s)'[k].usedBy = variantsLocked(t)[k].usedBy
    <3> SUFFICES ASSUME NEW s \in Slugs, variantsLocked(s)' # << >>
                 PROVE  \E t \in Slugs :
              /\ DOMAIN variantsLocked(s)' = DOMAIN variantsLocked(t)
              /\ \A k \in DOMAIN variantsLocked(t) :
                    /\ variantsLocked(s)'[k].id = variantsLocked(t)[k].id
                    /\ variantsLocked(s)'[k].usedBy = variantsLocked(t)[k].usedBy
      OBVIOUS
    <3>1. CASE s = to
      BY <3>1, <2>4, <2>5, <2>7 DEF old
    <3>2. CASE s # to
      BY <3>2, <2>7
    <3> QED BY <3>1, <3>2
  <2>10. IDsIssued' /\ VariantIDsDistinct'
    <3>1. \A s \in Slugs : variantsLocked(s)' = << >> \/ \E t \in Slugs :
              /\ DOMAIN variantsLocked(s)' = DOMAIN variantsLocked(t)
              /\ \A k \in DOMAIN variantsLocked(t) :
                    variantsLocked(s)'[k].id = variantsLocked(t)[k].id
      BY <2>9
    <3> QED BY <1>3, <3>1, SameIDs DEF IndInv
  <2>11. DirectoryCoversCreated'
    <3> SUFFICES ASSUME NEW s \in Slugs, NEW k \in DOMAIN variantsLocked(s)',
                        variantsLocked(s)'[k].id \in {objectID(t) : t \in Slugs},
                        NEW c \in variantsLocked(s)'[k].usedBy
                 PROVE  consumers'[c] # Absent
      BY DEF DirectoryCoversCreated
    <3>1. PICK t \in Slugs :
              /\ DOMAIN variantsLocked(s)' = DOMAIN variantsLocked(t)
              /\ \A j \in DOMAIN variantsLocked(t) :
                    /\ variantsLocked(s)'[j].id = variantsLocked(t)[j].id
                    /\ variantsLocked(s)'[j].usedBy = variantsLocked(t)[j].usedBy
      BY <2>9
    <3> QED BY <1>3, <3>1 DEF IndInv, DirectoryCoversCreated
  <2> QED BY <2>7, <2>8, <2>10, <2>11 DEF IndInv
<1> QED BY <1>1, <1>2, <1>3 DEF patchVariant

\* deleteVariant keeps the invariant: the variants left close the gap.
LEMMA DeleteIndInv ==
    ASSUME IndInv, NEW slug \in Slugs, NEW sel, deleteVariant(slug, sel)
    PROVE  IndInv'
<1>1. CASE Refuse(FindError(slug, sel))
  BY <1>1, RefuseIndInv, FindErrorIsReply
<1>2. ASSUME NEW i \in DOMAIN variantsLocked(slug),
             LET vs == RemoveAt(variantsLocked(slug), i)
             IN /\ objects' = StoreFirst(objects, slug, vs)
                /\ extra' = StoreRest(extra, slug, vs),
             reply' = "ok", consumers' = consumers, issued' = issued
      PROVE  IndInv'
  <2> DEFINE old == variantsLocked(slug)
             vs  == RemoveAt(old, i)
             from(k) == IF k < i THEN k ELSE k + 1
  <2>1. old \in Seq(Object)
    BY VariantsType DEF IndInv
  <2>2. /\ vs \in Seq(Object) /\ Len(vs) = Len(old) - 1
        /\ \A k \in 1..(Len(old) - 1) : vs[k] = IF k < i THEN old[k] ELSE old[k + 1]
    BY <2>1, RemoveAtProperties
  <2>3. objects' = StoreFirst(objects, slug, vs) /\ extra' = StoreRest(extra, slug, vs)
    BY <1>2
  <2> HIDE DEF vs
  <2>4. /\ objects' \in [Slugs -> Object \cup {Absent}]
        /\ extra' \in [Slugs -> Seq(Object)]
        /\ NoOrphanVariants'
        /\ variantsLocked(slug)' = vs
        /\ \A s \in Slugs \ {slug} : variantsLocked(s)' = variantsLocked(s)
    BY <2>2, <2>3, StoreOne DEF IndInv
  <2>5. TypeOK'
    BY <1>2, <2>4 DEF IndInv, TypeOK, Replies
  <2>6. /\ Len(old) \in Nat /\ DOMAIN old = 1..Len(old) /\ i \in 1..Len(old)
        /\ DOMAIN vs = 1..(Len(old) - 1)
    BY <2>1, <2>2
  <2> HIDE DEF old
  <2>7. \A k \in DOMAIN vs : /\ from(k) \in DOMAIN old /\ vs[k] = old[from(k)]
                             /\ from(k) = 1 => k = 1
                             /\ \A j \in DOMAIN vs : from(j) = from(k) => j = k
    BY <2>2, <2>6
  <2> HIDE DEF from
  <2>8. IDsIssued'
    <3>1. ASSUME NEW k \in DOMAIN vs
          PROVE  \/ k = 1 /\ \E t \in Slugs : vs[k].id = objectID(t)
                 \/ \E r \in issued : vs[k].id = NewString(r)
      BY <2>7 DEF IndInv, IDsIssued, old
    <3> SUFFICES ASSUME NEW s \in Slugs, NEW k \in DOMAIN variantsLocked(s)'
                 PROVE  \/ k = 1 /\ \E t \in Slugs : variantsLocked(s)'[k].id = objectID(t)
                        \/ \E r \in issued' : variantsLocked(s)'[k].id = NewString(r)
      BY DEF IDsIssued
    <3>2. CASE s = slug
      BY <1>2, <2>4, <3>1, <3>2
    <3>3. CASE s # slug
      BY <1>2, <2>4, <3>3 DEF IndInv, IDsIssued
    <3> QED BY <3>2, <3>3
  <2>9. VariantIDsDistinct'
    <3>1. ASSUME NEW j \in DOMAIN vs, NEW k \in DOMAIN vs, vs[j].id = vs[k].id
          PROVE  j = k
      <4>1. from(j) = from(k)
        BY <2>7, <3>1 DEF IndInv, VariantIDsDistinct, old
      <4> QED BY <2>7, <4>1
    <3> QED BY <2>4, <3>1 DEF IndInv, VariantIDsDistinct
  <2>10. DirectoryCoversCreated'
    <3>1. ASSUME NEW k \in DOMAIN vs, vs[k].id \in {objectID(t) : t \in Slugs},
                 NEW c \in vs[k].usedBy
          PROVE  consumers[c] # Absent
      BY <2>7, <3>1 DEF IndInv, DirectoryCoversCreated, old
    <3> QED BY <1>2, <2>4, <3>1 DEF IndInv, DirectoryCoversCreated
  <2> QED BY <2>4, <2>5, <2>8, <2>9, <2>10 DEF IndInv
<1> QED BY <1>1, <1>2 DEF deleteVariant

\* A step that rewrites first variants in place, keeping their ids, changes
\* no list but in the element at its head.
LEMMA RewriteFirst ==
    ASSUME TypeOK, NoOrphanVariants, IDsIssued, VariantIDsDistinct,
           extra' = extra, issued' = issued,
           objects' \in [Slugs -> Object \cup {Absent}],
           \A s \in Slugs :
              /\ objects'[s] = Absent <=> objects[s] = Absent
              /\ objects[s] # Absent => objects'[s].id = objects[s].id
    PROVE  /\ NoOrphanVariants' /\ IDsIssued' /\ VariantIDsDistinct'
           /\ \A s \in Slugs :
                /\ DOMAIN variantsLocked(s)' = DOMAIN variantsLocked(s)
                /\ \A i \in DOMAIN variantsLocked(s) :
                     /\ variantsLocked(s)'[i].id = variantsLocked(s)[i].id
                     /\ i = 1 => /\ variantsLocked(s)[1] = objects[s]
                                 /\ variantsLocked(s)'[1] = objects'[s]
                                 /\ objects[s] # Absent
                     /\ i # 1 => variantsLocked(s)'[i] = variantsLocked(s)[i]
<1>1. NoOrphanVariants'
  BY DEF NoOrphanVariants
<1>2. ASSUME NEW s \in Slugs
      PROVE  /\ DOMAIN variantsLocked(s)' = DOMAIN variantsLocked(s)
             /\ \A i \in DOMAIN variantsLocked(s) :
                  /\ variantsLocked(s)'[i].id = variantsLocked(s)[i].id
                  /\ i = 1 => /\ variantsLocked(s)[1] = objects[s]
                              /\ variantsLocked(s)'[1] = objects'[s]
                              /\ objects[s] # Absent
                  /\ i # 1 => variantsLocked(s)'[i] = variantsLocked(s)[i]
  <2>1. CASE objects[s] = Absent
    BY <2>1 DEF variantsLocked
  <2>2. CASE objects[s] # Absent
    <3>1. /\ variantsLocked(s) = <<objects[s]>> \o extra[s]
          /\ variantsLocked(s)' = <<objects'[s]>> \o extra[s]
      BY <2>2 DEF variantsLocked
    <3>2. objects[s] \in Object /\ objects'[s] \in Object /\ extra[s] \in Seq(Object)
      BY <2>2 DEF TypeOK
    <3>3. /\ DOMAIN variantsLocked(s) = 1..(1 + Len(extra[s]))
          /\ DOMAIN variantsLocked(s)' = 1..(1 + Len(extra[s]))
          /\ variantsLocked(s)[1] = objects[s] /\ variantsLocked(s)'[1] = objects'[s]
          /\ \A i \in 2..(1 + Len(extra[s])) :
                /\ variantsLocked(s)[i] = extra[s][i - 1]
                /\ variantsLocked(s)'[i] = extra[s][i - 1]
          /\ Len(extra[s]) \in Nat
      BY <3>1, <3>2
    <3> QED BY <2>2, <3>3
  <2> QED BY <2>1, <2>2
<1>3. IDsIssued' /\ VariantIDsDistinct'
  BY <1>2, SameIDs
<1> QED BY <1>1, <1>2, <1>3

\* SetObjectTags keeps the invariant: it rewrites the first variant's tags.
LEMMA SetTagsIndInv ==
    ASSUME IndInv, NEW slug \in Slugs, NEW tags \in SUBSET Tags,
           SetObjectTags(slug, tags)
    PROVE  IndInv'
<1>1. CASE objects[slug] = Absent
  BY <1>1, RefuseIndInv DEF SetObjectTags, Replies
<1>2. CASE objects[slug] # Absent
  <2> DEFINE obj == [objects[slug] EXCEPT !.tags = tags]
  <2>1. /\ objects' = [objects EXCEPT ![slug] = obj] /\ reply' = "ok"
        /\ extra' = extra /\ consumers' = consumers /\ issued' = issued
    BY <1>2 DEF SetObjectTags
  <2>2. objects[slug] \in Object
    BY <1>2 DEF IndInv, TypeOK
  <2>3. obj \in Object /\ obj.id = objects[slug].id /\ obj.usedBy = objects[slug].usedBy
    BY <2>2 DEF Object
  <2> HIDE DEF obj
  <2>4. objects' \in [Slugs -> Object \cup {Absent}]
    BY <2>1, <2>3 DEF IndInv, TypeOK
  <2>5. \A s \in Slugs :
          /\ objects'[s] = Absent <=> objects[s] = Absent
          /\ objects[s] # Absent => /\ objects'[s].id = objects[s].id
                                    /\ objects'[s].usedBy = objects[s].usedBy
    BY <1>2, <2>1, <2>3, ObjectsAreThere DEF IndInv, TypeOK
  <2>6. /\ NoOrphanVariants' /\ IDsIssued' /\ VariantIDsDistinct'
        /\ \A s \in Slugs :
             /\ DOMAIN variantsLocked(s)' = DOMAIN variantsLocked(s)
             /\ \A i \in DOMAIN variantsLocked(s) :
                  /\ variantsLocked(s)'[i].id = variantsLocked(s)[i].id
                  /\ i = 1 => /\ variantsLocked(s)[1] = objects[s]
                              /\ variantsLocked(s)'[1] = objects'[s]
                              /\ objects[s] # Absent
                  /\ i # 1 => variantsLocked(s)'[i] = variantsLocked(s)[i]
    BY <2>1, <2>4, <2>5, RewriteFirst DEF IndInv
  <2>7. TypeOK'
    BY <2>1, <2>4 DEF IndInv, TypeOK, Replies
  <2>8. DirectoryCoversCreated'
    <3>1. \A s \in Slugs : \A i \in DOMAIN variantsLocked(s) :
            variantsLocked(s)'[i].usedBy = variantsLocked(s)[i].usedBy
      BY <2>5, <2>6
    <3> QED BY <2>1, <2>6, <3>1 DEF IndInv, DirectoryCoversCreated
  <2> QED BY <2>6, <2>7, <2>8 DEF IndInv
<1> QED BY <1>1, <1>2

\* A step that only grows the directory.
LEMMA DirectoryGrows ==
    ASSUME IndInv, objects' = objects, extra' = extra, issued' = issued,
           reply' \in Replies,
           consumers' \in [Consumers -> Keys \cup {Nil, Absent}],
           \A c \in Consumers : consumers[c] # Absent => consumers'[c] # Absent
    PROVE  IndInv'
<1>1. \A s \in Slugs : variantsLocked(s)' = variantsLocked(s)
  BY DEF variantsLocked
<1>2. TypeOK' /\ NoOrphanVariants' /\ IDsIssued' /\ VariantIDsDistinct'
  BY <1>1 DEF IndInv, TypeOK, NoOrphanVariants, IDsIssued, VariantIDsDistinct
<1>3. DirectoryCoversCreated'
  <2>1. \A s \in Slugs : \A i \in DOMAIN variantsLocked(s) :
          variantsLocked(s)[i].usedBy \subseteq Consumers
    BY UsedByAreConsumers DEF IndInv
  <2> QED BY <1>1, <2>1 DEF IndInv, DirectoryCoversCreated
<1> QED BY <1>2, <1>3 DEF IndInv

\* AddConsumer keeps the invariant: the directory only grows.
LEMMA AddConsumerIndInv ==
    ASSUME IndInv, NEW name \in Consumers, AddConsumer(name)
    PROVE  IndInv'
<1>1. CASE consumers[name] # Absent
  BY <1>1, RefuseIndInv DEF AddConsumer, Replies
<1>2. CASE consumers[name] = Absent
  <2>1. /\ consumers' = [consumers EXCEPT ![name] = Nil] /\ reply' = "ok"
        /\ objects' = objects /\ extra' = extra /\ issued' = issued
    BY <1>2 DEF AddConsumer
  <2>2. consumers' \in [Consumers -> Keys \cup {Nil, Absent}]
    BY <2>1 DEF IndInv, TypeOK
  <2>3. \A c \in Consumers : consumers[c] # Absent => consumers'[c] # Absent
    BY <1>2, <2>1 DEF IndInv, TypeOK
  <2> QED BY <2>1, <2>2, <2>3, DirectoryGrows DEF Replies
<1> QED BY <1>1, <1>2

\* A step that rewrites the used_by of every first variant to g and leaves
\* in the directory every name a created object still uses.
LEMMA WalkIndInv ==
    ASSUME IndInv, NEW g \in [Slugs -> SUBSET Consumers],
           objects' = [s \in Slugs |-> IF objects[s] = Absent THEN Absent
                                       ELSE [objects[s] EXCEPT !.usedBy = g[s]]],
           extra' = extra, issued' = issued, reply' = "ok",
           consumers' \in [Consumers -> Keys \cup {Nil, Absent}],
           \A s \in Slugs : \A c \in g[s] :
              /\ objects[s] # Absent
              /\ \A b \in objects[s].usedBy : consumers[b] # Absent
              => consumers'[c] # Absent
    PROVE  IndInv'
<1> DEFINE obj(s) == [objects[s] EXCEPT !.usedBy = g[s]]
<1>1. \A s \in Slugs : objects[s] # Absent =>
        obj(s) \in Object /\ obj(s).id = objects[s].id /\ obj(s).usedBy = g[s]
  <2> SUFFICES ASSUME NEW s \in Slugs, objects[s] # Absent
               PROVE  obj(s) \in Object /\ obj(s).id = objects[s].id /\ obj(s).usedBy = g[s]
    OBVIOUS
  <2>1. objects[s] \in Object
    BY DEF IndInv, TypeOK
  <2> QED BY <2>1 DEF Object
<1>2. objects' = [s \in Slugs |-> IF objects[s] = Absent THEN Absent ELSE obj(s)]
  OBVIOUS
<1> HIDE DEF obj
<1>3. objects' \in [Slugs -> Object \cup {Absent}]
  BY <1>1, <1>2
<1>4. \A s \in Slugs :
        /\ objects'[s] = Absent <=> objects[s] = Absent
        /\ objects[s] # Absent => objects'[s].id = objects[s].id /\ objects'[s].usedBy = g[s]
  BY <1>1, <1>2, ObjectsAreThere
<1>5. /\ NoOrphanVariants' /\ IDsIssued' /\ VariantIDsDistinct'
      /\ \A s \in Slugs :
           /\ DOMAIN variantsLocked(s)' = DOMAIN variantsLocked(s)
           /\ \A i \in DOMAIN variantsLocked(s) :
                /\ variantsLocked(s)'[i].id = variantsLocked(s)[i].id
                /\ i = 1 => /\ variantsLocked(s)[1] = objects[s]
                            /\ variantsLocked(s)'[1] = objects'[s]
                            /\ objects[s] # Absent
                /\ i # 1 => variantsLocked(s)'[i] = variantsLocked(s)[i]
  BY <1>3, <1>4, RewriteFirst DEF IndInv
<1>6. TypeOK'
  BY <1>3 DEF IndInv, TypeOK, Replies
<1>7. DirectoryCoversCreated'
  <2> SUFFICES ASSUME NEW s \in Slugs, NEW i \in DOMAIN variantsLocked(s)',
                      variantsLocked(s)'[i].id \in {objectID(t) : t \in Slugs},
                      NEW c \in variantsLocked(s)'[i].usedBy
               PROVE  consumers'[c] # Absent
    BY DEF DirectoryCoversCreated
  <2>0. /\ i \in DOMAIN variantsLocked(s)
        /\ variantsLocked(s)'[i].id = variantsLocked(s)[i].id
        /\ i = 1 => /\ variantsLocked(s)[1] = objects[s]
                    /\ variantsLocked(s)'[1] = objects'[s]
                    /\ objects[s] # Absent
    BY <1>5
  <2>1. i = 1
    <3>1. \/ i = 1
          \/ \E r \in issued : variantsLocked(s)[i].id = NewString(r)
      BY <2>0 DEF IndInv, IDsIssued
    <3> QED BY <2>0, <3>1, DerivedIsNotRandom
  <2>2. /\ objects[s] # Absent /\ variantsLocked(s)[1] = objects[s]
        /\ 1 \in DOMAIN variantsLocked(s)
        /\ variantsLocked(s)[1].id \in {objectID(t) : t \in Slugs}
        /\ variantsLocked(s)'[1] = objects'[s]
    BY <2>0, <2>1
  <2>3. \A b \in objects[s].usedBy : consumers[b] # Absent
    BY <2>2 DEF IndInv, DirectoryCoversCreated
  <2>4. c \in g[s]
    BY <1>4, <2>1, <2>2
  <2> QED BY <2>2, <2>3, <2>4
<1> QED BY <1>5, <1>6, <1>7 DEF IndInv

\* DeleteConsumer keeps the invariant: no first variant names what it removes.
LEMMA DeleteConsumerIndInv ==
    ASSUME IndInv, NEW name \in Consumers, DeleteConsumer(name)
    PROVE  IndInv'
<1>1. CASE consumers[name] = Absent
  BY <1>1, RefuseIndInv DEF DeleteConsumer, Replies
<1>2. CASE consumers[name] # Absent
  <2> DEFINE g == [s \in Slugs |-> IF objects[s] = Absent THEN {}
                                   ELSE removeUsedBy(objects[s].usedBy, name)]
  <2>1. /\ consumers' = [consumers EXCEPT ![name] = Absent]
        /\ objects' = [s \in Slugs |-> IF objects[s] = Absent THEN Absent
              ELSE [objects[s] EXCEPT !.usedBy = removeUsedBy(objects[s].usedBy, name)]]
        /\ reply' = "ok" /\ extra' = extra /\ issued' = issued
    BY <1>2 DEF DeleteConsumer, WalkUsedBy
  <2>2. g \in [Slugs -> SUBSET Consumers]
    <3>1. \A s \in Slugs : objects[s] # Absent => objects[s].usedBy \in SUBSET Consumers
      BY DEF IndInv, TypeOK, Object
    <3> QED BY <3>1 DEF removeUsedBy
  <2>3. objects' = [s \in Slugs |-> IF objects[s] = Absent THEN Absent
                                    ELSE [objects[s] EXCEPT !.usedBy = g[s]]]
    BY <2>1
  <2>4. consumers' \in [Consumers -> Keys \cup {Nil, Absent}]
    BY <2>1 DEF IndInv, TypeOK
  <2>5. \A s \in Slugs : objects[s] # Absent => \A c \in g[s] :
          c # name /\ c \in objects[s].usedBy /\ c \in Consumers
    BY <2>2 DEF removeUsedBy
  <2> HIDE DEF g
  <2>6. \A c \in Consumers : c # name => consumers'[c] = consumers[c]
    BY <2>1 DEF IndInv, TypeOK
  <2>7. \A s \in Slugs : \A c \in g[s] :
           /\ objects[s] # Absent
           /\ \A b \in objects[s].usedBy : consumers[b] # Absent
           => consumers'[c] # Absent
    BY <2>5, <2>6
  <2> QED BY <2>1, <2>2, <2>3, <2>4, <2>7, WalkIndInv
<1> QED BY <1>1, <1>2

\* UpdateConsumer keeps the invariant: used_by lists and directory move together.
LEMMA UpdateConsumerIndInv ==
    ASSUME IndInv, NEW name \in Consumers, NEW newName \in Opt(Consumers),
           NEW publicKey \in Opt(Keys), UpdateConsumer(name, newName, publicKey)
    PROVE  IndInv'
<1> DEFINE target == Given(newName, name)
           moved  == [consumers EXCEPT ![name] = Absent,
                                       ![target] = MergedKey(name, target)]
<1>0. target \in Consumers /\ Absent \notin Keys \cup {Nil}
  BY GivenType, AbsentAssumption
<1>1. CASE Refuse("not found")
  BY <1>1, RefuseIndInv DEF Replies
<1>2. CASE /\ consumers[name] = Absent
           /\ consumers' = [consumers EXCEPT ![name] = publicKey]
           /\ reply' = "ok"
           /\ UNCHANGED <<objects, extra, issued>>
  <2>1. consumers' \in [Consumers -> Keys \cup {Nil, Absent}]
    BY <1>2 DEF IndInv, TypeOK, Opt
  <2>2. \A c \in Consumers : consumers[c] # Absent => consumers'[c] # Absent
    BY <1>2 DEF IndInv, TypeOK
  <2> QED BY <1>2, <2>1, <2>2, DirectoryGrows DEF Replies
<1>3. CASE /\ consumers[name] # Absent
           /\ consumers' = [moved EXCEPT ![target] = Given(publicKey, @)]
           /\ WalkUsedBy(LAMBDA u : renameUsedBy(u, name, target))
           /\ reply' = "ok"
           /\ UNCHANGED <<extra, issued>>
  <2> DEFINE g == [s \in Slugs |-> IF objects[s] = Absent THEN {}
                                   ELSE renameUsedBy(objects[s].usedBy, name, target)]
  <2>1. objects' = [s \in Slugs |-> IF objects[s] = Absent THEN Absent
           ELSE [objects[s] EXCEPT !.usedBy = renameUsedBy(objects[s].usedBy, name, target)]]
    BY <1>3 DEF WalkUsedBy
  <2>2. MergedKey(name, target) \in Keys \cup {Nil}
    BY <1>0, <1>3 DEF MergedKey, IndInv, TypeOK
  <2>3. /\ consumers' \in [Consumers -> Keys \cup {Nil, Absent}]
        /\ consumers'[target] # Absent
        /\ \A c \in Consumers \ {name, target} : consumers'[c] = consumers[c]
    <3>1. /\ moved \in [Consumers -> Keys \cup {Nil, Absent}]
          /\ moved[target] = MergedKey(name, target)
          /\ \A c \in Consumers \ {name, target} : moved[c] = consumers[c]
      BY <1>0, <2>2 DEF IndInv, TypeOK
    <3> HIDE DEF moved
    <3>2. Given(publicKey, moved[target]) \in Keys \cup {Nil}
      BY <2>2, <3>1 DEF Given, Opt
    <3> QED BY <1>0, <1>3, <3>1, <3>2
  <2>4. g \in [Slugs -> SUBSET Consumers]
    <3>1. \A s \in Slugs : objects[s] # Absent => objects[s].usedBy \in SUBSET Consumers
      BY DEF IndInv, TypeOK, Object
    <3> QED BY <1>0, <3>1 DEF renameUsedBy
  <2>5. objects' = [s \in Slugs |-> IF objects[s] = Absent THEN Absent
                                    ELSE [objects[s] EXCEPT !.usedBy = g[s]]]
    BY <2>1
  <2>6. \A s \in Slugs : objects[s] # Absent => \A c \in g[s] :
          c = target \/ (c # name /\ c \in objects[s].usedBy /\ c \in Consumers)
    BY <2>4 DEF renameUsedBy
  <2> HIDE DEF g, target
  <2>7. \A s \in Slugs : \A c \in g[s] :
           /\ objects[s] # Absent
           /\ \A b \in objects[s].usedBy : consumers[b] # Absent
           => consumers'[c] # Absent
    BY <2>3, <2>6
  <2> QED BY <1>3, <2>3, <2>4, <2>5, <2>7, WalkIndInv
<1> QED BY <1>1, <1>2, <1>3 DEF UpdateConsumer

-----------------------------------------------------------------------------
(* The invariant holds in every reachable state.                           *)

\* Every step keeps the invariant.
LEMMA NextIndInv == IndInv /\ [Next]_vars => IndInv'
<1> SUFFICES ASSUME IndInv, [Next]_vars PROVE IndInv'
  OBVIOUS
<1>1. CASE Create
  BY <1>1, CreateIndInv DEF Create
<1>2. CASE Extend
  BY <1>2, AddVariantIndInv DEF Extend
<1>3. CASE Update
  BY <1>3, UpdateIndInv DEF Update
<1>4. CASE Patch
  BY <1>4, PatchIndInv DEF Patch
<1>5. CASE Retag
  BY <1>5, SetTagsIndInv DEF Retag
<1>6. CASE Delete
  BY <1>6, DeleteIndInv DEF Delete
<1>7. CASE Register
  BY <1>7, AddConsumerIndInv DEF Register
<1>8. CASE Rename
  BY <1>8, UpdateConsumerIndInv DEF Rename
<1>9. CASE Unregister
  BY <1>9, DeleteConsumerIndInv DEF Unregister
<1>10. CASE UNCHANGED vars
  BY <1>10, DirectoryGrows DEF vars, IndInv, TypeOK
<1> QED BY <1>1, <1>2, <1>3, <1>4, <1>5, <1>6, <1>7, <1>8, <1>9, <1>10 DEF Next

\* The invariant of the object store, for every set of slugs, ids, consumers
\* and keys and every sequence of calls.
THEOREM Invariance == Spec => []IndInv
<1>1. Init => IndInv
  BY InitIndInv
<1>2. IndInv /\ [Next]_vars => IndInv'
  BY NextIndInv
<1> QED BY <1>1, <1>2, PTL DEF Spec

\* Type correctness: objects, extra and the directory keep their types.
THEOREM TypeCorrect == Spec => []TypeOK
<1>1. IndInv => TypeOK
  BY DEF IndInv
<1> QED BY <1>1, Invariance, PTL

\* A createObject never adopts variants left over from a deleted or renamed
\* name: storeVariantsLocked leaves no orphans.
THEOREM NoOrphans == Spec => []NoOrphanVariants
<1>1. IndInv => NoOrphanVariants
  BY DEF IndInv
<1> QED BY <1>1, Invariance, PTL

\* A UUID selects at most one variant of a name.
THEOREM DistinctIDs == Spec => []VariantIDsDistinct
<1>1. IndInv => VariantIDsDistinct
  BY DEF IndInv
<1> QED BY <1>1, Invariance, PTL

\* The directory lists every consumer a created object is used by, through
\* every rename, merge and removal of consumers.
THEOREM DirectoryCovers == Spec => []DirectoryCoversCreated
<1>1. IndInv => DirectoryCoversCreated
  BY DEF IndInv
<1> QED BY <1>1, Invariance, PTL

-----------------------------------------------------------------------------
(* No entry of the directory loses its key.                                *)

KeysStay ==
    \A c \in Consumers :
        consumers[c] \in Keys /\ consumers'[c] # Absent => consumers'[c] \in Keys

LEMMA StepsKeepKeys == TypeOK /\ [Next]_vars => KeysStay
<1> USE DEF KeysStay
<1> SUFFICES ASSUME TypeOK, [Next]_vars PROVE KeysStay
  OBVIOUS
<1>0. ASSUME NEW names, consumers' = Joined(names) PROVE KeysStay
  BY <1>0, AbsentAssumption DEF Joined
<1>1. CASE UNCHANGED consumers
  BY <1>1
<1>2. CASE Create
  BY <1>0, <1>1, <1>2 DEF Create, createObject, Refuse
<1>3. CASE Extend
  BY <1>1, <1>3 DEF Extend, AddVariant, Refuse
<1>4. CASE Update
  <2>1. PICK s \in Slugs, sel \in Selectors, v \in Values,
             t \in Opt(SUBSET Tags), u \in Opt(SUBSET Consumers) :
          updateVariant(s, sel, v, t, u)
    BY <1>4 DEF Update
  <2>2. consumers' = consumers \/ consumers' = Joined(Given(u, {}))
    BY <2>1, Zenon DEF updateVariant, Refuse
  <2> QED BY <1>0, <1>1, <2>2
<1>5. CASE Patch
  <2>1. PICK s \in Slugs, sel \in Selectors, d \in Opt(Descriptions),
             n \in Opt(Slugs), t \in Opt(SUBSET Tags) : patchVariant(s, sel, d, n, t)
    BY <1>5 DEF Patch
  <2>2. consumers' = consumers
    BY <2>1, Zenon DEF patchVariant, Refuse
  <2> QED BY <1>1, <2>2
<1>6. CASE Retag
  BY <1>1, <1>6 DEF Retag, SetObjectTags, Refuse
<1>7. CASE Delete
  BY <1>1, <1>7 DEF Delete, deleteVariant, Refuse
<1>8. CASE Register
  <2>1. PICK c \in Consumers : AddConsumer(c)
    BY <1>8 DEF Register
  <2>2. CASE consumers' = [consumers EXCEPT ![c] = Nil] /\ consumers[c] = Absent
    BY <2>2, AbsentAssumption DEF TypeOK
  <2> QED BY <1>1, <2>1, <2>2 DEF AddConsumer, Refuse
<1>9. CASE Rename
  <2>1. PICK name \in Consumers, newName \in Opt(Consumers), publicKey \in Opt(Keys) :
          UpdateConsumer(name, newName, publicKey)
    BY <1>9 DEF Rename
  <2> DEFINE target == Given(newName, name)
             moved  == [consumers EXCEPT ![name] = Absent,
                                         ![target] = MergedKey(name, target)]
  <2>2. target \in Consumers
    BY GivenType
  <2>3. CASE consumers[name] = Absent /\ consumers' = [consumers EXCEPT ![name] = publicKey]
    BY <2>3, AbsentAssumption DEF TypeOK
  <2>4. CASE consumers' = [moved EXCEPT ![target] = Given(publicKey, @)]
    <3>1. /\ consumers'[target] = Given(publicKey, MergedKey(name, target))
          /\ \A c \in Consumers \ {target} :
               consumers'[c] = IF c = name THEN Absent ELSE consumers[c]
      BY <2>2, <2>4 DEF TypeOK
    <3>2. consumers[target] \in Keys => consumers'[target] \in Keys
      BY <3>1 DEF MergedKey, Given, Opt
    <3> QED BY <3>1, <3>2
  <2> QED BY <1>1, <2>1, <2>3, <2>4 DEF UpdateConsumer, Refuse
<1>10. CASE Unregister
  <2>1. PICK c \in Consumers : DeleteConsumer(c)
    BY <1>10 DEF Unregister
  <2>2. CASE consumers' = [consumers EXCEPT ![c] = Absent]
    BY <2>2 DEF TypeOK
  <2> QED BY <1>1, <2>1, <2>2 DEF DeleteConsumer, Refuse
<1> QED BY <1>1, <1>2, <1>3, <1>4, <1>5, <1>6, <1>7, <1>8, <1>9, <1>10 DEF Next, vars

\* No operation, the merge of a rename included, leaves an entry that had a
\* key without one.
THEOREM KeysNeverForgotten == Spec => KeyNeverForgotten
<1>1. TypeOK /\ [Next]_vars => [KeysStay]_vars
  BY StepsKeepKeys
<1> QED BY <1>1, TypeCorrect, PTL DEF Spec, KeyNeverForgotten, KeysStay
=============================================================================
