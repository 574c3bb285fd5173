------------------------- MODULE SealedWriteProofs -------------------------
(***************************************************************************)
(* Proofs about SealedWrite, for any number of writers, consumers, keys    *)
(* and objects.  The store half of every step is a step of ObjectStore, so *)
(* that its invariant is carried over from ObjectStoreProofs.              *)
(***************************************************************************)
EXTENDS SealedWrite, CatalogRefinement

-----------------------------------------------------------------------------
(* The inductive invariant.                                                *)

\* No further variants: nothing here calls AddVariant.
OneVariant == \A s \in Slugs : extra[s] = << >>

\* A key in the directory is one its name has held.
HeldIsKnown == \A c \in Consumers : consumers[c] \in Keys => consumers[c] \in held[c]

OwnTypes ==
    /\ ownerPublicKey \in {Nil, OwnerKey}
    /\ pc \in [Writers -> {"idle", "resolving", "sealed"}]
    /\ cmd \in [Writers -> Opt(Commands)]
    /\ todo \in [Writers -> SUBSET Consumers]
    /\ recipients \in [Writers -> SUBSET (Keys \cup {OwnerKey})]
    /\ held \in [Consumers -> SUBSET Keys]
    /\ touched \in [Writers -> BOOLEAN]
    /\ byDirectory \subseteq Slugs

\* A running command has something to do, and seals when it has looked up
\* every consumer.
InProgress(w) ==
    /\ pc[w] # "idle" => cmd[w] \in Commands /\ todo[w] \subseteq Looked(cmd[w])
    /\ pc[w] = "sealed" => todo[w] = {}

\* What was collected has a key of every consumer looked up so far.
Collected(w) ==
    pc[w] # "idle" /\ cmd[w].explicit = {} =>
        \A c \in cmd[w].usedBy \ todo[w] : recipients[w] \cap held[c] # {}

\* The owner's key joins when the value is sealed.
OwnerCopy(w) ==
    IF pc[w] = "sealed" /\ cmd[w].keepReadableCopy THEN {OwnerKey} ELSE {}

\* If nobody touched their entries, it is exactly their current keys.
Current(w) ==
    pc[w] # "idle" /\ cmd[w].explicit = {} /\ ~touched[w] =>
        recipients[w] = {consumers[c] : c \in cmd[w].usedBy \ todo[w]} \cup OwnerCopy(w)

WriteInv ==
    /\ IndInv
    /\ OneVariant
    /\ OwnTypes
    /\ HeldIsKnown
    /\ \A w \in Writers : InProgress(w) /\ Collected(w) /\ Current(w)
    /\ SealedForItsConsumers

\* The names of a command are consumers.
LEMMA CommandTypes ==
    ASSUME NEW c \in Commands
    PROVE  /\ c.kind \in {"inject", "update"} /\ c.slug \in Slugs
           /\ c.explicit \in Explicit /\ c.usedBy \in Opt(SUBSET Consumers)
           /\ c.explicit = {} => c.usedBy \in SUBSET Consumers /\ Looked(c) = c.usedBy
           /\ c.explicit # {} => Looked(c) = {}
           /\ c.kind = "inject" => c.usedBy \in SUBSET Consumers
           /\ Looked(c) \subseteq Consumers
BY DEF Commands, Looked, Opt

-----------------------------------------------------------------------------
(* Names with one variant.                                                 *)

\* What findLocked finds is the only variant.
LEMMA TheOnlyVariant ==
    ASSUME TypeOK, OneVariant, NEW s \in Slugs, NEW i \in DOMAIN variantsLocked(s)
    PROVE  /\ objects[s] \in Object /\ objects[s] # Absent
           /\ variantsLocked(s) = <<objects[s]>> /\ i = 1
<1>1. objects[s] # Absent
  BY DEF variantsLocked
<1>2. objects[s] \in Object
  BY <1>1 DEF TypeOK
<1>3. variantsLocked(s) = <<objects[s]>>
  <2>1. variantsLocked(s) = <<objects[s]>> \o << >>
    BY <1>1 DEF variantsLocked, OneVariant
  <2>2. <<objects[s]>> \in Seq(Object) /\ <<objects[s]>> # << >>
    BY <1>2
  <2> DEFINE q == <<objects[s]>>
  <2>3. q \o << >> = q
    BY <2>2, ConcatEmptySeq
  <2> QED BY <2>1, <2>3
<1>4. DOMAIN <<objects[s]>> = {1}
  OBVIOUS
<1> QED BY <1>1, <1>2, <1>3, <1>4

\* deleteVariant of the only variant removes the name.
LEMMA DeleteOne ==
    ASSUME TypeOK, OneVariant, NEW s \in Slugs, NEW sel, deleteVariant(s, sel)
    PROVE  /\ extra' = extra /\ consumers' = consumers
           /\ objects' = objects \/ objects' = [objects EXCEPT ![s] = Absent]
<1>1. CASE Refuse(FindError(s, sel))
  BY <1>1 DEF Refuse
<1>2. ASSUME NEW i \in DOMAIN variantsLocked(s),
             LET vs == RemoveAt(variantsLocked(s), i)
             IN /\ objects' = StoreFirst(objects, s, vs)
                /\ extra' = StoreRest(extra, s, vs),
             consumers' = consumers
      PROVE  extra' = extra /\ objects' = [objects EXCEPT ![s] = Absent]
  <2> DEFINE vs == RemoveAt(variantsLocked(s), i)
  <2>0. objects[s] \in Object /\ variantsLocked(s) = <<objects[s]>>
    BY TheOnlyVariant
  <2>1. variantsLocked(s) \in Seq(Object) /\ Len(variantsLocked(s)) = 1
    BY <2>0
  <2>2. vs \in Seq(Object) /\ Len(vs) = 0
    BY <2>1, RemoveAtProperties
  <2>3. vs = << >>
    BY <2>2
  <2>4. objects' = StoreFirst(objects, s, << >>) /\ extra' = StoreRest(extra, s, << >>)
    BY <1>2, <2>3
  <2> QED BY <2>4 DEF StoreFirst, StoreRest, OneVariant, TypeOK
<1> QED BY <1>1, <1>2 DEF deleteVariant

\* updateVariant of the only variant rewrites it.
LEMMA UpdateOne ==
    ASSUME TypeOK, OneVariant, NEW s \in Slugs, NEW sel, NEW value \in Values,
           NEW tags \in Opt(SUBSET Tags), NEW usedBy \in Opt(SUBSET Consumers),
           updateVariant(s, sel, value, tags, usedBy)
    PROVE  /\ extra' = extra
           /\ \/ reply' # "ok" /\ objects' = objects
              \/ /\ reply' = "ok" /\ objects[s] # Absent
                 /\ objects'[s].value = value
                 /\ objects'[s].usedBy = Given(usedBy, objects[s].usedBy)
                 /\ \A t \in Slugs \ {s} : objects'[t] = objects[t]
<1>1. CASE Refuse(FindError(s, sel))
  BY <1>1 DEF Refuse, FindError
<1>2. ASSUME NEW i \in DOMAIN variantsLocked(s),
             LET obj == [variantsLocked(s)[i] EXCEPT
                            !.value = value, !.tags = Given(tags, @),
                            !.usedBy = Given(usedBy, @)]
                 vs  == [variantsLocked(s) EXCEPT ![i] = obj]
             IN /\ objects' = StoreFirst(objects, s, vs)
                /\ extra' = StoreRest(extra, s, vs),
             reply' = "ok"
      PROVE  /\ extra' = extra /\ objects[s] # Absent
             /\ objects'[s].value = value
             /\ objects'[s].usedBy = Given(usedBy, objects[s].usedBy)
             /\ \A t \in Slugs \ {s} : objects'[t] = objects[t]
  <2> DEFINE old == variantsLocked(s)
             obj == [old[i] EXCEPT !.value = value, !.tags = Given(tags, @),
                                   !.usedBy = Given(usedBy, @)]
             vs  == [old EXCEPT ![i] = obj]
  <2>1. objects[s] \in Object /\ objects[s] # Absent /\ old = <<objects[s]>> /\ i = 1
    BY TheOnlyVariant
  <2>2. obj = [objects[s] EXCEPT !.value = value, !.tags = Given(tags, @),
                                 !.usedBy = Given(usedBy, @)]
    BY <2>1
  <2>3. obj.value = value /\ obj.usedBy = Given(usedBy, objects[s].usedBy)
    BY <2>1, <2>2 DEF Object
  <2> HIDE DEF obj
  <2>4. vs = <<obj>>
    BY <2>1
  <2>5. objects' = StoreFirst(objects, s, vs) /\ extra' = StoreRest(extra, s, vs)
    BY <1>2 DEF obj
  <2> HIDE DEF vs, old
  <2>6. vs # << >> /\ vs[1] = obj /\ Len(vs) = 1
    BY <2>4
  <2>7. objects' = [objects EXCEPT ![s] = obj] /\ extra' = [extra EXCEPT ![s] = << >>]
    BY <2>5, <2>6 DEF StoreFirst, StoreRest
  <2> QED BY <2>1, <2>3, <2>7 DEF OneVariant, TypeOK
<1> QED BY <1>1, <1>2 DEF updateVariant

-----------------------------------------------------------------------------
(* What every step has to show of the writers and of the objects.          *)

\* A writer that a step leaves alone, while names only come to hold more keys.
LEMMA WriterKept ==
    ASSUME WriteInv, NEW w \in Writers,
           pc'[w] = pc[w], cmd'[w] = cmd[w], todo'[w] = todo[w],
           recipients'[w] = recipients[w],
           \A c \in Consumers : held[c] \subseteq held'[c],
           ~touched'[w] =>
              /\ ~touched[w]
              /\ pc[w] # "idle" => \A c \in Looked(cmd[w]) : consumers'[c] = consumers[c]
    PROVE  InProgress(w)' /\ Collected(w)' /\ Current(w)'
<1>1. InProgress(w) /\ Collected(w) /\ Current(w)
  BY DEF WriteInv
<1>2. InProgress(w)'
  BY <1>1 DEF InProgress
<1>3. CASE pc[w] = "idle"
  BY <1>2, <1>3 DEF Collected, Current
<1>4. CASE pc[w] # "idle" /\ cmd[w].explicit # {}
  BY <1>2, <1>4 DEF Collected, Current
<1>5. CASE pc[w] # "idle" /\ cmd[w].explicit = {}
  <2>1. cmd[w].usedBy \in SUBSET Consumers /\ Looked(cmd[w]) = cmd[w].usedBy
    BY <1>1, <1>5, CommandTypes DEF InProgress
  <2>2. Collected(w)'
    BY <1>1, <1>5, <2>1 DEF Collected
  <2>3. Current(w)'
    <3> SUFFICES ASSUME ~touched'[w]
                 PROVE  recipients[w] =
                          {consumers'[c] : c \in cmd[w].usedBy \ todo[w]} \cup OwnerCopy(w)
      BY DEF Current, OwnerCopy
    <3>1. \A c \in cmd[w].usedBy : consumers'[c] = consumers[c]
      BY <1>5, <2>1
    <3>2. {consumers'[c] : c \in cmd[w].usedBy \ todo[w]} =
             {consumers[c] : c \in cmd[w].usedBy \ todo[w]}
      BY <3>1
    <3> QED BY <1>1, <1>5, <3>2 DEF Current
  <2> QED BY <1>2, <2>2, <2>3
<1> QED BY <1>3, <1>4, <1>5

\* Objects that keep their value and name no consumer that holds fewer keys
\* than one named before stay sealed for their consumers.
LEMMA SealedKept ==
    ASSUME SealedForItsConsumers, byDirectory \subseteq Slugs, byDirectory' \subseteq byDirectory,
           \A s \in byDirectory : objects'[s] # Absent =>
              /\ objects[s] # Absent /\ objects'[s].value = objects[s].value
              /\ \A c \in objects'[s].usedBy :
                   \E d \in objects[s].usedBy : held[d] \subseteq held'[c]
    PROVE  SealedForItsConsumers'
<1> SUFFICES ASSUME NEW s \in byDirectory', objects'[s] # Absent,
                    NEW c \in objects'[s].usedBy
             PROVE  objects'[s].value \cap held'[c] # {}
  BY DEF SealedForItsConsumers
<1>1. PICK d \in objects[s].usedBy : held[d] \subseteq held'[c]
  OBVIOUS
<1>2. objects[s].value \cap held[d] # {}
  BY DEF SealedForItsConsumers
<1> QED BY <1>1, <1>2

\* What the history records of a step keeps the keys names have held.
LEMMA HeldGrows ==
    ASSUME WriteInv, NEW inherits \in [Consumers -> SUBSET Keys],
           held' = [c \in Consumers |-> Held(c, inherits[c])]
    PROVE  /\ held' \in [Consumers -> SUBSET Keys]
           /\ HeldIsKnown'
           /\ \A c \in Consumers : held[c] \subseteq held'[c] /\ inherits[c] \subseteq held'[c]
BY DEF WriteInv, OwnTypes, HeldIsKnown, Held

\* The same when nothing is taken over.
LEMMA HeldGrowsAlone ==
    ASSUME WriteInv, held' = [c \in Consumers |-> Held(c, {})]
    PROVE  /\ held' \in [Consumers -> SUBSET Keys]
           /\ HeldIsKnown'
           /\ \A c \in Consumers : held[c] \subseteq held'[c]
BY DEF WriteInv, OwnTypes, HeldIsKnown, Held

-----------------------------------------------------------------------------
(* The steps.                                                              *)

\* Before anything has run.
LEMMA WriteInitInv == WriteInit => WriteInv
<1> SUFFICES ASSUME WriteInit PROVE WriteInv
  OBVIOUS
<1>1. IndInv
  BY InitIndInv DEF WriteInit
<1>2. OneVariant /\ OwnTypes
  BY DEF WriteInit, Init, OneVariant, OwnTypes, Opt
<1>3. HeldIsKnown
  BY AbsentAssumption DEF WriteInit, Init, HeldIsKnown
<1>4. \A w \in Writers : InProgress(w) /\ Collected(w) /\ Current(w)
  BY DEF WriteInit, InProgress, Collected, Current
<1>5. SealedForItsConsumers
  BY DEF WriteInit, SealedForItsConsumers
<1> QED BY <1>1, <1>2, <1>3, <1>4, <1>5 DEF WriteInv

\* A step of other clients: the objects stay, go, or follow their consumers.
LEMMA OthersInv == ASSUME WriteInv, Others PROVE WriteInv'
<1>1. IndInv'
  <2>1. Register \/ Unregister \/ Delete \/ Rename
    BY DEF Others, Rename
  <2> QED BY <2>1, NextIndInv DEF WriteInv, Next
<1>2. TypeOK /\ OneVariant /\ OwnTypes /\ SealedForItsConsumers
  BY DEF WriteInv, IndInv
<1>3. /\ touched' = [w \in Writers |-> Disturbed(w)] /\ byDirectory' = byDirectory
      /\ ownerPublicKey' = ownerPublicKey /\ pc' = pc /\ cmd' = cmd
      /\ todo' = todo /\ recipients' = recipients
  BY DEF Others, writer
<1>4. touched' \in [Writers -> BOOLEAN]
  <2>1. \A w \in Writers : Disturbed(w) \in BOOLEAN
    BY <1>2 DEF Disturbed, OwnTypes
  <2> QED BY <1>3, <2>1
<1>5. ASSUME \A c \in Consumers : held[c] \subseteq held'[c]
      PROVE  \A w \in Writers : InProgress(w)' /\ Collected(w)' /\ Current(w)'
  <2> TAKE w \in Writers
  <2>1. ~touched'[w] =>
              /\ ~touched[w]
              /\ pc[w] # "idle" => \A c \in Looked(cmd[w]) : consumers'[c] = consumers[c]
    BY <1>3 DEF Disturbed
  <2> QED BY <1>3, <1>5, <2>1, WriterKept
<1>6. ASSUME NEW inherits \in [Consumers -> SUBSET Keys],
             held' = [c \in Consumers |-> Held(c, inherits[c])],
             extra' = extra, SealedForItsConsumers'
      PROVE  WriteInv'
  <2>1. OneVariant'
    BY <1>2, <1>6 DEF OneVariant
  <2>2. /\ held' \in [Consumers -> SUBSET Keys] /\ HeldIsKnown'
        /\ \A c \in Consumers : held[c] \subseteq held'[c]
    BY <1>6, HeldGrows
  <2>3. OwnTypes'
    BY <1>2, <1>3, <1>4, <2>2 DEF OwnTypes
  <2> QED BY <1>1, <1>5, <1>6, <2>1, <2>2, <2>3 DEF WriteInv
<1>7. ASSUME Register \/ Unregister \/ Delete, held' = [c \in Consumers |-> Held(c, {})]
      PROVE  WriteInv'
  <2> DEFINE none == [c \in Consumers |-> {}]
  <2>1. none \in [Consumers -> SUBSET Keys] /\ held' = [c \in Consumers |-> Held(c, none[c])]
    BY <1>7
  <2> HIDE DEF none
  <2>2. \A c \in Consumers : held[c] \subseteq held'[c]
    BY <1>7, HeldGrowsAlone
  <2>3. extra' = extra /\ \A s \in Slugs : objects'[s] # Absent =>
            /\ objects[s] # Absent /\ objects'[s].value = objects[s].value
            /\ objects'[s].usedBy \subseteq objects[s].usedBy
    <3>1. CASE Register
      BY <3>1 DEF Register, AddConsumer, Refuse
    <3>2. CASE Unregister
      <4>1. PICK c \in Consumers : DeleteConsumer(c)
        BY <3>2 DEF Unregister
      <4>2. CASE Refuse("not found")
        BY <4>2 DEF Refuse
      <4>3. CASE WalkUsedBy(LAMBDA u : removeUsedBy(u, c)) /\ extra' = extra
        <5>1. objects' = [s \in Slugs |-> IF objects[s] = Absent THEN Absent
                 ELSE [objects[s] EXCEPT !.usedBy = removeUsedBy(objects[s].usedBy, c)]]
          BY <4>3 DEF WalkUsedBy
        <5>2. \A s \in Slugs : objects[s] # Absent => objects[s] \in Object
          BY <1>2 DEF TypeOK
        <5> QED BY <4>3, <5>1, <5>2 DEF Object, removeUsedBy
      <4> QED BY <4>1, <4>2, <4>3 DEF DeleteConsumer
    <3>3. CASE Delete
      <4>1. PICK s \in Slugs, sel \in Selectors : deleteVariant(s, sel)
        BY <3>3 DEF Delete
      <4>2. extra' = extra /\ (objects' = objects \/ objects' = [objects EXCEPT ![s] = Absent])
        BY <1>2, <4>1, DeleteOne
      <4> QED BY <1>2, <4>2 DEF TypeOK
    <3> QED BY <1>7, <3>1, <3>2, <3>3
  <2>4. \A s \in Slugs : objects[s] # Absent => objects[s].usedBy \subseteq Consumers
    BY <1>2 DEF TypeOK, Object
  <2>5. SealedForItsConsumers'
    <3>1. \A s \in byDirectory : objects'[s] # Absent =>
              /\ objects[s] # Absent /\ objects'[s].value = objects[s].value
              /\ \A c \in objects'[s].usedBy :
                   \E d \in objects[s].usedBy : held[d] \subseteq held'[c]
      BY <1>2, <2>2, <2>3, <2>4 DEF OwnTypes
    <3> QED BY <1>2, <1>3, <3>1, SealedKept DEF OwnTypes
  <2> QED BY <1>6, <2>1, <2>3, <2>5
<1>8. ASSUME NEW name \in Consumers, NEW n \in Opt(Consumers), NEW k \in Opt(Keys),
             UpdateConsumer(name, n, k),
             held' = [d \in Consumers |-> Held(d, IF d = n THEN held[name] ELSE {})]
      PROVE  WriteInv'
  <2> DEFINE inherits == [d \in Consumers |-> IF d = n THEN held[name] ELSE {}]
             target == Given(n, name)
  <2>1. inherits \in [Consumers -> SUBSET Keys] /\ held' = [d \in Consumers |-> Held(d, inherits[d])]
    BY <1>2, <1>8 DEF OwnTypes
  <2>2. /\ \A c \in Consumers : held[c] \subseteq held'[c] /\ inherits[c] \subseteq held'[c]
    BY <2>1, HeldGrows
  <2>3. target \in Consumers /\ held[name] \subseteq held'[target]
    <3>1. CASE n = Nil
      BY <2>2, <3>1 DEF Given
    <3>2. CASE n # Nil
      BY <2>2, <3>2 DEF Given, Opt
    <3> QED BY <3>1, <3>2
  <2> HIDE DEF inherits, target
  <2>4. extra' = extra /\ \A s \in Slugs : objects'[s] # Absent =>
            /\ objects[s] # Absent /\ objects'[s].value = objects[s].value
            /\ \/ objects'[s].usedBy = objects[s].usedBy
               \/ objects'[s].usedBy = renameUsedBy(objects[s].usedBy, name, target)
    <3>1. CASE UNCHANGED <<objects, extra>>
      BY <3>1
    <3>2. CASE WalkUsedBy(LAMBDA u : renameUsedBy(u, name, target)) /\ extra' = extra
      <4>1. objects' = [s \in Slugs |-> IF objects[s] = Absent THEN Absent
               ELSE [objects[s] EXCEPT !.usedBy = renameUsedBy(objects[s].usedBy, name, target)]]
        BY <3>2 DEF WalkUsedBy
      <4>2. \A s \in Slugs : objects[s] # Absent => objects[s] \in Object
        BY <1>2 DEF TypeOK
      <4> QED BY <3>2, <4>1, <4>2 DEF Object
    <3> QED BY <1>8, <3>1, <3>2 DEF UpdateConsumer, Refuse, target
  <2>5. \A s \in Slugs : objects[s] # Absent => objects[s].usedBy \subseteq Consumers
    BY <1>2 DEF TypeOK, Object
  <2>6. ASSUME NEW s \in byDirectory, objects'[s] # Absent
        PROVE  /\ objects[s] # Absent /\ objects'[s].value = objects[s].value
               /\ \A c \in objects'[s].usedBy :
                    \E d \in objects[s].usedBy : held[d] \subseteq held'[c]
    <3>1. s \in Slugs
      BY <1>2 DEF OwnTypes
    <3>2. ASSUME NEW c \in objects'[s].usedBy
          PROVE  \E d \in objects[s].usedBy : held[d] \subseteq held'[c]
      <4>1. c \in objects[s].usedBy \/ (name \in objects[s].usedBy /\ c = target)
        BY <2>4, <2>6, <3>1, <3>2 DEF renameUsedBy
      <4> QED BY <2>2, <2>3, <2>4, <2>5, <2>6, <3>1, <4>1
    <3> QED BY <2>4, <2>6, <3>1, <3>2
  <2>7. SealedForItsConsumers'
    BY <1>2, <1>3, <2>6, SealedKept DEF OwnTypes
  <2> QED BY <1>6, <2>1, <2>4, <2>7
<1> QED BY <1>7, <1>8 DEF Others

\* A step of one writer that leaves the store and the history of names alone.
LEMMA OneWriterInv ==
    ASSUME WriteInv, UNCHANGED <<vars, held, byDirectory>>, OwnTypes',
           NEW w \in Writers, InProgress(w)', Collected(w)', Current(w)',
           \A v \in Writers \ {w} :
              /\ pc'[v] = pc[v] /\ cmd'[v] = cmd[v] /\ todo'[v] = todo[v]
              /\ recipients'[v] = recipients[v] /\ touched'[v] = touched[v]
    PROVE  WriteInv'
<1>1. IndInv'
  BY NextIndInv DEF WriteInv
<1>2. OneVariant' /\ HeldIsKnown' /\ SealedForItsConsumers'
  BY DEF WriteInv, vars, OneVariant, HeldIsKnown, SealedForItsConsumers
<1>3. ASSUME NEW v \in Writers \ {w}
      PROVE  InProgress(v)' /\ Collected(v)' /\ Current(v)'
  BY WriterKept DEF vars
<1> QED BY <1>1, <1>2, <1>3 DEF WriteInv

\* Starting a command: nothing has been collected yet.
LEMMA BeginInv == ASSUME WriteInv, NEW w \in Writers, Begin(w) PROVE WriteInv'
<1>1. PICK c \in Commands :
        /\ cmd' = [cmd EXCEPT ![w] = c] /\ todo' = [todo EXCEPT ![w] = Looked(c)]
        /\ recipients' = [recipients EXCEPT ![w] = c.explicit]
        /\ pc' = [pc EXCEPT ![w] = "resolving"]
        /\ UNCHANGED <<vars, ownerPublicKey, history>>
  BY DEF Begin
<1>2. /\ Looked(c) \in SUBSET Consumers /\ c.explicit \in SUBSET (Keys \cup {OwnerKey})
      /\ c.explicit = {} => Looked(c) = c.usedBy
  BY CommandTypes, ExplicitAssumption
<1>3. OwnTypes
  BY DEF WriteInv
<1>4. /\ pc'[w] = "resolving" /\ cmd'[w] = c /\ todo'[w] = Looked(c)
      /\ recipients'[w] = c.explicit
  BY <1>1, <1>3 DEF OwnTypes
<1>5. OwnTypes'
  BY <1>1, <1>2, <1>3 DEF OwnTypes, history, Opt
<1>6. InProgress(w)' /\ Collected(w)' /\ Current(w)'
  <2>1. InProgress(w)'
    BY <1>4 DEF InProgress
  <2>2. c.explicit = {} => c.usedBy \ todo'[w] = {} /\ recipients'[w] = {}
    BY <1>2, <1>4
  <2>3. OwnerCopy(w)' = {}
    BY <1>4 DEF OwnerCopy
  <2> QED BY <1>4, <2>1, <2>2, <2>3 DEF Collected, Current
<1>7. \A v \in Writers \ {w} :
        /\ pc'[v] = pc[v] /\ cmd'[v] = cmd[v] /\ todo'[v] = todo[v]
        /\ recipients'[v] = recipients[v] /\ touched'[v] = touched[v]
  BY <1>1, <1>3 DEF OwnTypes, history
<1> QED BY <1>1, <1>5, <1>6, <1>7, OneWriterInv DEF history

\* A command that ends without writing leaves nothing to show.
LEMMA FailInv == ASSUME WriteInv, NEW w \in Writers, Fail(w) PROVE WriteInv'
<1>1. OwnTypes
  BY DEF WriteInv
<1>2. OwnTypes' /\ pc'[w] = "idle"
  BY <1>1 DEF OwnTypes, Fail, End, Opt
<1>3. InProgress(w)' /\ Collected(w)' /\ Current(w)'
  BY <1>2 DEF InProgress, Collected, Current
<1>4. \A v \in Writers \ {w} :
        /\ pc'[v] = pc[v] /\ cmd'[v] = cmd[v] /\ todo'[v] = todo[v]
        /\ recipients'[v] = recipients[v] /\ touched'[v] = touched[v]
  BY <1>1 DEF OwnTypes, Fail, End
<1> QED BY <1>2, <1>3, <1>4, OneWriterInv DEF Fail

\* One consumer's key is looked up.
LEMMA ResolveInv == ASSUME WriteInv, NEW w \in Writers, Resolve(w) PROVE WriteInv'
<1>1. PICK c \in todo[w] :
        /\ pc[w] = "resolving"
        /\ \/ consumers[c] \notin Keys /\ Fail(w)
           \/ /\ consumers[c] \in Keys
              /\ todo' = [todo EXCEPT ![w] = todo[w] \ {c}]
              /\ recipients' = [recipients EXCEPT ![w] = recipients[w] \cup {consumers[c]}]
              /\ UNCHANGED <<vars, ownerPublicKey, pc, cmd, history>>
  BY DEF Resolve
<1>2. CASE /\ consumers[c] \in Keys
           /\ todo' = [todo EXCEPT ![w] = todo[w] \ {c}]
           /\ recipients' = [recipients EXCEPT ![w] = recipients[w] \cup {consumers[c]}]
           /\ UNCHANGED <<vars, ownerPublicKey, pc, cmd, history>>
  <2>1. /\ OwnTypes /\ InProgress(w) /\ Collected(w) /\ Current(w)
        /\ \A d \in Consumers : consumers[d] \in Keys => consumers[d] \in held[d]
    BY DEF WriteInv, HeldIsKnown
  <2>2. /\ todo'[w] = todo[w] \ {c} /\ recipients'[w] = recipients[w] \cup {consumers[c]}
        /\ OwnTypes'
    BY <1>2, <2>1 DEF OwnTypes, history
  <2>3. cmd[w] \in Commands /\ c \in Looked(cmd[w]) /\ c \in Consumers
    BY <1>1, <2>1 DEF InProgress, OwnTypes
  <2>4. InProgress(w)'
    BY <1>1, <1>2, <2>1, <2>2, <2>3 DEF InProgress
  <2>5. ASSUME cmd[w].explicit # {} PROVE Collected(w)' /\ Current(w)'
    BY <1>2, <2>5 DEF Collected, Current
  <2>6. ASSUME cmd[w].explicit = {} PROVE Collected(w)' /\ Current(w)'
    <3>1. c \in cmd[w].usedBy
      BY <2>3, <2>6, CommandTypes
    <3>2. \A d \in cmd[w].usedBy \ todo'[w] : d = c \/ d \in cmd[w].usedBy \ todo[w]
      BY <2>2
    <3>3. \A d \in cmd[w].usedBy \ todo[w] : recipients[w] \cap held[d] # {}
      BY <1>1, <2>1, <2>6 DEF Collected
    <3>4. consumers[c] \in recipients'[w] \cap held[c]
      BY <1>2, <2>1, <2>2, <2>3
    <3>5. recipients[w] \subseteq recipients'[w] /\ held' = held /\ cmd' = cmd
      BY <1>2, <2>2 DEF history
    <3>6. Collected(w)'
      BY <3>2, <3>3, <3>4, <3>5 DEF Collected
    <3>7. Current(w)'
      <4> SUFFICES ASSUME ~touched'[w]
                   PROVE  recipients'[w] = {consumers'[d] : d \in cmd[w].usedBy \ todo'[w]}
        BY <1>1, <1>2, <3>5 DEF Current, OwnerCopy
      <4>1. recipients[w] = {consumers[d] : d \in cmd[w].usedBy \ todo[w]}
        BY <1>1, <1>2, <2>1, <2>6 DEF Current, OwnerCopy, history
      <4>2. {consumers[d] : d \in cmd[w].usedBy \ todo'[w]} =
              {consumers[d] : d \in cmd[w].usedBy \ todo[w]} \cup {consumers[c]}
        BY <2>2, <3>1
      <4>3. consumers' = consumers
        BY <1>2 DEF vars
      <4> QED BY <2>2, <4>1, <4>2, <4>3
    <3> QED BY <3>6, <3>7
  <2>7. \A v \in Writers \ {w} :
        /\ pc'[v] = pc[v] /\ cmd'[v] = cmd[v] /\ todo'[v] = todo[v]
        /\ recipients'[v] = recipients[v] /\ touched'[v] = touched[v]
    BY <1>2, <2>1 DEF OwnTypes, history
  <2> QED BY <1>2, <2>2, <2>4, <2>5, <2>6, <2>7, OneWriterInv DEF history
<1> QED BY <1>1, <1>2, FailInv

\* Sealing adds nothing but the owner's key.
LEMMA SealInv == ASSUME WriteInv, NEW w \in Writers, Seal(w) PROVE WriteInv'
<1> DEFINE owner == IF cmd[w].keepReadableCopy THEN {ownerPublicKey} ELSE {}
<1>1. CASE /\ cmd[w].keepReadableCopy => ownerPublicKey # Nil
           /\ recipients' = [recipients EXCEPT ![w] = recipients[w] \cup owner]
           /\ pc' = [pc EXCEPT ![w] = "sealed"]
           /\ UNCHANGED <<vars, ownerPublicKey, cmd, todo, history>>
  <2>1. OwnTypes /\ InProgress(w) /\ Collected(w) /\ Current(w)
    BY DEF WriteInv
  <2>2. pc[w] = "resolving" /\ todo[w] = {}
    BY DEF Seal
  <2>3. owner = IF cmd[w].keepReadableCopy THEN {OwnerKey} ELSE {}
    BY <1>1, <2>1 DEF OwnTypes
  <2> HIDE DEF owner
  <2>4. /\ OwnTypes' /\ pc'[w] = "sealed" /\ recipients'[w] = recipients[w] \cup owner
        /\ cmd' = cmd /\ todo' = todo /\ held' = held /\ touched' = touched
        /\ consumers' = consumers
    BY <1>1, <2>1, <2>3 DEF OwnTypes, history, vars
  <2>5. InProgress(w)' /\ Collected(w)'
    BY <2>1, <2>2, <2>4 DEF InProgress, Collected
  <2>6. Current(w)'
    <3>1. OwnerCopy(w) = {} /\ OwnerCopy(w)' = owner
      BY <2>2, <2>3, <2>4 DEF OwnerCopy
    <3> QED BY <2>1, <2>2, <2>4, <3>1 DEF Current
  <2>7. \A v \in Writers \ {w} :
        /\ pc'[v] = pc[v] /\ cmd'[v] = cmd[v] /\ todo'[v] = todo[v]
        /\ recipients'[v] = recipients[v] /\ touched'[v] = touched[v]
    BY <1>1, <2>1 DEF OwnTypes, history
  <2> QED BY <1>1, <2>4, <2>5, <2>6, <2>7, OneWriterInv DEF history
<1> QED BY <1>1, FailInv DEF Seal

\* The write: with every consumer looked up, the value stored has a key of
\* each, and values of other names stay as they are.
LEMMA WriteStepInv == ASSUME WriteInv, NEW w \in Writers, Write(w) PROVE WriteInv'
<1> DEFINE c == cmd[w]
<1>1. /\ TypeOK /\ OneVariant /\ OwnTypes /\ SealedForItsConsumers
      /\ InProgress(w) /\ Collected(w)
  BY DEF WriteInv, IndInv
<1>2. /\ pc[w] = "sealed" /\ c \in Commands /\ todo[w] = {}
      /\ recipients[w] \in Values /\ c.slug \in Slugs
  BY <1>1, CommandTypes, SealedValuesAssumption DEF Write, InProgress, OwnTypes
<1>3. /\ c.explicit = {} => c.usedBy \in SUBSET Consumers /\ c.usedBy # Nil
      /\ c.explicit = {} => \A d \in c.usedBy : recipients[w] \cap held[d] # {}
  BY <1>1, <1>2, NilAssumption, CommandTypes DEF Commands, Collected
<1>4. /\ byDirectory' = IF reply' # "ok" THEN byDirectory
                        ELSE IF c.explicit = {} THEN byDirectory \cup {c.slug}
                        ELSE byDirectory \ {c.slug}
      /\ End(w) /\ held' = [d \in Consumers |-> Held(d, {})]
      /\ touched' = [v \in Writers |-> v # w /\ Disturbed(v)]
      /\ ownerPublicKey' = ownerPublicKey
  BY DEF Write
<1>5. /\ held' \in [Consumers -> SUBSET Keys] /\ HeldIsKnown'
      /\ \A d \in Consumers : held[d] \subseteq held'[d]
  BY <1>4, HeldGrowsAlone
<1>6. /\ Create \/ Update
      /\ extra' = extra
      /\ \/ reply' # "ok" /\ objects' = objects
         \/ /\ reply' = "ok" /\ objects'[c.slug].value = recipients[w]
            /\ c.explicit = {} => objects'[c.slug].usedBy = c.usedBy
            /\ \A t \in Slugs \ {c.slug} : objects'[t] = objects[t]
  <2>1. CASE c.kind = "inject"
    <3>1. PICK d \in Descriptions, t \in SUBSET Tags :
            createObject(c.slug, recipients[w], c.usedBy, d, t)
      BY <2>1 DEF Write
    <3>2. c.usedBy \in SUBSET Consumers
      BY <1>2, <2>1, CommandTypes
    <3>3. Create
      BY <1>2, <3>1, <3>2 DEF Create
    <3> DEFINE new == [id |-> objectID(c.slug), value |-> recipients[w],
                       usedBy |-> c.usedBy, description |-> d, tags |-> t]
    <3>4. \/ Refuse("already exists")
          \/ /\ objects' = [objects EXCEPT ![c.slug] = new]
             /\ reply' = "ok" /\ extra' = extra
      BY <3>1 DEF createObject
    <3>5. new.value = recipients[w] /\ new.usedBy = c.usedBy
      OBVIOUS
    <3> HIDE DEF c, new
    <3>6. CASE Refuse("already exists")
      BY <3>3, <3>6 DEF Refuse
    <3>7. CASE /\ objects' = [objects EXCEPT ![c.slug] = new]
               /\ reply' = "ok" /\ extra' = extra
      <4>1. /\ objects'[c.slug] = new
            /\ \A u \in Slugs \ {c.slug} : objects'[u] = objects[u]
        BY <1>1, <1>2, <3>7 DEF TypeOK
      <4> QED BY <3>3, <3>5, <3>7, <4>1
    <3> QED BY <3>4, <3>6, <3>7
  <2>2. CASE c.kind = "update"
    <3>1. PICK sel \in Selectors, t \in Opt(SUBSET Tags) :
            updateVariant(c.slug, sel, recipients[w], t, c.usedBy)
      BY <2>2 DEF Write
    <3>2. c.usedBy \in Opt(SUBSET Consumers)
      BY <1>2, CommandTypes
    <3> HIDE DEF c
    <3>3. Update
      BY <1>2, <3>1, <3>2 DEF Update
    <3>4. /\ extra' = extra
          /\ \/ reply' # "ok" /\ objects' = objects
             \/ /\ reply' = "ok" /\ objects[c.slug] # Absent
                /\ objects'[c.slug].value = recipients[w]
                /\ objects'[c.slug].usedBy = Given(c.usedBy, objects[c.slug].usedBy)
                /\ \A u \in Slugs \ {c.slug} : objects'[u] = objects[u]
      BY <1>1, <1>2, <3>1, <3>2, UpdateOne
    <3> QED BY <1>3, <3>3, <3>4 DEF Given
  <2> QED BY <1>2, <2>1, <2>2, CommandTypes
<1>7. IndInv' /\ OneVariant'
  BY <1>6, NextIndInv DEF WriteInv, Next, OneVariant
<1>8. OwnTypes' /\ pc'[w] = "idle"
  <2>1. \A v \in Writers : (v # w /\ Disturbed(v)) \in BOOLEAN
    BY <1>1 DEF Disturbed, OwnTypes
  <2>2. touched' \in [Writers -> BOOLEAN]
    BY <1>4, <2>1
  <2>3. byDirectory' \subseteq Slugs
    BY <1>1, <1>2, <1>4 DEF OwnTypes
  <2> QED BY <1>1, <1>4, <1>5, <2>2, <2>3 DEF OwnTypes, End, Opt
<1>9. ASSUME NEW v \in Writers
      PROVE  InProgress(v)' /\ Collected(v)' /\ Current(v)'
  <2>1. CASE v = w
    BY <1>8, <2>1 DEF InProgress, Collected, Current
  <2>2. CASE v # w
    <3>1. /\ pc'[v] = pc[v] /\ cmd'[v] = cmd[v] /\ todo'[v] = todo[v]
          /\ recipients'[v] = recipients[v]
      BY <1>1, <1>4, <2>2 DEF OwnTypes, End
    <3>2. ~touched'[v] =>
              /\ ~touched[v]
              /\ pc[v] # "idle" => \A d \in Looked(cmd[v]) : consumers'[d] = consumers[d]
      BY <1>4, <2>2 DEF Disturbed
    <3> QED BY <1>5, <3>1, <3>2, WriterKept
  <2> QED BY <2>1, <2>2
<1>10. SealedForItsConsumers'
  <2> SUFFICES ASSUME NEW s \in byDirectory', objects'[s] # Absent,
                      NEW d \in objects'[s].usedBy
               PROVE  objects'[s].value \cap held'[d] # {}
    BY DEF SealedForItsConsumers
  <2>1. s \in Slugs
    BY <1>8 DEF OwnTypes
  <2>2. CASE objects'[s] = objects[s] /\ s \in byDirectory
    <3>1. objects[s].usedBy \subseteq Consumers
      BY <1>1, <2>1, <2>2 DEF TypeOK, Object
    <3> QED BY <1>1, <1>5, <2>2, <3>1 DEF SealedForItsConsumers
  <2>3. CASE reply' = "ok" /\ s = c.slug
    <3>1. c.explicit = {}
      BY <1>4, <2>3
    <3> QED BY <1>3, <1>5, <1>6, <2>3, <3>1
  <2> QED BY <1>4, <1>6, <2>1, <2>2, <2>3
<1> QED BY <1>5, <1>7, <1>8, <1>9, <1>10 DEF WriteInv

\* Every step keeps the invariant.
LEMMA WriteNextInv == WriteInv /\ [WriteNext]_allVars => WriteInv'
<1> SUFFICES ASSUME WriteInv, [WriteNext]_allVars PROVE WriteInv'
  OBVIOUS
<1>1. CASE Others
  BY <1>1, OthersInv
<1>2. ASSUME UNCHANGED <<vars, writer, history>>, ownerPublicKey' \in {Nil, OwnerKey}
      PROVE  WriteInv'
  <2>1. IndInv'
    BY <1>2, NextIndInv DEF WriteInv
  <2>2. OneVariant' /\ OwnTypes' /\ HeldIsKnown' /\ SealedForItsConsumers'
    BY <1>2 DEF WriteInv, vars, writer, history, OneVariant, OwnTypes, HeldIsKnown,
                SealedForItsConsumers
  <2>3. \A w \in Writers : InProgress(w)' /\ Collected(w)' /\ Current(w)'
    <3> TAKE w \in Writers
    <3> QED BY <1>2, WriterKept DEF vars, writer, history
  <2> QED BY <2>1, <2>2, <2>3 DEF WriteInv
<1>3. CASE SetOwnerPublicKey
  BY <1>2, <1>3 DEF SetOwnerPublicKey
<1>4. ASSUME NEW w \in Writers,
             Begin(w) \/ Resolve(w) \/ Seal(w) \/ Write(w) \/ Interrupt(w)
      PROVE  WriteInv'
  BY <1>4, BeginInv, ResolveInv, SealInv, WriteStepInv, FailInv DEF Interrupt
<1>5. CASE UNCHANGED allVars
  BY <1>2, <1>5 DEF allVars, WriteInv, OwnTypes
<1> QED BY <1>1, <1>3, <1>4, <1>5 DEF WriteNext

\* The invariant of the commands that seal, for any number of them.
LEMMA WriteInvariance == WriteSpec => []WriteInv
BY WriteInitInv, WriteNextInv, PTL DEF WriteSpec

\* Type correctness: commands, history and store keep their types.
THEOREM WriteTypesCorrect == WriteSpec => []WriteTypeOK
<1>1. WriteInv => WriteTypeOK
  BY DEF WriteInv, IndInv, OwnTypes, WriteTypeOK
<1> QED BY <1>1, WriteInvariance, PTL

\* A value sealed to looked-up keys can be opened by every consumer of its
\* object with a key it has or had, however many people inject, update,
\* rename and remove at once.
THEOREM AlwaysSealedForItsConsumers == WriteSpec => []SealedForItsConsumers
<1>1. WriteInv => SealedForItsConsumers
  BY DEF WriteInv
<1> QED BY <1>1, WriteInvariance, PTL

\* A command whose consumers nobody touched seals to their keys exactly, and
\* to the owner's just when a readable copy was asked for.
THEOREM AlwaysCurrentRecipients == WriteSpec => []UndisturbedRecipientsAreCurrent
<1>1. WriteInv => UndisturbedRecipientsAreCurrent
  <2> SUFFICES ASSUME WriteInv, NEW w \in Writers, pc[w] = "sealed",
                      cmd[w].explicit = {}, ~touched[w]
               PROVE  recipients[w] =
                        {consumers[c] : c \in cmd[w].usedBy}
                            \cup (IF cmd[w].keepReadableCopy THEN {OwnerKey} ELSE {})
    BY DEF UndisturbedRecipientsAreCurrent
  <2>1. todo[w] = {} /\ Current(w)
    BY DEF WriteInv, InProgress
  <2> QED BY <2>1 DEF Current, OwnerCopy
<1> QED BY <1>1, WriteInvariance, PTL

-----------------------------------------------------------------------------
(* When a write goes through undisturbed, its keys are the registered ones. *)

\* While its consumers' entries stay as they were, a command has collected
\* the key of each one it has looked up.
Fresh(w) ==
    pc[w] # "idle" /\ cmd[w].explicit = {} /\ ~touched[w] =>
        \A c \in cmd[w].usedBy \ todo[w] :
            consumers[c] \in Keys /\ consumers[c] \in recipients[w]

FreshInv == WriteInv /\ \A w \in Writers : Fresh(w)

\* A writer that a step leaves alone.
LEMMA FreshKept ==
    ASSUME WriteInv, NEW w \in Writers, Fresh(w),
           pc'[w] = pc[w], cmd'[w] = cmd[w], todo'[w] = todo[w],
           recipients'[w] = recipients[w],
           ~touched'[w] =>
              /\ ~touched[w]
              /\ pc[w] # "idle" => \A c \in Looked(cmd[w]) : consumers'[c] = consumers[c]
    PROVE  Fresh(w)'
<1> SUFFICES ASSUME pc[w] # "idle", cmd[w].explicit = {}, ~touched'[w],
                    NEW c \in cmd[w].usedBy \ todo[w]
             PROVE  consumers'[c] \in Keys /\ consumers'[c] \in recipients[w]
  BY DEF Fresh
<1>1. Looked(cmd[w]) = cmd[w].usedBy
  BY DEF Looked
<1>2. consumers'[c] = consumers[c]
  BY <1>1
<1> QED BY <1>2 DEF Fresh

\* A writer's step leaves the other writers alone.
LEMMA OthersAlone ==
    ASSUME WriteInv, NEW w \in Writers, NEW v \in Writers, v # w,
           Begin(w) \/ Resolve(w) \/ Seal(w) \/ Write(w) \/ Interrupt(w)
    PROVE  /\ pc'[v] = pc[v] /\ cmd'[v] = cmd[v] /\ todo'[v] = todo[v]
           /\ recipients'[v] = recipients[v]
           /\ ~touched'[v] =>
                /\ ~touched[v]
                /\ pc[v] # "idle" => \A c \in Looked(cmd[v]) : consumers'[c] = consumers[c]
<1>1. OwnTypes
  BY DEF WriteInv
<1>2. CASE Begin(w)
  BY <1>1, <1>2 DEF Begin, OwnTypes, history, vars
<1>3. CASE Fail(w)
  BY <1>1, <1>3 DEF Fail, End, OwnTypes, vars
<1>4. CASE Resolve(w)
  BY <1>1, <1>3, <1>4 DEF Resolve, OwnTypes, history, vars
<1>5. CASE Seal(w)
  BY <1>1, <1>3, <1>5 DEF Seal, OwnTypes, history, vars
<1>6. CASE Write(w)
  <2>1. End(w) /\ touched' = [u \in Writers |-> u # w /\ Disturbed(u)]
    BY <1>6 DEF Write
  <2> QED BY <1>1, <2>1 DEF End, OwnTypes, Disturbed
<1> QED BY <1>2, <1>3, <1>4, <1>5, <1>6 DEF Interrupt

\* A writer's own step.
LEMMA OwnFresh ==
    ASSUME WriteInv, NEW w \in Writers, Fresh(w),
           Begin(w) \/ Resolve(w) \/ Seal(w) \/ Write(w) \/ Interrupt(w)
    PROVE  Fresh(w)'
<1>1. OwnTypes /\ InProgress(w)
  BY DEF WriteInv
<1>2. CASE End(w)
  <2>1. pc'[w] = "idle"
    BY <1>1, <1>2 DEF End, OwnTypes
  <2> QED BY <2>1 DEF Fresh
<1>3. CASE Fail(w)
  BY <1>2, <1>3 DEF Fail
<1>4. CASE Begin(w)
  <2>1. PICK c \in Commands : cmd' = [cmd EXCEPT ![w] = c] /\ todo' = [todo EXCEPT ![w] = Looked(c)]
    BY <1>4 DEF Begin
  <2>2. cmd'[w] = c /\ todo'[w] = Looked(c)
    BY <1>1, <2>1 DEF OwnTypes
  <2>3. c.explicit = {} => Looked(c) = c.usedBy
    BY DEF Looked
  <2> QED BY <2>2, <2>3 DEF Fresh
<1>5. CASE Resolve(w)
  <2>1. PICK c \in todo[w] :
          \/ Fail(w)
          \/ /\ consumers[c] \in Keys
             /\ todo' = [todo EXCEPT ![w] = todo[w] \ {c}]
             /\ recipients' = [recipients EXCEPT ![w] = recipients[w] \cup {consumers[c]}]
             /\ UNCHANGED <<vars, ownerPublicKey, pc, cmd, history>>
    BY <1>5 DEF Resolve
  <2>2. CASE /\ consumers[c] \in Keys
             /\ todo' = [todo EXCEPT ![w] = todo[w] \ {c}]
             /\ recipients' = [recipients EXCEPT ![w] = recipients[w] \cup {consumers[c]}]
             /\ UNCHANGED <<vars, ownerPublicKey, pc, cmd, history>>
    <3>1. todo'[w] = todo[w] \ {c} /\ recipients'[w] = recipients[w] \cup {consumers[c]}
      BY <1>1, <2>2 DEF OwnTypes
    <3>2. pc' = pc /\ cmd' = cmd /\ touched' = touched /\ consumers' = consumers
      BY <2>2 DEF history, vars
    <3> QED BY <2>2, <3>1, <3>2 DEF Fresh
  <2> QED BY <1>3, <2>1, <2>2
<1>6. CASE Seal(w)
  <2> DEFINE owner == IF cmd[w].keepReadableCopy THEN {ownerPublicKey} ELSE {}
  <2>1. CASE /\ recipients' = [recipients EXCEPT ![w] = recipients[w] \cup owner]
             /\ UNCHANGED <<vars, ownerPublicKey, cmd, todo, history>>
             /\ pc[w] = "resolving"
    <3> HIDE DEF owner
    <3>1. recipients'[w] = recipients[w] \cup owner
      BY <1>1, <2>1 DEF OwnTypes
    <3>2. cmd' = cmd /\ todo' = todo /\ touched' = touched /\ consumers' = consumers
      BY <2>1 DEF history, vars
    <3> QED BY <2>1, <3>1, <3>2 DEF Fresh
  <2> QED BY <1>3, <1>6, <2>1 DEF Seal
<1>7. CASE Write(w)
  BY <1>2, <1>7 DEF Write
<1> QED BY <1>3, <1>4, <1>5, <1>6, <1>7 DEF Interrupt

LEMMA NextFresh == FreshInv /\ [WriteNext]_allVars => FreshInv'
<1> SUFFICES ASSUME FreshInv, [WriteNext]_allVars, NEW v \in Writers PROVE Fresh(v)'
  BY WriteNextInv DEF FreshInv
<1>1. WriteInv /\ Fresh(v)
  BY DEF FreshInv
<1>2. CASE Others
  <2>1. /\ touched' = [w \in Writers |-> Disturbed(w)] /\ pc' = pc /\ cmd' = cmd
        /\ todo' = todo /\ recipients' = recipients
    BY <1>2 DEF Others, writer
  <2>2. ~touched'[v] =>
          /\ ~touched[v]
          /\ pc[v] # "idle" => \A c \in Looked(cmd[v]) : consumers'[c] = consumers[c]
    BY <2>1 DEF Disturbed
  <2> QED BY <1>1, <2>1, <2>2, FreshKept
<1>3. CASE UNCHANGED <<vars, writer, history>>
  BY <1>1, <1>3 DEF vars, writer, history, Fresh
<1>4. ASSUME NEW w \in Writers,
             Begin(w) \/ Resolve(w) \/ Seal(w) \/ Write(w) \/ Interrupt(w)
      PROVE  Fresh(v)'
  BY <1>1, <1>4, OthersAlone, FreshKept, OwnFresh
<1> QED BY <1>2, <1>3, <1>4 DEF WriteNext, SetOwnerPublicKey, allVars

\* What a write does to the directory takes nobody's key away.
LEMMA WriteKeepsKeys ==
    ASSUME WriteInv, NEW w \in Writers, Write(w), NEW c \in Consumers, consumers[c] \in Keys
    PROVE  consumers'[c] = consumers[c]
<1>1. consumers[c] # Absent
  BY AbsentAssumption
<1>2. ASSUME NEW names, consumers' = Joined(names) PROVE consumers'[c] = consumers[c]
  BY <1>1, <1>2 DEF Joined
<1>3. \/ consumers' = consumers
      \/ \E names : consumers' = Joined(names)
  BY DEF Write, createObject, updateVariant, Refuse
<1> QED BY <1>2, <1>3

\* "seals the new value to their registered public keys" holds of every
\* applied write, however many people write at once, as long as nobody changes
\* its consumers' entries between the look-ups and the write.
THEOREM UndisturbedWritesStayCurrent == WriteSpec => UndisturbedWritesAreCurrent
<1>1. WriteInit => FreshInv
  BY WriteInitInv DEF WriteInit, Fresh, FreshInv
<1>2. FreshInv /\ [WriteNext]_allVars =>
        [\A w \in Writers :
            Write(w) /\ reply' = "ok" /\ cmd[w].explicit = {} /\ ~touched[w] =>
                \A c \in cmd[w].usedBy : consumers'[c] \in recipients[w]]_allVars
  <2> SUFFICES ASSUME FreshInv, NEW w \in Writers, Write(w), cmd[w].explicit = {},
                      ~touched[w], NEW c \in cmd[w].usedBy
               PROVE  consumers'[c] \in recipients[w]
    OBVIOUS
  <2>1. WriteInv /\ Fresh(w) /\ InProgress(w)
    BY DEF FreshInv, WriteInv
  <2>2. pc[w] = "sealed" /\ todo[w] = {} /\ cmd[w] \in Commands
    BY <2>1 DEF Write, InProgress
  <2>3. c \in Consumers
    BY <2>2, CommandTypes
  <2>4. consumers[c] \in Keys /\ consumers[c] \in recipients[w]
    BY <2>1, <2>2 DEF Fresh
  <2> QED BY <2>1, <2>3, <2>4, WriteKeepsKeys
<1> QED BY <1>1, <1>2, NextFresh, PTL DEF WriteSpec, UndisturbedWritesAreCurrent

-----------------------------------------------------------------------------
(* Composition: everybody's steps are operations of the store.             *)

\* A write sends what createObject and updateVariant take.
LEMMA WriteIsOperation ==
    ASSUME WriteInv, NEW w \in Writers, Write(w)
    PROVE  Next
<1> DEFINE c == cmd[w]
<1>1. pc[w] = "sealed" /\ c \in Commands
  BY DEF Write, WriteInv, InProgress
<1>2. recipients[w] \in Values
  <2>1. recipients[w] \in SUBSET (Keys \cup {OwnerKey})
    BY DEF WriteInv, OwnTypes
  <2> QED BY <2>1, SealedValuesAssumption
<1>3. \/ /\ c.kind = "inject"
         /\ \E d \in Descriptions, t \in SUBSET Tags :
               createObject(c.slug, recipients[w], c.usedBy, d, t)
      \/ \E sel \in Selectors, t \in Opt(SUBSET Tags) :
               updateVariant(c.slug, sel, recipients[w], t, c.usedBy)
  BY DEF Write
<1> HIDE DEF c
<1>4. /\ c.slug \in Slugs /\ c.usedBy \in Opt(SUBSET Consumers)
      /\ c.kind = "inject" => c.usedBy \in SUBSET Consumers
  BY <1>1, CommandTypes
<1>5. ASSUME c.kind = "inject", NEW d \in Descriptions, NEW t \in SUBSET Tags,
             createObject(c.slug, recipients[w], c.usedBy, d, t)
      PROVE  Create
  BY <1>2, <1>4, <1>5 DEF Create
<1>6. ASSUME NEW sel \in Selectors, NEW t \in Opt(SUBSET Tags),
             updateVariant(c.slug, sel, recipients[w], t, c.usedBy)
      PROVE  Update
  BY <1>2, <1>4, <1>6 DEF Update
<1> QED BY <1>3, <1>5, <1>6 DEF Next

LEMMA WriteStepIsOperation == WriteInv /\ [WriteNext]_allVars => [Next]_vars
<1> SUFFICES ASSUME WriteInv, [WriteNext]_allVars PROVE [Next]_vars
  OBVIOUS
<1>1. CASE Others
  BY <1>1 DEF Others, Next, Rename
<1>2. ASSUME NEW w \in Writers, Write(w) PROVE [Next]_vars
  BY <1>2, WriteIsOperation
<1>3. ASSUME NEW w \in Writers, Begin(w) \/ Resolve(w) \/ Seal(w) \/ Interrupt(w)
      PROVE  UNCHANGED vars
  BY <1>3 DEF Begin, Resolve, Seal, Interrupt, Fail
<1>4. CASE SetOwnerPublicKey \/ UNCHANGED allVars
  BY <1>4 DEF SetOwnerPublicKey, allVars
<1> QED BY <1>1, <1>2, <1>3, <1>4 DEF WriteNext

\* The store among people who look keys up, seal, fail and write is the store:
\* a command never asks of it what its operations do not take, so that every
\* theorem about the store holds here too.
THEOREM WritersImplementStore == WriteSpec => Spec
<1>1. WriteInit => Init
  BY DEF WriteInit
<1> QED BY <1>1, WriteStepIsOperation, WriteInvariance, PTL DEF WriteSpec, Spec

\* In particular: what anybody writes is a step of the catalog, no key is
\* forgotten meanwhile, and the directory covers what names its consumers.
THEOREM WritersKeepStore ==
    WriteSpec => /\ ImplementsCatalog /\ KeyNeverForgotten
                 /\ [](NoOrphanVariants /\ VariantIDsDistinct /\ DirectoryCoversCreated)
BY WritersImplementStore, StoreImplementsCatalog, KeysNeverForgotten, NoOrphans, DistinctIDs,
   DirectoryCovers, PTL
=============================================================================
