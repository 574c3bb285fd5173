-------------------------- MODULE CommandRunProofs --------------------------
(***************************************************************************)
(* Proofs about CommandRun, for any number of commands and any bounds on   *)
(* what they ask.  The handlers run operations of ObjectStore and of       *)
(* ConsumerTokens, so that the invariants of both come from their proofs;  *)
(* what is added here relates a command's exit, its answer and what took   *)
(* effect.                                                                 *)
(***************************************************************************)
EXTENDS CommandRun, CatalogRefinement

TokP == INSTANCE ConsumerTokensProofs WITH reply <- tokenReply

-----------------------------------------------------------------------------
(* The store and the tokens keep their invariants.                         *)

TypeInv == IndInv /\ TokP!IndInv /\ RunTypeOK

\* The assumptions of ConsumerTokens hold of its instance.
LEMMA TokenAssumptions == TokP!DurationsAssumption /\ TokP!AbsentAssumption
BY ClockAssumption, AbsentTokenAssumption
   DEF TokP!DurationsAssumption, TokP!AbsentAssumption, TokP!consumerToken, Tok!consumerToken

\* Every step of the tokens keeps their invariant.
LEMMA TokenStep == TokP!IndInv /\ [TokP!Next]_tokenVars => TokP!IndInv'
BY TokenAssumptions, TokP!NextIndInv DEF tokenVars, TokP!vars

\* The two instances of ConsumerTokens speak of the same.
LEMMA SameTokens ==
    /\ \A c, d : Tok!CreateConsumerToken(c, d) <=> TokP!CreateConsumerToken(c, d)
    /\ \A i, d : Tok!RotateConsumerToken(i, d) <=> TokP!RotateConsumerToken(i, d)
    /\ \A i : Tok!RevokeConsumerToken(i) <=> TokP!RevokeConsumerToken(i)
    /\ \A i : Tok!PurgeConsumerToken(i) <=> TokP!PurgeConsumerToken(i)
    /\ Tok!Tick <=> TokP!Tick
<1>1. \A c, d : Tok!CreateConsumerToken(c, d) <=> TokP!CreateConsumerToken(c, d)
  BY DEF Tok!CreateConsumerToken, TokP!CreateConsumerToken, Tok!Answer, TokP!Answer,
         Tok!TtlSeconds, TokP!TtlSeconds
<1>2. \A i, d : Tok!RotateConsumerToken(i, d) <=> TokP!RotateConsumerToken(i, d)
  BY DEF Tok!RotateConsumerToken, TokP!RotateConsumerToken, Tok!Answer, TokP!Answer,
         Tok!TtlSeconds, TokP!TtlSeconds, Tok!MayRotate, TokP!MayRotate
<1>3. \A i : Tok!RevokeConsumerToken(i) <=> TokP!RevokeConsumerToken(i)
  BY DEF Tok!RevokeConsumerToken, TokP!RevokeConsumerToken, Tok!Answer, TokP!Answer
<1>4. \A i : Tok!PurgeConsumerToken(i) <=> TokP!PurgeConsumerToken(i)
  BY DEF Tok!PurgeConsumerToken, TokP!PurgeConsumerToken, Tok!Answer, TokP!Answer,
         Tok!MayPurge, TokP!MayPurge
<1>5. Tok!Tick <=> TokP!Tick
  BY DEF Tok!Tick, TokP!Tick
<1> QED BY <1>1, <1>2, <1>3, <1>4, <1>5

\* What a command asks has the types its operation takes.
LEMMA Asked ==
    ASSUME NEW c \in Commands
    PROVE  /\ c.op \in {"consumer add", "consumer delete", "consumer update",
                        "token create"} => c.name \in Consumers
           /\ c.op = "consumer update" => c.newName \in Opt(Consumers) /\ c.publicKey \in Opt(Keys)
           /\ c.op \in {"token create", "token rotate"} => c.ttl \in Durations
           /\ c.op \in {"token rotate", "token revoke", "token purge"} => c.id \in RandomSuffixes
           /\ c.op \in {"get", "delete", "edit"} => c.slug \in Slugs /\ c.sel \in Selectors
           /\ c.op = "edit" => /\ c.description \in Opt(Descriptions)
                               /\ c.newSlug \in Opt(Slugs) /\ c.tags \in Opt(SUBSET Spellings)
<1>1. CASE c \in ConsumerCommands
  BY <1>1 DEF ConsumerCommands
<1>2. CASE c \in TokenCommands
  BY <1>2 DEF TokenCommands
<1>3. CASE c \in ObjectCommands
  BY <1>3 DEF ObjectCommands
<1> QED BY <1>1, <1>2, <1>3 DEF Commands

\* Tags that pass are tags.
LEMMA NormalizedTags ==
    ASSUME NEW typed \in SUBSET Spellings, normalizeTags(typed) # Nil
    PROVE  normalizeTags(typed) \in SUBSET Tags
<1> DEFINE out == {Lower[t] : t \in typed}
<1>1. normalizeTags(typed) = out /\ Nil \notin out
  BY DEF normalizeTags
<1>2. out \in SUBSET Tags
  BY <1>1, TagsAssumption
<1> QED BY <1>1, <1>2

-----------------------------------------------------------------------------
(* Types.                                                                  *)

Answers == [status : Nat, reason : Reasons, shown : Opt(Served)]

Stages == {"unsent", "sent", "dropped", "judged", "added", "answered"}

\* A handler's answer has its type.
LEMMA AnswerType ==
    ASSUME RunTypeOK, NEW r \in Requests, NEW status \in Nat, NEW reason \in Reasons,
           NEW shown \in Opt(Served), Answer(r, status, reason, shown)
    PROVE  /\ stage' \in [Requests -> Stages]
           /\ answer' \in [Requests -> Answers]
<1> DEFINE a == [status |-> status, reason |-> reason, shown |-> shown]
<1>1. a \in Answers
  BY DEF Answers
<1>2. stage' = [stage EXCEPT ![r] = "answered"] /\ answer' = [answer EXCEPT ![r] = a]
  BY DEF Answer
<1>3. answer \in [Requests -> Answers]
  BY DEF RunTypeOK, Answers
<1> HIDE DEF a
<1>4. answer' \in [Requests -> Answers]
  BY <1>1, <1>2, <1>3
<1>5. stage' \in [Requests -> Stages]
  BY <1>2 DEF RunTypeOK, Stages
<1> QED BY <1>4, <1>5

\* So does the list of what took effect.
LEMMA TakeType ==
    ASSUME RunTypeOK, NEW r \in Requests, NEW took, Take(r, took)
    PROVE  applied' \in Seq(Requests)
BY DEF RunTypeOK, Take

LEMMA StatusIsNat == \A x : StatusOf(x) \in Nat
BY DEF StatusOf

\* The reply of the store has a status and a text.
LEMMA ReplyAnswered ==
    ASSUME RunTypeOK, NEW r \in Requests, reply' \in Replies, AnswerReply(r)
    PROVE  /\ stage' \in [Requests -> Stages]
           /\ answer' \in [Requests -> Answers]
           /\ applied' \in Seq(Requests)
<1>1. StatusOf(reply') \in Nat
  BY StatusIsNat
<1>1a. reply' \in Reasons /\ Nil \in Opt(Served)
  BY DEF Reasons, Opt
<1>2. Answer(r, StatusOf(reply'), reply', Nil) /\ Take(r, reply' = "ok")
  BY DEF AnswerReply
<1>3. applied' \in Seq(Requests)
  BY <1>2, TakeType
<1>4. /\ stage' \in [Requests -> Stages]
      /\ answer' \in [Requests -> Answers]
  BY <1>1, <1>1a, <1>2, AnswerType
<1> QED BY <1>3, <1>4

LEMMA Pairing == \A a, b : <<a>> \o << >> = <<a>> /\ <<a>> \o <<b>> = <<a, b>>
<1> TAKE a, b
<1>1. <<a>> \in Seq({a, b}) /\ <<b>> \in Seq({a, b}) /\ << >> \in Seq({a, b})
  OBVIOUS
<1>2. <<a>> \o << >> = <<a>>
  BY <1>1
<1>3. <<a>> \o <<b>> = <<a, b>>
  <2> DEFINE u == <<a>> \o <<b>>
             w == <<a, b>>
  <2>1. u \in Seq({a, b}) /\ Len(u) = 2
    BY <1>1, ConcatProperties
  <2>2. u[1] = a /\ u[2] = b
    BY <1>1, ConcatProperties
  <2>3. w \in Seq({a, b}) /\ Len(w) = 2 /\ w[1] = a /\ w[2] = b
    OBVIOUS
  <2> HIDE DEF u, w
  <2>4. \A i \in 1..2 : u[i] = w[i]
    BY <2>2, <2>3
  <2>5. u = w
    BY <2>1, <2>3, <2>4, SeqEqual
  <2> QED BY <2>5 DEF u, w
<1> QED BY <1>2, <1>3

\* The state the server starts in.
LEMMA RunInitStore == StoreBefore => IndInv
<1> SUFFICES ASSUME StoreBefore PROVE IndInv
  OBVIOUS
<1>1. \A s \in Slugs : objects[s] # Absent =>
        /\ objects[s] \in Object /\ objects[s].id = objectID(s)
        /\ \A c \in objects[s].usedBy : consumers[c] # Absent
  <2> SUFFICES ASSUME NEW s \in Slugs, objects[s] # Absent
               PROVE  /\ objects[s] \in Object /\ objects[s].id = objectID(s)
                      /\ \A c \in objects[s].usedBy : consumers[c] # Absent
    OBVIOUS
  <2>1. /\ objects[s] \in [id : {objectID(t) : t \in Slugs}, value : Values, usedBy : SUBSET Early,
                           description : {EmptyDescription}, tags : {{}}]
        /\ objects[s].id = objectID(s)
        /\ \A c \in objects[s].usedBy : consumers[c] # Absent
    BY DEF StoreBefore
  <2>2. objects[s] \in Object
    BY <2>1, BoundsAssumption, EmptyDescriptionAssumption DEF Object, IDs
  <2> QED BY <2>1, <2>2
<1>2. \A s \in Slugs : \/ extra[s] = << >>
                       \/ \E r \in RandomIDs, o \in Object :
                             extra[s] = <<o>> /\ o.id = NewString(r)
  <2> TAKE s \in Slugs
  <2> DEFINE obj(r, v, u) == [id |-> NewString(r), value |-> v, usedBy |-> u,
                              description |-> EmptyDescription, tags |-> {}]
  <2>1. \A r \in RandomIDs, v \in Values, u \in SUBSET Early :
          obj(r, v, u) \in Object /\ obj(r, v, u).id = NewString(r)
    BY BoundsAssumption, EmptyDescriptionAssumption DEF Object, IDs
  <2>2. extra \in [Slugs -> {<< >>} \cup
          {<<obj(r, v, u)>> : r \in RandomIDs, v \in Values, u \in SUBSET Early}]
    BY DEF StoreBefore
  <2> HIDE DEF obj
  <2>3. extra[s] = << >> \/ \E r \in RandomIDs, v \in Values, u \in SUBSET Early :
                              extra[s] = <<obj(r, v, u)>>
    BY <2>2
  <2> QED BY <2>1, <2>3
<1>3. \A s \in Slugs : extra[s] \in Seq(Object)
  <2>1. \A o \in Object : <<o>> \in Seq(Object)
    OBVIOUS
  <2>2. << >> \in Seq(Object)
    OBVIOUS
  <2> QED BY <1>2, <2>1, <2>2
<1>4. TypeOK
  BY <1>1, <1>3 DEF StoreBefore, TypeOK, Replies
<1>5. NoOrphanVariants
  BY DEF StoreBefore, NoOrphanVariants
<1>6. ASSUME NEW s \in Slugs, NEW i \in DOMAIN variantsLocked(s)
      PROVE  \/ i = 1 /\ variantsLocked(s)[i] = objects[s] /\ objects[s] # Absent
             \/ /\ i = 2 /\ DOMAIN variantsLocked(s) = 1..2
                /\ \E r \in RandomIDs : /\ variantsLocked(s)[i].id = NewString(r)
                                        /\ extra[s] # << >> /\ extra[s][1].id = NewString(r)
  <2>1. objects[s] # Absent /\ variantsLocked(s) = <<objects[s]>> \o extra[s]
    BY <1>6 DEF variantsLocked
  <2>2. CASE extra[s] = << >>
    <3>1. variantsLocked(s) = <<objects[s]>>
      BY <2>1, <2>2, Pairing
    <3>2. i = 1
      BY <1>6, <3>1
    <3> QED BY <2>1, <3>1, <3>2
  <2>3. CASE extra[s] # << >>
    <3>1. PICK r \in RandomIDs, o \in Object : extra[s] = <<o>> /\ o.id = NewString(r)
      BY <1>2, <2>3
    <3>2. variantsLocked(s) = <<objects[s], o>>
      BY <2>1, <3>1, Pairing
    <3>3. i = 1 \/ i = 2
      BY <1>6, <3>2
    <3> QED BY <2>1, <3>1, <3>2, <3>3
  <2> QED BY <2>2, <2>3
<1>7. issued = {r \in RandomIDs : \E s \in Slugs : extra[s] # << >> /\ extra[s][1].id = NewString(r)}
  BY DEF StoreBefore
<1>8. IDsIssued
  <2> SUFFICES ASSUME NEW s \in Slugs, NEW i \in DOMAIN variantsLocked(s)
               PROVE  \/ i = 1 /\ \E t \in Slugs : variantsLocked(s)[i].id = objectID(t)
                      \/ \E r \in issued : variantsLocked(s)[i].id = NewString(r)
    BY DEF IDsIssued
  <2> QED BY <1>1, <1>6, <1>7
<1>9. VariantIDsDistinct
  <2> SUFFICES ASSUME NEW s \in Slugs, NEW i \in DOMAIN variantsLocked(s),
                      NEW j \in DOMAIN variantsLocked(s),
                      variantsLocked(s)[i].id = variantsLocked(s)[j].id
               PROVE  i = j
    BY DEF VariantIDsDistinct
  <2>1. i \in {1, 2} /\ j \in {1, 2}
    BY <1>6
  <2>2. \A k \in DOMAIN variantsLocked(s) :
          /\ k = 1 => variantsLocked(s)[k].id = objectID(s)
          /\ k = 2 => \E r \in RandomIDs : variantsLocked(s)[k].id = NewString(r)
    BY <1>1, <1>6
  <2> QED BY <2>1, <2>2, DerivedIsNotRandom
<1>10. DirectoryCoversCreated
  <2> SUFFICES ASSUME NEW s \in Slugs, NEW i \in DOMAIN variantsLocked(s),
                      variantsLocked(s)[i].id \in {objectID(t) : t \in Slugs},
                      NEW c \in variantsLocked(s)[i].usedBy
               PROVE  consumers[c] # Absent
    BY DEF DirectoryCoversCreated
  <2> QED BY <1>1, <1>6, DerivedIsNotRandom
<1> QED BY <1>4, <1>5, <1>8, <1>9, <1>10 DEF IndInv

\* The tokens it starts with.
LEMMA RunInitTokens == TokensBefore => TokP!IndInv
<1> SUFFICES ASSUME TokensBefore PROVE TokP!IndInv
  OBVIOUS
<1>1. /\ WriteToken \in RandomSuffixes /\ TokenID \in RandomSuffixes /\ TokenValue \in RandomSuffixes
      /\ Absent \notin RandomSuffixes /\ Absent \notin Int
      /\ Second \in Int /\ 0 \in 0..MaxTime
  BY CredentialsAssumption, AbsentTokenAssumption, ClockAssumption
<1>2. PICK c \in Early : consumerTokens = [i \in RandomSuffixes |-> IF i = TokenID
          THEN [consumer |-> c, expiresAt |-> 0, revoked |-> FALSE, value |-> TokenValue]
          ELSE Absent]
  BY DEF TokensBefore
<1> DEFINE rec == [consumer |-> c, expiresAt |-> 0, revoked |-> FALSE, value |-> TokenValue]
<1>3. rec \in TokP!consumerToken /\ rec.value = TokenValue
  BY <1>1, BoundsAssumption DEF TokP!consumerToken
<1>4. rec # Absent
  BY <1>3, TokenAssumptions DEF TokP!AbsentAssumption
<1>5. consumerTokens = [i \in RandomSuffixes |-> IF i = TokenID THEN rec ELSE Absent]
  BY <1>2
<1> HIDE DEF rec
<1>6. /\ now = 0 /\ drawn = {WriteToken, TokenID, TokenValue} /\ tokenReply = 200
      /\ tokens = [w \in RandomSuffixes |-> IF w = WriteToken THEN Second ELSE Absent]
      /\ consumerTokenValues = [v \in RandomSuffixes |-> IF v = TokenValue THEN TokenID ELSE Absent]
  BY DEF TokensBefore
<1>7. TokP!TypeOK
  BY <1>1, <1>3, <1>5, <1>6 DEF TokP!TypeOK
<1>8. TokP!UndrawnUnused /\ TokP!LookupMatchesRecords
  BY <1>1, <1>3, <1>4, <1>5, <1>6 DEF TokP!UndrawnUnused, TokP!LookupMatchesRecords
<1> QED BY <1>7, <1>8 DEF TokP!IndInv

\* No command has started.
LEMMA StartTypes == TokP!IndInv /\ NothingRun => RunTypeOK
<1> SUFFICES ASSUME TokP!IndInv, NothingRun PROVE RunTypeOK
  OBVIOUS
<1>1. NoAnswer \in Answers
  BY DEF NoAnswer, Answers, Reasons, Opt
<1>2. consumerTokenValues \in [RandomSuffixes -> RandomSuffixes \cup {Absent}]
  BY DEF TokP!IndInv, TokP!TypeOK
<1> QED BY <1>1, <1>2 DEF NothingRun, RunTypeOK, Answers, Opt, Outcomes

-----------------------------------------------------------------------------
(* What a handler does to its request.                                     *)

Success == 200..299

\* It answers, or goes on to its second half; it is listed as applied when
\* it says so, and only then.
Effect(r, c) ==
    \/ /\ c.op = "consumer add"
       /\ stage' = [stage EXCEPT ![r] = "added"] /\ answer' = answer
       /\ applied' = Append(applied, r)
    \/ /\ stage' = [stage EXCEPT ![r] = "answered"]
       /\ \E a \in Answers :
            /\ answer' = [answer EXCEPT ![r] = a]
            /\ \/ c.op # "get" /\ a.status \in Success /\ applied' = Append(applied, r)
               \/ c.op # "get" /\ a.status \notin Success /\ applied' = applied
               \/ /\ c.op = "get" /\ applied' = applied
                  /\ a.status = 200 /\ consumer[r] # Nil => consumer[r] \in a.shown.usedBy

\* A refusal.
LEMMA RefusedEffect ==
    ASSUME NEW r, NEW c, c.op # "get", NEW status \in Nat \ Success, NEW reason \in Reasons,
           Answer(r, status, reason, Nil), applied' = applied
    PROVE  Effect(r, c)
<1> DEFINE a == [status |-> status, reason |-> reason, shown |-> Nil]
<1>1. a \in Answers /\ a.status = status
  BY DEF Answers, Opt
<1>2. stage' = [stage EXCEPT ![r] = "answered"] /\ answer' = [answer EXCEPT ![r] = a]
  BY DEF Answer
<1> HIDE DEF a
<1> QED BY <1>1, <1>2 DEF Effect

\* A success with a body.
LEMMA AppliedEffect ==
    ASSUME NEW r, NEW c, c.op # "get", NEW status \in Nat \cap Success, NEW reason \in Reasons,
           NEW shown \in Opt(Served),
           Answer(r, status, reason, shown), applied' = Append(applied, r)
    PROVE  Effect(r, c)
<1> DEFINE a == [status |-> status, reason |-> reason, shown |-> shown]
<1>1. a \in Answers /\ a.status = status
  BY DEF Answers
<1>2. stage' = [stage EXCEPT ![r] = "answered"] /\ answer' = [answer EXCEPT ![r] = a]
  BY DEF Answer
<1> HIDE DEF a
<1> QED BY <1>1, <1>2 DEF Effect

LEMMA StatusIsSuccess ==
    /\ StatusOf("ok") \in Nat \cap Success
    /\ \A e \in Replies \ {"ok"} : StatusOf(e) \in Nat \ Success
BY DEF StatusOf, Replies, Success

\* What AnswerReply writes depends on the reply of the store.
LEMMA ReplyEffect ==
    ASSUME NEW r, NEW c, c.op # "get", reply' \in Replies, AnswerReply(r)
    PROVE  Effect(r, c)
<1>1. Answer(r, StatusOf(reply'), reply', Nil) /\ Take(r, reply' = "ok")
  BY DEF AnswerReply
<1>2. reply' \in Reasons /\ Nil \in Opt(Served)
  BY DEF Reasons, Opt
<1>3. CASE reply' = "ok"
  <2>1. applied' = Append(applied, r)
    BY <1>1, <1>3 DEF Take
  <2>2. StatusOf(reply') \in Nat \cap Success
    BY <1>3, StatusIsSuccess
  <2> QED BY <1>1, <1>2, <2>1, <2>2, AppliedEffect
<1>4. CASE reply' # "ok"
  <2>1. applied' = applied
    BY <1>1, <1>4 DEF Take
  <2>2. StatusOf(reply') \in Nat \ Success
    BY <1>4, StatusIsSuccess
  <2> QED BY <1>1, <1>2, <2>1, <2>2, RefusedEffect
<1> QED BY <1>3, <1>4

\* handleAddConsumer keeps the store's invariant and answers for what it did.
LEMMA AddEffect ==
    ASSUME TypeInv, NEW r \in Requests, NEW c \in Commands, handleAddConsumer(r, c)
    PROVE  IndInv' /\ Effect(r, c)
<1>1. c.op = "consumer add" /\ c.name \in Consumers /\ AddConsumer(c.name)
  BY Asked DEF handleAddConsumer
<1>2. IndInv'
  BY <1>1, AddConsumerIndInv DEF TypeInv
<1>3. reply' \in Replies
  BY <1>2 DEF IndInv, TypeOK
<1>4. CASE reply' # "ok" /\ AnswerReply(r)
  BY <1>1, <1>2, <1>3, <1>4, ReplyEffect
<1>5. CASE /\ stage' = [stage EXCEPT ![r] = "added"]
           /\ Take(r, TRUE)
           /\ UNCHANGED answer
  BY <1>1, <1>2, <1>5 DEF Effect, Take
<1> QED BY <1>4, <1>5 DEF handleAddConsumer

\* So do the other two handlers of consumers.
LEMMA ConsumerEffect ==
    ASSUME TypeInv, NEW r \in Requests, NEW c \in Commands,
           handleUpdateConsumer(r, c) \/ handleDeleteConsumer(r, c)
    PROVE  IndInv' /\ Effect(r, c)
<1>1. CASE handleUpdateConsumer(r, c)
  <2>1. /\ c.op = "consumer update" /\ c.name \in Consumers
        /\ c.newName \in Opt(Consumers) /\ c.publicKey \in Opt(Keys)
        /\ UpdateConsumer(c.name, c.newName, c.publicKey) /\ AnswerReply(r)
    BY <1>1, Asked DEF handleUpdateConsumer
  <2>2. IndInv'
    BY <2>1, UpdateConsumerIndInv DEF TypeInv
  <2>3. reply' \in Replies
    BY <2>2 DEF IndInv, TypeOK
  <2> QED BY <2>1, <2>2, <2>3, ReplyEffect
<1>2. CASE handleDeleteConsumer(r, c)
  <2>1. /\ c.op = "consumer delete" /\ c.name \in Consumers
        /\ DeleteConsumer(c.name) /\ AnswerReply(r)
    BY <1>2, Asked DEF handleDeleteConsumer
  <2>2. IndInv'
    BY <2>1, DeleteConsumerIndInv DEF TypeInv
  <2>3. reply' \in Replies
    BY <2>2 DEF IndInv, TypeOK
  <2> QED BY <2>1, <2>2, <2>3, ReplyEffect
<1> QED BY <1>1, <1>2

\* handleGetObject changes nothing, and serves only what is in scope.
LEMMA GetEffect ==
    ASSUME TypeInv, NEW r \in Requests, NEW c \in Commands, handleGetObject(r, c)
    PROVE  IndInv' /\ Effect(r, c)
<1>1. /\ c.op = "get" /\ c.slug \in Slugs /\ c.sel \in Selectors
      /\ vars' = vars /\ applied' = applied
  BY Asked DEF handleGetObject
<1>2. IndInv'
  BY <1>1, NextIndInv DEF TypeInv
<1>3. ASSUME NEW status \in Nat, NEW reason \in Reasons, NEW shown \in Opt(Served),
             Answer(r, status, reason, shown),
             status = 200 /\ consumer[r] # Nil => consumer[r] \in shown.usedBy
      PROVE  Effect(r, c)
  <2> DEFINE a == [status |-> status, reason |-> reason, shown |-> shown]
  <2>1. a \in Answers /\ a.status = status /\ a.shown = shown
    BY <1>3 DEF Answers
  <2>2. stage' = [stage EXCEPT ![r] = "answered"] /\ answer' = [answer EXCEPT ![r] = a]
    BY <1>3 DEF Answer
  <2> HIDE DEF a
  <2> QED BY <1>1, <1>3, <2>1, <2>2 DEF Effect
<1>4. Nil \in Opt(Served) /\ "" \in Reasons
  BY DEF Opt, Reasons
<1>4a. ASSUME NEW status \in Nat \ {200}, NEW reason \in Reasons, Answer(r, status, reason, Nil)
       PROVE  Effect(r, c)
  <2>1. status \in Nat /\ (status = 200 /\ consumer[r] # Nil => consumer[r] \in Nil.usedBy)
    OBVIOUS
  <2> QED BY <1>3, <1>4, <1>4a, <2>1
<1>5. CASE LET err == FindError(c.slug, c.sel) IN Answer(r, StatusOf(err), err, Nil)
  <2> DEFINE err == FindError(c.slug, c.sel)
  <2>1. err \in Replies \ {"ok"}
    BY DEF FindError, Replies
  <2>2. StatusOf(err) \in Nat \ Success /\ err \in Reasons /\ Answer(r, StatusOf(err), err, Nil)
    BY <1>5, <2>1, StatusIsSuccess DEF Reasons
  <2>3. StatusOf(err) # 200
    BY <2>2 DEF Success
  <2> HIDE DEF err
  <2> QED BY <1>2, <1>3, <1>4, <2>2, <2>3
<1>6. ASSUME NEW i \in DOMAIN variantsLocked(c.slug),
             LET obj == variantsLocked(c.slug)[i]
             IN  IF consumer[r] # Nil /\ consumer[r] \notin obj.usedBy
                 THEN Answer(r, 404, "", Nil)
                 ELSE Answer(r, 200, "", obj)
      PROVE  Effect(r, c)
  <2> DEFINE obj == variantsLocked(c.slug)[i]
  <2>1. obj \in Object
    BY <1>1, VariantsType, ElementOfSeq DEF TypeInv, IndInv
  <2>2. obj \in Opt(Served)
    BY <2>1 DEF Opt, Served
  <2>3. CASE consumer[r] # Nil /\ consumer[r] \notin obj.usedBy
    <3> DEFINE status == 404
               reason == ""
    <3>1. Answer(r, status, reason, Nil)
      BY <1>6, <2>3, Zenon
    <3>2. status \in Nat \ {200} /\ reason \in Reasons
      BY DEF Reasons
    <3> HIDE DEF status, reason, obj
    <3> QED BY <1>4a, <3>1, <3>2
  <2>4. CASE ~(consumer[r] # Nil /\ consumer[r] \notin obj.usedBy)
    <3> DEFINE status == 200
               reason == ""
    <3>1. Answer(r, status, reason, obj)
      BY <1>6, <2>4, Zenon
    <3>2. status \in Nat /\ (consumer[r] # Nil => consumer[r] \in obj.usedBy)
      BY <2>4
    <3>3. reason \in Reasons
      BY <1>4
    <3> HIDE DEF status, reason, obj
    <3> QED BY <1>3, <2>2, <3>1, <3>2, <3>3
  <2> QED BY <2>3, <2>4
<1> QED BY <1>2, <1>5, <1>6 DEF handleGetObject

\* handlePatchObject and handleDeleteObject.
LEMMA ObjectEffect ==
    ASSUME TypeInv, NEW r \in Requests, NEW c \in Commands,
           handlePatchObject(r, c) \/ handleDeleteObject(r, c)
    PROVE  IndInv' /\ Effect(r, c)
<1>1. CASE handlePatchObject(r, c)
  <2>1. /\ c.op = "edit" /\ c.slug \in Slugs /\ c.sel \in Selectors
        /\ c.description \in Opt(Descriptions)
        /\ c.newSlug \in Opt(Slugs) /\ c.tags \in Opt(SUBSET Spellings)
    BY <1>1, Asked DEF handlePatchObject
  <2>2. CASE Answer(r, 400, "invalid tags", Nil) /\ UNCHANGED <<vars, applied>>
    <3>1. IndInv'
      BY <2>2, NextIndInv DEF TypeInv
    <3> DEFINE status == 400
               reason == "invalid tags"
    <3>2. status \in Nat \ Success /\ reason \in Reasons
      BY DEF Success, Reasons
    <3>3. Answer(r, status, reason, Nil) /\ applied' = applied /\ c.op # "get"
      BY <2>1, <2>2, Zenon
    <3> HIDE DEF status, reason
    <3> QED BY <3>1, <3>2, <3>3, RefusedEffect
  <2> DEFINE tags == IF c.tags = Nil THEN Nil ELSE normalizeTags(c.tags)
  <2>3. CASE /\ c.tags = Nil \/ normalizeTags(c.tags) # Nil
             /\ patchVariant(c.slug, c.sel, c.description, c.newSlug, tags)
             /\ AnswerReply(r)
    <3>1. tags \in Opt(SUBSET Tags)
      BY <2>1, <2>3, NormalizedTags DEF Opt
    <3> HIDE DEF tags
    <3>2. IndInv'
      BY <2>1, <2>3, <3>1, PatchIndInv DEF TypeInv
    <3>3. reply' \in Replies
      BY <3>2 DEF IndInv, TypeOK
    <3> QED BY <2>1, <2>3, <3>2, <3>3, ReplyEffect
  <2> QED BY <1>1, <2>2, <2>3 DEF handlePatchObject
<1>2. CASE handleDeleteObject(r, c)
  <2>1. /\ c.op = "delete" /\ c.slug \in Slugs /\ c.sel \in Selectors
        /\ deleteVariant(c.slug, c.sel) /\ AnswerReply(r)
    BY <1>2, Asked DEF handleDeleteObject
  <2>2. IndInv'
    BY <2>1, DeleteIndInv DEF TypeInv
  <2>3. reply' \in Replies
    BY <2>2 DEF IndInv, TypeOK
  <2> QED BY <2>1, <2>2, <2>3, ReplyEffect
<1> QED BY <1>1, <1>2

\* An answer without a value.
LEMMA TokenAnswered ==
    ASSUME RunTypeOK, NEW r, NEW c, c.op # "get", tokenReply' \in {204, 400, 404, 409},
           AnswerToken(r)
    PROVE  Effect(r, c) /\ issuedUnder' = issuedUnder
<1> DEFINE status == tokenReply'
           reason == ""
<1>1. Answer(r, status, reason, Nil) /\ Take(r, status = 204) /\ issuedUnder' = issuedUnder
  BY DEF AnswerToken
<1>2. reason \in Reasons /\ Nil \in Opt(Served) /\ status \in Nat
  BY DEF Reasons, Opt
<1>3. CASE status = 204
  <2>1. applied' = Append(applied, r)
    BY <1>1, <1>3 DEF Take
  <2>2. status \in Nat \cap Success
    BY <1>3 DEF Success
  <2> HIDE DEF status, reason
  <2> QED BY <1>1, <1>2, <2>1, <2>2, AppliedEffect
<1>4. CASE status # 204
  <2>1. applied' = applied
    BY <1>1, <1>4 DEF Take
  <2>2. status \in Nat \ Success
    BY <1>4 DEF Success
  <2> HIDE DEF status, reason
  <2> QED BY <1>1, <1>2, <2>1, <2>2, RefusedEffect
<1> QED BY <1>3, <1>4

\* An answer with a value: the id and value of a record that is there.
LEMMA ValueAnswered ==
    ASSUME RunTypeOK, NEW r, NEW c, c.op # "get", tokenReply' \in {200, 201},
           NEW i \in RandomSuffixes, consumerTokens'[i] \in Tok!consumerToken, AnswerValue(r, i)
    PROVE  /\ Effect(r, c)
           /\ issuedUnder' \in [RandomSuffixes -> RandomSuffixes \cup {Absent}]
<1> DEFINE status == tokenReply'
           reason == ""
           value == consumerTokens'[i].value
           expiresAt == consumerTokens'[i].expiresAt
           shown == [id |-> i, value |-> value, expiresAt |-> expiresAt]
<1>1. /\ Answer(r, status, reason, shown) /\ Take(r, TRUE)
      /\ issuedUnder' = [issuedUnder EXCEPT ![value] = i]
  BY DEF AnswerValue
<1>2. value \in RandomSuffixes /\ expiresAt \in Int
  BY DEF Tok!consumerToken
<1> HIDE DEF value, expiresAt
<1>3. shown \in Opt(Served)
  BY <1>2 DEF Opt, Served
<1>4. reason \in Reasons /\ status \in Nat \cap Success
  BY DEF Reasons, Success
<1>5. applied' = Append(applied, r)
  BY <1>1 DEF Take
<1>6. issuedUnder' \in [RandomSuffixes -> RandomSuffixes \cup {Absent}]
  BY <1>1, <1>2 DEF RunTypeOK
<1> HIDE DEF status, reason, shown
<1> QED BY <1>1, <1>3, <1>4, <1>5, <1>6, AppliedEffect

\* What the operations of the tokens do, as the proofs below need it.
LEMMA CreateToken ==
    ASSUME TokP!IndInv, NEW name \in Consumers, NEW d \in Durations,
           Tok!CreateConsumerToken(name, d)
    PROVE  /\ TokP!IndInv'
           /\ \/ tokenReply' = 400 /\ UNCHANGED <<now, tokens, consumerTokens, consumerTokenValues, drawn>>
              \/ /\ tokenReply' = 201 /\ now' = now /\ tokens' = tokens
                 /\ \E i, v \in RandomSuffixes \ drawn, rec \in Tok!consumerToken :
                      /\ i # v /\ rec.value = v /\ ~rec.revoked
                      /\ consumerTokens' = [consumerTokens EXCEPT ![i] = rec]
                      /\ consumerTokenValues' = [consumerTokenValues EXCEPT ![v] = i]
                      /\ drawn' = drawn \cup {i, v}
<1>1. TokP!IndInv'
  BY SameTokens, TokenAssumptions, TokP!CreateIndInv
<1>2. CASE Tok!Answer(400)
  BY <1>1, <1>2 DEF Tok!Answer
<1>3. ASSUME NEW i \in RandomSuffixes \ drawn, NEW v \in RandomSuffixes \ drawn, i # v,
             consumerTokens' = [consumerTokens EXCEPT ![i] =
                 [consumer |-> name, expiresAt |-> now + Tok!TtlSeconds(d) * Second,
                  revoked |-> FALSE, value |-> v]],
             consumerTokenValues' = [consumerTokenValues EXCEPT ![v] = i],
             drawn' = drawn \cup {i, v}, tokenReply' = 201, now' = now, tokens' = tokens
      PROVE  /\ tokenReply' = 201 /\ now' = now /\ tokens' = tokens
             /\ \E k, u \in RandomSuffixes \ drawn, rec \in Tok!consumerToken :
                      /\ k # u /\ rec.value = u /\ ~rec.revoked
                      /\ consumerTokens' = [consumerTokens EXCEPT ![k] = rec]
                      /\ consumerTokenValues' = [consumerTokenValues EXCEPT ![u] = k]
                      /\ drawn' = drawn \cup {k, u}
  <2> DEFINE e == now + Tok!TtlSeconds(d) * Second
             rec == [consumer |-> name, expiresAt |-> e, revoked |-> FALSE, value |-> v]
  <2>1. e \in Int
    BY ClockAssumption DEF Tok!TtlSeconds, TokP!IndInv, TokP!TypeOK
  <2> HIDE DEF e
  <2>2. rec \in Tok!consumerToken /\ rec.value = v /\ ~rec.revoked
    BY <2>1 DEF Tok!consumerToken
  <2>3. consumerTokens' = [consumerTokens EXCEPT ![i] = rec]
    BY <1>3 DEF e
  <2> HIDE DEF rec
  <2> QED BY <1>3, <2>2, <2>3
<1> QED BY <1>1, <1>2, <1>3 DEF Tok!CreateConsumerToken

LEMMA RotateToken ==
    ASSUME TokP!IndInv, NEW i \in RandomSuffixes, NEW d \in Durations,
           Tok!RotateConsumerToken(i, d)
    PROVE  /\ TokP!IndInv'
           /\ \/ /\ tokenReply' \in {400, 404}
                 /\ UNCHANGED <<now, tokens, consumerTokens, consumerTokenValues, drawn>>
              \/ /\ tokenReply' = 200 /\ now' = now /\ tokens' = tokens
                 /\ consumerTokens[i] \in Tok!consumerToken
                 /\ \E v \in RandomSuffixes \ drawn, rec \in Tok!consumerToken :
                      /\ rec.value = v /\ ~rec.revoked
                      /\ consumerTokens' = [consumerTokens EXCEPT ![i] = rec]
                      /\ consumerTokenValues' = [consumerTokenValues EXCEPT
                            ![consumerTokens[i].value] = Absent, ![v] = i]
                      /\ drawn' = drawn \cup {v}
<1>1. TokP!IndInv'
  BY SameTokens, TokenAssumptions, TokP!RotateIndInv
<1>2. CASE Tok!Answer(400) \/ Tok!Answer(404)
  BY <1>1, <1>2 DEF Tok!Answer
<1>3. ASSUME Tok!MayRotate(i), NEW v \in RandomSuffixes \ drawn,
             consumerTokens' = [consumerTokens EXCEPT ![i] =
                 [@ EXCEPT !.value = v, !.expiresAt = now + Tok!TtlSeconds(d) * Second]],
             consumerTokenValues' = [consumerTokenValues EXCEPT
                 ![consumerTokens[i].value] = Absent, ![v] = i],
             drawn' = drawn \cup {v}, tokenReply' = 200, now' = now, tokens' = tokens
      PROVE  /\ tokenReply' = 200 /\ now' = now /\ tokens' = tokens
             /\ consumerTokens[i] \in Tok!consumerToken
             /\ \E u \in RandomSuffixes \ drawn, rec \in Tok!consumerToken :
                      /\ rec.value = u /\ ~rec.revoked
                      /\ consumerTokens' = [consumerTokens EXCEPT ![i] = rec]
                      /\ consumerTokenValues' = [consumerTokenValues EXCEPT
                            ![consumerTokens[i].value] = Absent, ![u] = i]
                      /\ drawn' = drawn \cup {u}
  <2> DEFINE e == now + Tok!TtlSeconds(d) * Second
             rec == [consumerTokens[i] EXCEPT !.value = v, !.expiresAt = e]
  <2>1. e \in Int
    BY ClockAssumption DEF Tok!TtlSeconds, TokP!IndInv, TokP!TypeOK
  <2>2. consumerTokens[i] \in Tok!consumerToken /\ ~consumerTokens[i].revoked
    BY <1>3 DEF Tok!MayRotate, TokP!IndInv, TokP!TypeOK, TokP!consumerToken, Tok!consumerToken
  <2> HIDE DEF e
  <2>3. rec \in Tok!consumerToken /\ rec.value = v /\ ~rec.revoked
    BY <2>1, <2>2 DEF Tok!consumerToken
  <2>4. consumerTokens' = [consumerTokens EXCEPT ![i] = rec]
    BY <1>3 DEF e
  <2> HIDE DEF rec
  <2> QED BY <1>3, <2>2, <2>3, <2>4
<1> QED BY <1>1, <1>2, <1>3 DEF Tok!RotateConsumerToken

LEMMA RevokeToken ==
    ASSUME TokP!IndInv, NEW i \in RandomSuffixes, Tok!RevokeConsumerToken(i)
    PROVE  /\ TokP!IndInv' /\ tokenReply' = 204
           /\ UNCHANGED <<now, tokens, consumerTokenValues, drawn>>
           /\ \/ consumerTokens[i] = Absent /\ UNCHANGED consumerTokens
              \/ /\ consumerTokens[i] \in Tok!consumerToken
                 /\ \E rec \in Tok!consumerToken :
                      rec.revoked /\ consumerTokens' = [consumerTokens EXCEPT ![i] = rec]
<1>1. TokP!IndInv'
  BY SameTokens, TokenAssumptions, TokP!RevokeIndInv
<1>2. CASE consumerTokens[i] = Absent /\ Tok!Answer(204)
  BY <1>1, <1>2 DEF Tok!Answer
<1>3. CASE /\ consumerTokens[i] # Absent
           /\ consumerTokens' = [consumerTokens EXCEPT ![i].revoked = TRUE]
           /\ tokenReply' = 204
           /\ UNCHANGED <<now, tokens, consumerTokenValues, drawn>>
  <2> DEFINE rec == [consumerTokens[i] EXCEPT !.revoked = TRUE]
  <2>1. consumerTokens[i] \in Tok!consumerToken
    BY <1>3 DEF TokP!IndInv, TokP!TypeOK, TokP!consumerToken, Tok!consumerToken
  <2>2. rec \in Tok!consumerToken /\ rec.revoked
    BY <2>1 DEF Tok!consumerToken
  <2>3. consumerTokens' = [consumerTokens EXCEPT ![i] = rec]
    BY <1>3
  <2> HIDE DEF rec
  <2> QED BY <1>1, <1>3, <2>1, <2>2, <2>3
<1> QED BY <1>2, <1>3 DEF Tok!RevokeConsumerToken

LEMMA PurgeToken ==
    ASSUME TokP!IndInv, NEW i \in RandomSuffixes, Tok!PurgeConsumerToken(i)
    PROVE  /\ TokP!IndInv'
           /\ UNCHANGED <<now, tokens, drawn>>
           /\ \/ tokenReply' \in {404, 409} /\ UNCHANGED <<consumerTokens, consumerTokenValues>>
              \/ /\ tokenReply' = 204
                 /\ consumerTokens[i] \in Tok!consumerToken
                 /\ consumerTokens' = [consumerTokens EXCEPT ![i] = Absent]
                 /\ consumerTokenValues' =
                       [consumerTokenValues EXCEPT ![consumerTokens[i].value] = Absent]
<1>1. TokP!IndInv'
  BY SameTokens, TokenAssumptions, TokP!PurgeIndInv
<1>2. CASE Tok!Answer(404) \/ Tok!Answer(409)
  BY <1>1, <1>2 DEF Tok!Answer
<1>3. CASE /\ Tok!MayPurge(i)
           /\ consumerTokens' = [consumerTokens EXCEPT ![i] = Absent]
           /\ consumerTokenValues' =
                 [consumerTokenValues EXCEPT ![consumerTokens[i].value] = Absent]
           /\ tokenReply' = 204
           /\ UNCHANGED <<now, tokens, drawn>>
  <2>1. consumerTokens[i] \in Tok!consumerToken
    BY <1>3 DEF Tok!MayPurge, TokP!IndInv, TokP!TypeOK, TokP!consumerToken, Tok!consumerToken
  <2> QED BY <1>1, <1>3, <2>1
<1> QED BY <1>2, <1>3 DEF Tok!PurgeConsumerToken

\* Every handler of tokens answers for what it did.
LEMMA TokenEffect ==
    ASSUME TypeInv, NEW r \in Requests, NEW c \in Commands, TokenHandler(r, c)
    PROVE  /\ TokP!IndInv' /\ Effect(r, c)
           /\ issuedUnder' \in [RandomSuffixes -> RandomSuffixes \cup {Absent}]
           /\ outdated' \in [Requests -> SUBSET RandomSuffixes]
<1>1. RunTypeOK /\ TokP!IndInv
  BY DEF TypeInv
<1>2. /\ issuedUnder \in [RandomSuffixes -> RandomSuffixes \cup {Absent}]
      /\ outdated \in [Requests -> SUBSET RandomSuffixes]
      /\ consumerTokens \in [RandomSuffixes -> Tok!consumerToken \cup {Absent}]
  BY <1>1 DEF RunTypeOK, TokP!IndInv, TokP!TypeOK, TokP!consumerToken, Tok!consumerToken
<1>3. ASSUME NEW id, Outdate(r, id)
      PROVE  outdated' \in [Requests -> SUBSET RandomSuffixes]
  BY <1>2, <1>3 DEF Outdate
<1>4. CASE handleCreateConsumerToken(r, c)
  <2> DEFINE name == c.name
             d == c.ttl
  <2>1. /\ c.op # "get" /\ name \in Consumers /\ d \in Durations
        /\ Tok!CreateConsumerToken(name, d) /\ outdated' = outdated
        /\ \/ tokenReply' # 201 /\ AnswerToken(r)
           \/ /\ tokenReply' = 201
              /\ \E i \in RandomSuffixes : consumerTokens'[i] # Absent /\ AnswerValue(r, i)
    BY <1>4, Asked DEF handleCreateConsumerToken
  <2> HIDE DEF name, d
  <2>2. TokP!IndInv' /\ tokenReply' \in {201, 400}
    BY <1>1, <2>1, CreateToken
  <2>3. CASE tokenReply' # 201 /\ AnswerToken(r)
    <3>1. tokenReply' \in {204, 400, 404, 409}
      BY <2>2, <2>3
    <3>2. Effect(r, c) /\ issuedUnder' = issuedUnder
      BY <1>1, <2>1, <2>3, <3>1, TokenAnswered
    <3> QED BY <1>2, <2>1, <2>2, <3>2
  <2>4. ASSUME NEW i \in RandomSuffixes, tokenReply' = 201, consumerTokens'[i] # Absent,
               AnswerValue(r, i)
        PROVE  /\ Effect(r, c)
               /\ issuedUnder' \in [RandomSuffixes -> RandomSuffixes \cup {Absent}]
    <3>1. consumerTokens'[i] \in Tok!consumerToken
      BY <2>2, <2>4 DEF TokP!IndInv, TokP!TypeOK, TokP!consumerToken, Tok!consumerToken
    <3>2. tokenReply' \in {200, 201}
      BY <2>4
    <3> QED BY <1>1, <2>1, <2>4, <3>1, <3>2, ValueAnswered
  <2> QED BY <1>2, <2>1, <2>2, <2>3, <2>4
<1>5. CASE handleRotateConsumerToken(r, c)
  <2> DEFINE id == c.id
             d == c.ttl
  <2>1. /\ c.op # "get" /\ id \in RandomSuffixes /\ d \in Durations
        /\ Tok!RotateConsumerToken(id, d) /\ Outdate(r, id)
        /\ \/ tokenReply' # 200 /\ AnswerToken(r)
           \/ tokenReply' = 200 /\ AnswerValue(r, id)
    BY <1>5, Asked DEF handleRotateConsumerToken
  <2> HIDE DEF id, d
  <2>2. TokP!IndInv' /\ tokenReply' \in {200, 400, 404}
    BY <1>1, <2>1, RotateToken
  <2>3. outdated' \in [Requests -> SUBSET RandomSuffixes]
    BY <1>3, <2>1
  <2>4. CASE tokenReply' # 200 /\ AnswerToken(r)
    <3>1. tokenReply' \in {204, 400, 404, 409}
      BY <2>2, <2>4
    <3>2. Effect(r, c) /\ issuedUnder' = issuedUnder
      BY <1>1, <2>1, <2>4, <3>1, TokenAnswered
    <3> QED BY <1>2, <2>2, <2>3, <3>2
  <2>5. CASE tokenReply' = 200 /\ AnswerValue(r, id)
    <3>1. PICK rec \in Tok!consumerToken : consumerTokens' = [consumerTokens EXCEPT ![id] = rec]
      BY <1>1, <2>1, <2>5, RotateToken
    <3>2. consumerTokens'[id] \in Tok!consumerToken
      BY <1>2, <2>1, <3>1
    <3>3. tokenReply' \in {200, 201}
      BY <2>5
    <3>4. /\ Effect(r, c)
          /\ issuedUnder' \in [RandomSuffixes -> RandomSuffixes \cup {Absent}]
      BY <1>1, <2>1, <2>5, <3>2, <3>3, ValueAnswered
    <3> QED BY <2>2, <2>3, <3>4
  <2> QED BY <2>1, <2>4, <2>5
<1>6. CASE handleRevokeConsumerToken(r, c)
  <2> DEFINE id == c.id
  <2>1. /\ c.op # "get" /\ id \in RandomSuffixes
        /\ Tok!RevokeConsumerToken(id) /\ AnswerToken(r) /\ Outdate(r, id)
    BY <1>6, Asked DEF handleRevokeConsumerToken
  <2> HIDE DEF id
  <2>2. TokP!IndInv' /\ tokenReply' \in {204, 400, 404, 409}
    BY <1>1, <2>1, RevokeToken
  <2>3. outdated' \in [Requests -> SUBSET RandomSuffixes]
    BY <1>3, <2>1
  <2>4. Effect(r, c) /\ issuedUnder' = issuedUnder
    BY <1>1, <2>1, <2>2, TokenAnswered
  <2> QED BY <1>2, <2>2, <2>3, <2>4
<1>7. CASE handlePurgeConsumerToken(r, c)
  <2> DEFINE id == c.id
  <2>1. /\ c.op # "get" /\ id \in RandomSuffixes
        /\ Tok!PurgeConsumerToken(id) /\ AnswerToken(r) /\ Outdate(r, id)
    BY <1>7, Asked DEF handlePurgeConsumerToken
  <2> HIDE DEF id
  <2>2. TokP!IndInv' /\ tokenReply' \in {204, 400, 404, 409}
    BY <1>1, <2>1, PurgeToken
  <2>3. outdated' \in [Requests -> SUBSET RandomSuffixes]
    BY <1>3, <2>1
  <2>4. Effect(r, c) /\ issuedUnder' = issuedUnder
    BY <1>1, <2>1, <2>2, TokenAnswered
  <2> QED BY <1>2, <2>2, <2>3, <2>4
<1> QED BY <1>4, <1>5, <1>6, <1>7 DEF TokenHandler

\* Nothing else changes the store's or the tokens' invariant.
LEMMA StoreUnchanged == IndInv /\ UNCHANGED vars => IndInv'
BY NextIndInv

LEMMA TokensUnchanged == TokP!IndInv /\ UNCHANGED tokenVars => TokP!IndInv'
BY TokenStep

\* Every handler keeps both invariants and answers for what it did.
LEMMA HandleEffect ==
    ASSUME TypeInv, NEW r \in Requests, Handle(r), cmd[r] \in Commands
    PROVE  /\ IndInv' /\ TokP!IndInv' /\ Effect(r, cmd[r])
           /\ issuedUnder' \in [RandomSuffixes -> RandomSuffixes \cup {Absent}]
           /\ outdated' \in [Requests -> SUBSET RandomSuffixes]
<1> DEFINE c == cmd[r]
<1>1. IndInv /\ TokP!IndInv /\ RunTypeOK
  BY DEF TypeInv
<1>2. c \in Commands /\ (StoreHandler(r, c) \/ TokenHandler(r, c))
  BY DEF Handle
<1> HIDE DEF c
<1>3. CASE StoreHandler(r, c)
  <2>1. UNCHANGED <<tokenVars, issuedUnder, outdated>>
    BY <1>3 DEF StoreHandler
  <2>2. TokP!IndInv'
    BY <1>1, <2>1, TokensUnchanged
  <2>3. IndInv' /\ Effect(r, c)
    BY <1>2, <1>3, AddEffect, ConsumerEffect, GetEffect, ObjectEffect DEF StoreHandler
  <2>4. /\ issuedUnder' \in [RandomSuffixes -> RandomSuffixes \cup {Absent}]
        /\ outdated' \in [Requests -> SUBSET RandomSuffixes]
    BY <1>1, <2>1 DEF RunTypeOK
  <2> QED BY <2>2, <2>3, <2>4 DEF c
<1>4. CASE TokenHandler(r, c)
  <2>1. IndInv'
    BY <1>1, <1>4, StoreUnchanged DEF TokenHandler
  <2> QED BY <1>2, <1>4, <2>1, TokenEffect DEF c
<1> QED BY <1>2, <1>3, <1>4

-----------------------------------------------------------------------------
(* A command, its answer and what took effect.                             *)

\* One command: what it asked, how far the server is with it, the answer,
\* the outcome, whether it took effect, whether its credential was good at
\* some time, and in whose scope it reads.
CommandOK(op, st, a, out, took, live, whose) ==
    /\ st \in {"unsent", "sent", "dropped", "judged"} => ~took
    /\ st = "added" => took /\ op = "consumer add"
    /\ st = "answered" => /\ a.status \in Success /\ op # "get" => took
                          /\ a.status \notin Success => ~took
    /\ st # "answered" => a = NoAnswer
    /\ out \in {"none", "usage"} => st = "unsent"
    /\ out = "done" => st = "answered" /\ a.status \in Success
    /\ out \in Refusals => st = "answered" /\ a.status \notin Success
    /\ st \in {"judged", "added"} \/ took \/ a.status = 200 => live
    /\ a.status = 200 /\ op = "get" /\ whose # Nil => whose \in a.shown.usedBy

CommandsOK ==
    \A q \in Requests : CommandOK(cmd[q].op, stage[q], answer[q], outcome[q],
                                  Applied(q), wasLive[q], consumer[q])

AppliedOnce == \A i, j \in DOMAIN applied : applied[i] = applied[j] => i = j

\* A command that has started asks something.
StartedKnown == \A q \in Requests : outcome[q] # "none" => cmd[q] \in Commands

RunInv == TypeInv /\ CommandsOK /\ AppliedOnce /\ StartedKnown

\* Appending a request that is not in the list yet.
LEMMA AppliedGrows ==
    ASSUME applied \in Seq(Requests), NEW r \in Requests, applied' = Append(applied, r)
    PROVE  /\ \A q : Applied(q)' <=> Applied(q) \/ q = r
           /\ AppliedOnce /\ ~Applied(r) => AppliedOnce'
           /\ \A p, q : AppliedAfter(p, q) => AppliedAfter(p, q)'
           /\ \A p : Applied(p) => AppliedAfter(p, r)'
<1> DEFINE n == Len(applied)
<1>1. /\ n \in Nat /\ DOMAIN applied = 1..n
      /\ DOMAIN applied' = 1..(n + 1)
      /\ \A i \in 1..n : applied'[i] = applied[i]
      /\ applied'[n + 1] = r
  OBVIOUS
<1> HIDE DEF n
<1>2. \A q : Applied(q)' <=> Applied(q) \/ q = r
  <2> TAKE q
  <2>1. ASSUME Applied(q) PROVE Applied(q)'
    BY <1>1, <2>1 DEF Applied
  <2>2. ASSUME q = r PROVE Applied(q)'
    <3>1. n + 1 \in DOMAIN applied' /\ applied'[n + 1] = q
      BY <1>1, <2>2
    <3> QED BY <3>1 DEF Applied
  <2>3. ASSUME Applied(q)', q # r PROVE Applied(q)
    BY <1>1, <2>3 DEF Applied
  <2> QED BY <2>1, <2>2, <2>3
<1>3. AppliedOnce /\ ~Applied(r) => AppliedOnce'
  BY <1>1 DEF AppliedOnce, Applied
<1>4. \A p, q : AppliedAfter(p, q) => AppliedAfter(p, q)'
  BY <1>1 DEF AppliedAfter
<1>5. \A p : Applied(p) => AppliedAfter(p, r)'
  BY <1>1 DEF AppliedAfter, Applied
<1> QED BY <1>2, <1>3, <1>4, <1>5

\* The process says done for a success and a refusal for anything else.
LEMMA SettledKinds ==
    \A c, a : /\ a.status \in Success => Settled(c, a) = "done"
              /\ a.status \notin Success => Settled(c, a) \in Refusals
<1> TAKE c, a
<1>1. ASSUME a.status \in Success PROVE Settled(c, a) = "done"
  BY <1>1 DEF Success, Settled
<1>2. mapError(a) \in Refusals
  BY DEF mapError, Refusals
<1>3. mapConsumerTokenIDError(a) \in Refusals
  BY <1>2 DEF mapConsumerTokenIDError, Refusals
<1>4. ASSUME a.status \notin Success PROVE Settled(c, a) \in Refusals
  BY <1>2, <1>3, <1>4 DEF Success, Settled
<1> QED BY <1>1, <1>4

\* A command that nothing happened to.
LEMMA LiveGrows ==
    ASSUME NEW op, NEW st, NEW a, NEW out, NEW took, NEW took2, NEW live, NEW live2, NEW whose,
           CommandOK(op, st, a, out, took, live, whose), took <=> took2, live => live2
    PROVE  CommandOK(op, st, a, out, took2, live2, whose)
BY DEF CommandOK

\* A command the server has not answered, nor judged.
LEMMA UnansweredOK ==
    ASSUME NEW op, NEW st \in {"unsent", "sent", "dropped"}, NEW out, NEW took, NEW live, NEW whose,
           ~took, out \notin Refusals \cup {"done"}, out \in {"none", "usage"} => st = "unsent"
    PROVE  CommandOK(op, st, NoAnswer, out, took, live, whose)
<1>1. NoAnswer.status # 200
  BY DEF NoAnswer
<1> QED BY <1>1 DEF CommandOK

\* Every step remembers that a credential was good.
LEMMA WasLiveStep ==
    ASSUME RunNext
    PROVE  /\ wasLive' \in [Requests -> BOOLEAN]
           /\ \A q \in Requests : wasLive[q] \/ Watched(q)' => wasLive'[q]
<1>1. wasLive' = [q \in Requests |-> wasLive[q] \/ Watched(q)']
  BY DEF RunNext
<1> QED BY <1>1

\* The same for one command, without what makes it good.
LEMMA StaysLive == RunNext => \A q \in Requests : wasLive[q] => wasLive'[q]
BY WasLiveStep, Zenon

\* The other commands are left as they are by a step of one.
LEMMA OthersOK ==
    ASSUME RunInv, RunNext, NEW r,
           \A q \in Requests \ {r} :
              /\ cmd'[q] = cmd[q] /\ stage'[q] = stage[q] /\ answer'[q] = answer[q]
              /\ outcome'[q] = outcome[q] /\ consumer'[q] = consumer[q]
              /\ Applied(q)' <=> Applied(q)
    PROVE  \A q \in Requests \ {r} :
              CommandOK(cmd[q].op, stage[q], answer[q], outcome[q], Applied(q), wasLive[q],
                        consumer[q])'
<1> TAKE q \in Requests \ {r}
<1>1. CommandOK(cmd[q].op, stage[q], answer[q], outcome[q], Applied(q), wasLive[q], consumer[q])
  BY DEF RunInv, CommandsOK
<1>2. wasLive[q] => wasLive'[q]
  BY StaysLive
<1>3. Applied(q) <=> Applied(q)'
  OBVIOUS
<1>4. CommandOK(cmd[q].op, stage[q], answer[q], outcome[q], Applied(q)', wasLive'[q], consumer[q])
  <2> DEFINE op == cmd[q].op
             st == stage[q]
             a == answer[q]
             out == outcome[q]
             took == Applied(q)
             took2 == Applied(q)'
             live == wasLive[q]
             live2 == wasLive'[q]
             whose == consumer[q]
  <2>1. CommandOK(op, st, a, out, took, live, whose) /\ (took <=> took2) /\ (live => live2)
    BY <1>1, <1>2, <1>3
  <2> HIDE DEF op, st, a, out, took, took2, live, live2, whose
  <2>2. CommandOK(op, st, a, out, took2, live2, whose)
    BY <2>1, LiveGrows
  <2> QED BY <2>2 DEF op, st, a, out, took2, live2, whose
<1>5. /\ cmd'[q] = cmd[q] /\ stage'[q] = stage[q] /\ answer'[q] = answer[q]
      /\ outcome'[q] = outcome[q] /\ consumer'[q] = consumer[q]
  OBVIOUS
<1> QED BY <1>4, <1>5, Zenon

\* A server with any history, before the first command.
LEMMA StartRunInv == IndInv /\ TokP!IndInv /\ NothingRun => RunInv
<1> SUFFICES ASSUME IndInv, TokP!IndInv, NothingRun PROVE RunInv
  OBVIOUS
<1>1. TypeInv
  BY StartTypes DEF TypeInv
<1>2. applied = << >> /\ \A q : ~Applied(q)
  BY DEF NothingRun, Applied
<1>3. AppliedOnce
  BY <1>2 DEF AppliedOnce
<1>4. ASSUME NEW q \in Requests
      PROVE  /\ stage[q] = "unsent" /\ answer[q] = NoAnswer /\ outcome[q] = "none"
             /\ consumer[q] = Nil
  BY DEF NothingRun
<1>5. CommandsOK
  <2> SUFFICES ASSUME NEW q \in Requests
               PROVE  CommandOK(cmd[q].op, stage[q], answer[q], outcome[q],
                                Applied(q), wasLive[q], consumer[q])
    BY DEF CommandsOK
  <2>1. "none" \notin Refusals \cup {"done"}
    BY DEF Refusals
  <2> QED BY <1>2, <1>4, <2>1, UnansweredOK
<1>6. StartedKnown
  BY <1>4 DEF StartedKnown
<1> QED BY <1>1, <1>3, <1>5, <1>6 DEF RunInv

\* The state the server starts in.
LEMMA InitRunInv == RunInit => RunInv
BY RunInitStore, RunInitTokens, StartRunInv DEF RunInit

\* A command starts.
LEMMA BeginInv ==
    ASSUME RunInv, RunNext, NEW r \in Requests, Begin(r)
    PROVE  RunInv'
<1>1. IndInv /\ TokP!IndInv /\ RunTypeOK /\ CommandsOK /\ AppliedOnce /\ StartedKnown
  BY DEF RunInv, TypeInv
<1>2. PICK c \in Ask, token \in Opt(RandomSuffixes), consumerToken \in Opt(RandomSuffixes) :
         /\ <<token, consumerToken>> \in Configured
         /\ cmd' = [cmd EXCEPT ![r] = c]
         /\ doneBefore' = [doneBefore EXCEPT ![r] = {q \in Requests : outcome[q] = "done"}]
         /\ \/ /\ UsageError(c, token)
               /\ outcome' = [outcome EXCEPT ![r] = "usage"]
               /\ UNCHANGED <<stage, credential>>
            \/ /\ ~UsageError(c, token)
               /\ outcome' = [outcome EXCEPT ![r] = "running"]
               /\ stage' = [stage EXCEPT ![r] = "sent"]
               /\ credential' = [credential EXCEPT ![r] = Bearer(c, token, consumerToken)]
  BY Zenon DEF Begin
<1>3. /\ UNCHANGED <<vars, tokenVars, consumer, answer, applied, issuedUnder, outdated>>
      /\ outcome[r] = "none"
  BY DEF Begin
<1>4. IndInv' /\ TokP!IndInv'
  BY <1>1, <1>3, StoreUnchanged, TokensUnchanged
<1>5. c \in Commands
  BY AskAssumption
<1>6. Bearer(c, token, consumerToken) \in Opt(RandomSuffixes)
  BY DEF Bearer, Given
<1>7. RunTypeOK'
  <2>1. cmd' \in [Requests -> Opt(Commands)]
    BY <1>1, <1>2, <1>5 DEF RunTypeOK, Opt
  <2>2. credential' \in [Requests -> Opt(RandomSuffixes)]
    <3> DEFINE bearer == Bearer(c, token, consumerToken)
    <3>1. credential' = credential \/ credential' = [credential EXCEPT ![r] = bearer]
      BY <1>2
    <3>2. credential \in [Requests -> Opt(RandomSuffixes)]
      BY <1>1 DEF RunTypeOK
    <3>3. bearer \in Opt(RandomSuffixes)
      BY <1>6
    <3> HIDE DEF bearer
    <3> QED BY <3>1, <3>2, <3>3
  <2>3. /\ stage' \in [Requests -> {"unsent", "sent", "dropped", "judged", "added", "answered"}]
        /\ outcome' \in [Requests -> Outcomes]
        /\ doneBefore' \in [Requests -> SUBSET Requests]
    BY <1>1, <1>2 DEF RunTypeOK, Outcomes
  <2>4. wasLive' \in [Requests -> BOOLEAN]
    BY WasLiveStep
  <2> QED BY <1>1, <1>3, <2>1, <2>2, <2>3, <2>4 DEF RunTypeOK
<1>8. Applied(r)' <=> Applied(r)
  BY <1>3 DEF Applied
<1>9. CommandsOK'
  <2>1. \A q \in Requests \ {r} :
              CommandOK(cmd[q].op, stage[q], answer[q], outcome[q], Applied(q), wasLive[q],
                        consumer[q])'
    <3>1. \A q \in Requests \ {r} :
              /\ cmd'[q] = cmd[q] /\ stage'[q] = stage[q] /\ answer'[q] = answer[q]
              /\ outcome'[q] = outcome[q] /\ consumer'[q] = consumer[q]
      BY <1>1, <1>2, <1>3 DEF RunTypeOK
    <3>2. \A q \in Requests \ {r} : Applied(q)' <=> Applied(q)
      BY <1>3 DEF Applied
    <3> QED BY <3>1, <3>2, OthersOK
  <2>2. CommandOK(cmd[r].op, stage[r], answer[r], outcome[r], Applied(r), wasLive[r], consumer[r])
    BY <1>1 DEF CommandsOK
  <2>3. /\ answer'[r] = NoAnswer /\ ~Applied(r)' /\ stage'[r] \in {"unsent", "sent"}
        /\ outcome'[r] \in {"usage", "running"}
        /\ outcome'[r] = "usage" => stage'[r] = "unsent"
    BY <1>1, <1>2, <1>3, <1>8, <2>2 DEF RunTypeOK, CommandOK
  <2>4. CommandOK(cmd[r].op, stage[r], answer[r], outcome[r], Applied(r), wasLive[r], consumer[r])'
    <3>1. outcome'[r] \notin Refusals \cup {"done"}
      BY <2>3 DEF Refusals
    <3>2. outcome'[r] \in {"none", "usage"} => stage'[r] = "unsent"
      BY <2>3
    <3> QED BY <2>3, <3>1, <3>2, UnansweredOK
  <2> QED BY <2>1, <2>4 DEF CommandsOK
<1>10. AppliedOnce'
  BY <1>1, <1>3 DEF AppliedOnce
<1>11. StartedKnown'
  BY <1>1, <1>2, <1>5 DEF StartedKnown, RunTypeOK
<1> QED BY <1>4, <1>7, <1>9, <1>10, <1>11 DEF RunInv, TypeInv

\* A step of one command.
LEMMA OneMoves ==
    ASSUME RunInv, RunNext, NEW r \in Requests,
           IndInv', TokP!IndInv', RunTypeOK', AppliedOnce', UNCHANGED cmd,
           \A q \in Requests \ {r} :
              /\ stage'[q] = stage[q] /\ answer'[q] = answer[q]
              /\ outcome'[q] = outcome[q] /\ consumer'[q] = consumer[q]
              /\ Applied(q)' <=> Applied(q),
           outcome[r] # "none" \/ outcome'[r] = outcome[r],
           CommandOK(cmd[r].op, stage[r], answer[r], outcome[r], Applied(r), wasLive[r],
                     consumer[r])'
    PROVE  RunInv'
<1>1. \A q \in Requests \ {r} :
         CommandOK(cmd[q].op, stage[q], answer[q], outcome[q], Applied(q), wasLive[q],
                   consumer[q])'
  BY OthersOK
<1>2. CommandsOK'
  BY <1>1 DEF CommandsOK
<1>3. StartedKnown'
  BY DEF RunInv, StartedKnown
<1> QED BY <1>2, <1>3 DEF RunInv, TypeInv

\* The process ends, with an answer or without one.
LEMMA LeaveInv ==
    ASSUME RunInv, RunNext, NEW r \in Requests, Receive(r) \/ LoseAnswer(r) \/ Interrupt(r)
    PROVE  RunInv'
<1>1. /\ IndInv /\ TokP!IndInv /\ RunTypeOK /\ AppliedOnce
      /\ CommandOK(cmd[r].op, stage[r], answer[r], outcome[r], Applied(r), wasLive[r], consumer[r])
  BY DEF RunInv, TypeInv, CommandsOK
<1>2. \E o : /\ Leave(r, o)
             /\ \/ stage[r] = "answered" /\ o = Settled(cmd[r], answer[r])
                \/ o \in {"no answer", "interrupted"}
  BY DEF Receive, LoseAnswer, Interrupt
<1>3. PICK o : /\ outcome[r] = "running" /\ outcome' = [outcome EXCEPT ![r] = o]
               /\ \/ stage[r] = "answered" /\ o = Settled(cmd[r], answer[r])
                  \/ o \in {"no answer", "interrupted"}
  BY <1>2 DEF Leave
<1>4. UNCHANGED <<vars, tokenVars, cmd, credential, stage, consumer, answer,
                  applied, doneBefore, issuedUnder, outdated>>
  BY <1>2 DEF Leave
<1>5. IndInv' /\ TokP!IndInv'
  BY <1>1, <1>4, StoreUnchanged, TokensUnchanged
<1>6. /\ o \in Outcomes \ {"none", "usage"}
      /\ o = "done" => stage[r] = "answered" /\ answer[r].status \in Success
      /\ o \in Refusals => stage[r] = "answered" /\ answer[r].status \notin Success
  <2>1. "done" \notin Refusals /\ Refusals \cap {"none", "usage", "no answer", "interrupted"} = {}
    BY DEF Refusals
  <2>2. CASE o \in {"no answer", "interrupted"}
    BY <2>1, <2>2 DEF Outcomes
  <2>3. CASE stage[r] = "answered" /\ o = Settled(cmd[r], answer[r])
    <3>1. CASE answer[r].status \in Success
      BY <2>1, <2>3, <3>1, SettledKinds DEF Outcomes
    <3>2. CASE answer[r].status \notin Success
      BY <2>1, <2>3, <3>2, SettledKinds DEF Outcomes
    <3> QED BY <3>1, <3>2
  <2> QED BY <1>3, <2>2, <2>3
<1>7. RunTypeOK'
  <2>1. outcome' \in [Requests -> Outcomes]
    BY <1>1, <1>3, <1>6 DEF RunTypeOK
  <2>2. wasLive' \in [Requests -> BOOLEAN]
    BY WasLiveStep
  <2> QED BY <1>1, <1>4, <2>1, <2>2 DEF RunTypeOK
<1>8. AppliedOnce' /\ \A q : Applied(q)' <=> Applied(q)
  BY <1>1, <1>4 DEF AppliedOnce, Applied
<1>9. outcome'[r] = o /\ \A q \in Requests \ {r} : outcome'[q] = outcome[q]
  BY <1>1, <1>3 DEF RunTypeOK
<1>10. CommandOK(cmd[r].op, stage[r], answer[r], outcome[r], Applied(r), wasLive[r], consumer[r])'
  <2>1. wasLive[r] => wasLive'[r]
    BY WasLiveStep
  <2>2. CommandOK(cmd[r].op, stage[r], answer[r], o, Applied(r)', wasLive'[r], consumer[r])
    BY <1>1, <1>6, <1>8, <2>1 DEF CommandOK
  <2> QED BY <1>4, <1>9, <2>2
<1> QED BY <1>3, <1>4, <1>5, <1>7, <1>8, <1>9, <1>10, OneMoves

\* A request is lost on its way.
LEMMA DropInv ==
    ASSUME RunInv, RunNext, NEW r \in Requests, Drop(r)
    PROVE  RunInv'
<1>1. /\ IndInv /\ TokP!IndInv /\ RunTypeOK /\ AppliedOnce
      /\ CommandOK(cmd[r].op, stage[r], answer[r], outcome[r], Applied(r), wasLive[r], consumer[r])
  BY DEF RunInv, TypeInv, CommandsOK
<1>2. /\ stage[r] = "sent" /\ stage' = [stage EXCEPT ![r] = "dropped"]
      /\ UNCHANGED <<vars, tokenVars, cmd, credential, consumer, answer, outcome,
                     applied, doneBefore, issuedUnder, outdated>>
  BY DEF Drop
<1>3. IndInv' /\ TokP!IndInv'
  BY <1>1, <1>2, StoreUnchanged, TokensUnchanged
<1>4. RunTypeOK'
  <2>1. stage' \in [Requests -> {"unsent", "sent", "dropped", "judged", "added", "answered"}]
    BY <1>1, <1>2 DEF RunTypeOK
  <2>2. wasLive' \in [Requests -> BOOLEAN]
    BY WasLiveStep
  <2> QED BY <1>1, <1>2, <2>1, <2>2 DEF RunTypeOK
<1>5. AppliedOnce' /\ \A q : Applied(q)' <=> Applied(q)
  BY <1>1, <1>2 DEF AppliedOnce, Applied
<1>6. stage'[r] = "dropped" /\ \A q \in Requests \ {r} : stage'[q] = stage[q]
  BY <1>1, <1>2 DEF RunTypeOK
<1>7. CommandOK(cmd[r].op, stage[r], answer[r], outcome[r], Applied(r), wasLive[r], consumer[r])'
  <2>1. /\ answer'[r] = NoAnswer /\ ~Applied(r)'
        /\ outcome'[r] \notin Refusals \cup {"done", "none", "usage"}
    BY <1>1, <1>2, <1>5 DEF CommandOK
  <2> QED BY <1>6, <2>1, UnansweredOK
<1> QED BY <1>2, <1>3, <1>4, <1>5, <1>6, <1>7, OneMoves

\* The handler judges the credential.
LEMMA JudgeInv ==
    ASSUME RunInv, RunNext, NEW r \in Requests, Judge(r)
    PROVE  RunInv'
<1>1. /\ IndInv /\ TokP!IndInv /\ RunTypeOK /\ AppliedOnce /\ StartedKnown
      /\ CommandOK(cmd[r].op, stage[r], answer[r], outcome[r], Applied(r), wasLive[r], consumer[r])
  BY DEF RunInv, TypeInv, CommandsOK
<1>2. /\ stage[r] = "sent"
      /\ UNCHANGED <<vars, tokenVars, cmd, credential, outcome, applied, doneBefore,
                     issuedUnder, outdated>>
  BY DEF Judge
<1>3. IndInv' /\ TokP!IndInv'
  BY <1>1, <1>2, StoreUnchanged, TokensUnchanged
<1>4. AppliedOnce' /\ \A q : Applied(q)' <=> Applied(q)
  BY <1>1, <1>2 DEF AppliedOnce, Applied
<1>5. /\ answer[r] = NoAnswer /\ ~Applied(r)'
      /\ outcome[r] \notin Refusals \cup {"done", "none", "usage"}
  BY <1>1, <1>2, <1>4 DEF CommandOK
<1>6. wasLive' \in [Requests -> BOOLEAN]
  BY WasLiveStep
<1>7. CASE Answer(r, 401, "", Nil) /\ UNCHANGED consumer
  <2> DEFINE status == 401
             reason == ""
             a == [status |-> status, reason |-> reason, shown |-> Nil]
  <2>1. status \in Nat /\ status \notin Success /\ status # 200 /\ reason \in Reasons /\ Nil \in Opt(Served)
    BY DEF Success, Reasons, Opt
  <2>2. Answer(r, status, reason, Nil)
    BY <1>7
  <2>3. stage' = [stage EXCEPT ![r] = "answered"] /\ answer' = [answer EXCEPT ![r] = a]
    BY <2>2 DEF Answer
  <2> HIDE DEF status, reason
  <2>4. a.status = status
    OBVIOUS
  <2>5. stage' \in [Requests -> Stages] /\ answer' \in [Requests -> Answers]
    BY <1>1, <2>1, <2>2, AnswerType
  <2> HIDE DEF a
  <2>6. RunTypeOK'
    BY <1>1, <1>2, <1>6, <1>7, <2>5 DEF RunTypeOK, Stages, Answers
  <2>7. /\ stage'[r] = "answered" /\ answer'[r] = a
        /\ \A q \in Requests \ {r} : stage'[q] = stage[q] /\ answer'[q] = answer[q]
    BY <1>1, <2>3 DEF RunTypeOK
  <2>8. CommandOK(cmd[r].op, stage[r], answer[r], outcome[r], Applied(r), wasLive[r], consumer[r])'
    BY <1>2, <1>5, <2>1, <2>4, <2>7 DEF CommandOK
  <2> QED BY <1>2, <1>3, <1>4, <1>7, <2>6, <2>7, <2>8, OneMoves
<1>8. CASE /\ Live(r)
           /\ stage' = [stage EXCEPT ![r] = "judged"]
           /\ consumer' = [consumer EXCEPT ![r] =
                 IF Tok!validateToken(credential[r]) THEN Nil
                 ELSE consumerTokens[consumerTokenValues[credential[r]]].consumer]
           /\ UNCHANGED answer
  <2> DEFINE whose == IF Tok!validateToken(credential[r]) THEN Nil
                      ELSE consumerTokens[consumerTokenValues[credential[r]]].consumer
  <2>1. whose \in Opt(Consumers)
    <3>1. CASE Tok!validateToken(credential[r])
      BY <3>1 DEF Opt
    <3>2. CASE ~Tok!validateToken(credential[r])
      <4>1. Tok!consumerForToken(credential[r]) /\ credential[r] \in RandomSuffixes
        BY <1>1, <1>8, <3>2 DEF Live, RunTypeOK, Opt
      <4>2. consumerTokenValues[credential[r]] \in RandomSuffixes
        BY <1>1, <4>1 DEF Tok!consumerForToken, TokP!IndInv, TokP!TypeOK
      <4>3. consumerTokens[consumerTokenValues[credential[r]]] \in TokP!consumerToken
        BY <1>1, <4>1, <4>2 DEF Tok!consumerForToken, TokP!IndInv, TokP!TypeOK,
             TokP!LookupMatchesRecords
      <4> QED BY <3>2, <4>3 DEF TokP!consumerToken, Opt
    <3> QED BY <3>1, <3>2
  <2>2. stage' = [stage EXCEPT ![r] = "judged"] /\ consumer' = [consumer EXCEPT ![r] = whose]
    BY <1>8
  <2> HIDE DEF whose
  <2>3. /\ stage' \in [Requests -> {"unsent", "sent", "dropped", "judged", "added", "answered"}]
        /\ consumer' \in [Requests -> Opt(Consumers)]
    BY <1>1, <2>1, <2>2 DEF RunTypeOK
  <2>4. RunTypeOK'
    BY <1>1, <1>2, <1>6, <1>8, <2>3 DEF RunTypeOK
  <2>5. /\ stage'[r] = "judged"
        /\ \A q \in Requests \ {r} : stage'[q] = stage[q] /\ consumer'[q] = consumer[q]
    BY <1>1, <2>2 DEF RunTypeOK
  <2>6. Live(r)'
    BY <1>2, <1>8 DEF Live, tokenVars, Tok!validateToken, Tok!consumerForToken
  <2>7. wasLive'[r]
    BY <2>5, <2>6, WasLiveStep DEF Watched
  <2>8. NoAnswer.status # 200
    BY DEF NoAnswer
  <2>9. CommandOK(cmd[r].op, stage[r], answer[r], outcome[r], Applied(r), wasLive[r], consumer[r])'
    BY <1>2, <1>5, <1>8, <2>5, <2>7, <2>8 DEF CommandOK
  <2> QED BY <1>2, <1>3, <1>4, <1>8, <2>4, <2>5, <2>9, OneMoves
<1> QED BY <1>7, <1>8 DEF Judge

\* The handler does its work.
LEMMA HandleInv ==
    ASSUME RunInv, RunNext, NEW r \in Requests, Handle(r)
    PROVE  RunInv'
<1>1. /\ IndInv /\ TokP!IndInv /\ RunTypeOK /\ AppliedOnce /\ StartedKnown /\ TypeInv
      /\ CommandOK(cmd[r].op, stage[r], answer[r], outcome[r], Applied(r), wasLive[r], consumer[r])
  BY DEF RunInv, TypeInv, CommandsOK
<1>2. stage[r] = "judged" /\ UNCHANGED <<cmd, credential, consumer, outcome, doneBefore>>
  BY DEF Handle
<1>3. /\ ~Applied(r) /\ wasLive[r] /\ answer[r] = NoAnswer
      /\ outcome[r] \notin Refusals \cup {"done", "none", "usage"}
  BY <1>1, <1>2 DEF CommandOK
<1>4. cmd[r] \in Commands
  BY <1>1, <1>3 DEF StartedKnown
<1>5. /\ IndInv' /\ TokP!IndInv' /\ Effect(r, cmd[r])
      /\ issuedUnder' \in [RandomSuffixes -> RandomSuffixes \cup {Absent}]
      /\ outdated' \in [Requests -> SUBSET RandomSuffixes]
  BY <1>1, <1>4, HandleEffect
<1>6. wasLive' \in [Requests -> BOOLEAN] /\ wasLive'[r]
  BY <1>3, WasLiveStep
<1>7. ASSUME NEW st \in {"added", "answered"}, NEW a \in Answers \cup {NoAnswer},
             stage' = [stage EXCEPT ![r] = st], answer' = [answer EXCEPT ![r] = a],
             applied' = applied \/ applied' = Append(applied, r),
             CommandOK(cmd[r].op, st, a, outcome[r], Applied(r)', wasLive'[r], consumer[r])
      PROVE  RunInv'
  <2>1. NoAnswer \in Answers
    BY DEF NoAnswer, Answers, Reasons, Opt
  <2>2. stage' \in [Requests -> Stages]
    BY <1>1, <1>7 DEF RunTypeOK, Stages
  <2>3. answer' \in [Requests -> Answers]
    <3>1. answer \in [Requests -> Answers]
      BY <1>1 DEF RunTypeOK, Answers
    <3>2. a \in Answers
      BY <2>1
    <3> QED BY <1>7, <3>1, <3>2
  <2>4. applied' \in Seq(Requests)
    <3>1. applied \in Seq(Requests)
      BY <1>1 DEF RunTypeOK
    <3>2. Append(applied, r) \in Seq(Requests)
      BY <3>1
    <3> QED BY <1>7, <3>1, <3>2
  <2>5. RunTypeOK'
    BY <1>1, <1>2, <1>5, <1>6, <2>2, <2>3, <2>4 DEF RunTypeOK, Stages, Answers
  <2>6. applied \in Seq(Requests)
    BY <1>1 DEF RunTypeOK
  <2>7. AppliedOnce'
    BY <1>1, <1>3, <1>7, <2>6, AppliedGrows DEF AppliedOnce
  <2>8. \A q \in Requests \ {r} : Applied(q)' <=> Applied(q)
    <3>1. CASE applied' = applied
      BY <3>1 DEF Applied
    <3>2. CASE applied' = Append(applied, r)
      BY <2>6, <3>2, AppliedGrows
    <3> QED BY <1>7, <3>1, <3>2
  <2>9. /\ stage'[r] = st /\ answer'[r] = a
        /\ \A q \in Requests \ {r} : stage'[q] = stage[q] /\ answer'[q] = answer[q]
    BY <1>1, <1>7 DEF RunTypeOK
  <2>10. CommandOK(cmd[r].op, stage[r], answer[r], outcome[r], Applied(r), wasLive[r], consumer[r])'
    BY <1>2, <1>7, <2>9
  <2> QED BY <1>2, <1>5, <2>5, <2>7, <2>8, <2>9, <2>10, OneMoves
<1> DEFINE c == cmd[r]
<1>8. applied \in Seq(Requests) /\ answer \in [Requests -> Answers]
  BY <1>1 DEF RunTypeOK, Answers
<1>9. applied' = applied => ~Applied(r)'
  BY <1>3 DEF Applied
<1>10. applied' = Append(applied, r) => Applied(r)'
  BY <1>8, AppliedGrows
<1>11. CASE /\ c.op = "consumer add"
            /\ stage' = [stage EXCEPT ![r] = "added"] /\ answer' = answer
            /\ applied' = Append(applied, r)
  <2>1. answer' = [answer EXCEPT ![r] = NoAnswer]
    BY <1>3, <1>8, <1>11
  <2>2. NoAnswer.status # 200
    BY DEF NoAnswer
  <2>3. CommandOK(c.op, "added", NoAnswer, outcome[r], Applied(r)', wasLive'[r], consumer[r])
    BY <1>3, <1>6, <1>10, <1>11, <2>2 DEF CommandOK
  <2> QED BY <1>7, <1>11, <2>1, <2>3
<1>12. ASSUME NEW a \in Answers,
              stage' = [stage EXCEPT ![r] = "answered"],
              answer' = [answer EXCEPT ![r] = a],
              \/ c.op # "get" /\ a.status \in Success /\ applied' = Append(applied, r)
              \/ c.op # "get" /\ a.status \notin Success /\ applied' = applied
              \/ /\ c.op = "get" /\ applied' = applied
                 /\ a.status = 200 /\ consumer[r] # Nil => consumer[r] \in a.shown.usedBy
       PROVE  RunInv'
  <2>1. CommandOK(c.op, "answered", a, outcome[r], Applied(r)', wasLive'[r], consumer[r])
    BY <1>3, <1>6, <1>9, <1>10, <1>12 DEF CommandOK
  <2> QED BY <1>7, <1>12, <2>1
<1> QED BY <1>5, <1>11, <1>12 DEF Effect

\* The second half of handleAddConsumer.
LEMMA EntryInv ==
    ASSUME RunInv, RunNext, NEW r \in Requests, consumerEntryLocked(r)
    PROVE  RunInv'
<1>1. /\ IndInv /\ TokP!IndInv /\ RunTypeOK /\ AppliedOnce
      /\ CommandOK(cmd[r].op, stage[r], answer[r], outcome[r], Applied(r), wasLive[r], consumer[r])
  BY DEF RunInv, TypeInv, CommandsOK
<1>2. /\ stage[r] = "added"
      /\ UNCHANGED <<vars, tokenVars, cmd, credential, consumer, outcome, applied,
                     doneBefore, issuedUnder, outdated>>
  BY DEF consumerEntryLocked
<1> DEFINE entry == consumers[cmd[r].name]
           shown == [listed |-> entry # Absent,
                     publicKey |-> IF entry \in Keys THEN entry ELSE Nil]
           status == 200
           reason == ""
           a == [status |-> status, reason |-> reason, shown |-> shown]
<1>3. Answer(r, status, reason, shown)
  BY DEF consumerEntryLocked
<1>4. shown \in Opt(Served)
  <2>1. (IF entry \in Keys THEN entry ELSE Nil) \in Opt(Keys) /\ (entry # Absent) \in BOOLEAN
    BY DEF Opt
  <2>2. shown \in Served
    BY <2>1 DEF Served
  <2> QED BY <2>2 DEF Opt
<1>5. status \in Nat /\ status \in Success /\ reason \in Reasons
  BY DEF Success, Reasons
<1> HIDE DEF shown
<1>6. stage' = [stage EXCEPT ![r] = "answered"] /\ answer' = [answer EXCEPT ![r] = a]
  BY <1>3 DEF Answer
<1> HIDE DEF status, reason
<1>7. a.status = status
  OBVIOUS
<1>8. stage' \in [Requests -> Stages] /\ answer' \in [Requests -> Answers]
  BY <1>1, <1>3, <1>4, <1>5, AnswerType
<1> HIDE DEF a
<1>9. IndInv' /\ TokP!IndInv'
  BY <1>1, <1>2, StoreUnchanged, TokensUnchanged
<1>10. AppliedOnce' /\ \A q : Applied(q)' <=> Applied(q)
  BY <1>1, <1>2 DEF AppliedOnce, Applied
<1>11. wasLive' \in [Requests -> BOOLEAN] /\ (wasLive[r] => wasLive'[r])
  BY WasLiveStep
<1>12. RunTypeOK'
  BY <1>1, <1>2, <1>8, <1>11 DEF RunTypeOK, Stages, Answers
<1>13. /\ stage'[r] = "answered" /\ answer'[r] = a
       /\ \A q \in Requests \ {r} : stage'[q] = stage[q] /\ answer'[q] = answer[q]
  BY <1>1, <1>6 DEF RunTypeOK
<1>14. /\ Applied(r)' /\ wasLive'[r] /\ cmd[r].op = "consumer add"
       /\ outcome[r] \notin Refusals \cup {"done", "none", "usage"}
  BY <1>1, <1>2, <1>10, <1>11 DEF CommandOK
<1>15. CommandOK(cmd[r].op, stage[r], answer[r], outcome[r], Applied(r), wasLive[r], consumer[r])'
  BY <1>2, <1>5, <1>7, <1>13, <1>14 DEF CommandOK
<1> QED BY <1>2, <1>9, <1>10, <1>12, <1>13, <1>15, OneMoves

\* Time passes, or nothing happens any more.
LEMMA IdleInv ==
    ASSUME RunInv, RunNext,
           IndInv', TokP!IndInv',
           UNCHANGED <<cmd, credential, stage, consumer, answer, outcome,
                       applied, doneBefore, issuedUnder, outdated>>
    PROVE  RunInv'
<1>1. RunTypeOK /\ AppliedOnce /\ StartedKnown
  BY DEF RunInv, TypeInv
<1>2. RunTypeOK'
  BY <1>1, WasLiveStep DEF RunTypeOK
<1>3. AppliedOnce' /\ \A q : Applied(q)' <=> Applied(q)
  BY <1>1 DEF AppliedOnce, Applied
<1>4. \A q \in Requests :
         CommandOK(cmd[q].op, stage[q], answer[q], outcome[q], Applied(q), wasLive[q],
                   consumer[q])'
  <2> TAKE q \in Requests
  <2>1. CommandOK(cmd[q].op, stage[q], answer[q], outcome[q], Applied(q), wasLive[q], consumer[q])
    BY DEF RunInv, CommandsOK
  <2>2. wasLive[q] => wasLive'[q]
    BY WasLiveStep
  <2>3. CommandOK(cmd[q].op, stage[q], answer[q], outcome[q], Applied(q)', wasLive'[q], consumer[q])
    BY <1>3, <2>1, <2>2 DEF CommandOK
  <2> QED BY <2>3
<1>5. CommandsOK' /\ StartedKnown'
  BY <1>1, <1>4 DEF CommandsOK, StartedKnown
<1> QED BY <1>2, <1>3, <1>5 DEF RunInv, TypeInv

\* Every step keeps the invariant.
LEMMA NextRunInv == RunInv /\ [RunNext]_allVars => RunInv'
<1> SUFFICES ASSUME RunInv, [RunNext]_allVars PROVE RunInv'
  OBVIOUS
<1>1. IndInv /\ TokP!IndInv
  BY DEF RunInv, TypeInv
<1>2. CASE UNCHANGED allVars
  <2>1. UNCHANGED <<vars, tokenVars, cmd, credential, stage, consumer, answer, outcome,
                    applied, wasLive, doneBefore, issuedUnder, outdated>>
    BY <1>2 DEF allVars, history
  <2>2. IndInv' /\ TokP!IndInv'
    BY <1>1, <2>1, StoreUnchanged, TokensUnchanged
  <2>3. RunTypeOK' /\ AppliedOnce' /\ StartedKnown'
    BY <2>1 DEF RunInv, TypeInv, RunTypeOK, AppliedOnce, StartedKnown
  <2>4. CommandsOK'
    <3> SUFFICES ASSUME NEW q \in Requests'
                 PROVE  CommandOK(cmd[q].op, stage[q], answer[q], outcome[q],
                                  Applied(q), wasLive[q], consumer[q])'
      BY DEF CommandsOK
    <3>1. q \in Requests /\ (Applied(q)' <=> Applied(q))
      BY <2>1 DEF Requests, Applied
    <3>2. CommandOK(cmd[q].op, stage[q], answer[q], outcome[q], Applied(q), wasLive[q], consumer[q])
      BY <3>1 DEF RunInv, CommandsOK
    <3>3. CommandOK(cmd[q].op, stage[q], answer[q], outcome[q], Applied(q)', wasLive[q], consumer[q])
      BY <3>1, <3>2 DEF CommandOK
    <3> QED BY <2>1, <3>3
  <2> QED BY <2>2, <2>3, <2>4 DEF RunInv, TypeInv
<1>3. CASE RunNext
  <2>1. ASSUME NEW r \in Requests,
               \/ Begin(r) \/ Receive(r) \/ LoseAnswer(r) \/ Interrupt(r) \/ Drop(r)
               \/ Judge(r) \/ Handle(r) \/ consumerEntryLocked(r)
        PROVE  RunInv'
    BY <1>3, <2>1, BeginInv, LeaveInv, DropInv, JudgeInv, HandleInv, EntryInv
  <2>2. CASE Tick
    <3>1. TokP!Tick /\ UNCHANGED <<vars, cmd, credential, stage, consumer, answer, outcome,
                                   applied, doneBefore, issuedUnder, outdated>>
      BY <2>2, SameTokens DEF Tick
    <3>2. IndInv'
      BY <1>1, <3>1, StoreUnchanged
    <3>3. TokP!IndInv'
      BY <1>1, <3>1, TokenStep DEF TokP!Next
    <3> QED BY <1>3, <3>1, <3>2, <3>3, IdleInv
  <2>3. CASE Over
    <3>1. UNCHANGED <<vars, tokenVars, cmd, credential, stage, consumer, answer, outcome,
                      applied, doneBefore, issuedUnder, outdated>>
      BY <2>3 DEF Over, allVars, history
    <3>2. IndInv' /\ TokP!IndInv'
      BY <1>1, <3>1, StoreUnchanged, TokensUnchanged
    <3> QED BY <1>3, <3>1, <3>2, IdleInv
  <2> QED BY <1>3, <2>1, <2>2, <2>3 DEF RunNext
<1> QED BY <1>2, <1>3

\* The invariant of the command runs.
THEOREM RunInvariance == RunSpec => []RunInv
BY InitRunInv, NextRunInv, PTL DEF RunSpec

\* Every variable of a command keeps its type.
THEOREM RunTypesCorrect == RunSpec => []RunTypeOK
<1>1. RunInv => RunTypeOK
  BY DEF RunInv, TypeInv
<1> QED BY <1>1, RunInvariance, PTL

\* The invariant says what an exit means.
LEMMA InvTellsTruth == RunInv => ExitTellsTruth
<1> SUFFICES ASSUME RunInv PROVE ExitTellsTruth
  OBVIOUS
<1>1. \A i, j \in DOMAIN applied : applied[i] = applied[j] => i = j
  BY DEF RunInv, AppliedOnce
<1>2. ASSUME NEW r \in Requests
      PROVE  /\ ExitStatus(outcome[r]) = 0 /\ cmd[r].op # "get" => Applied(r)
             /\ outcome[r] \in Refusals \cup {"usage"} =>
                  ~Applied(r) /\ stage[r] \in {"unsent", "answered"}
  <2>1. CommandOK(cmd[r].op, stage[r], answer[r], outcome[r], Applied(r), wasLive[r], consumer[r])
    BY DEF RunInv, CommandsOK
  <2>2. ExitStatus(outcome[r]) = 0 => outcome[r] = "done"
    BY DEF ExitStatus
  <2> QED BY <2>1, <2>2 DEF CommandOK
<1> QED BY <1>1, <1>2 DEF ExitTellsTruth

\* The exit status and the error of a command tell what the server did.
THEOREM ExitsTellTruth == RunSpec => []ExitTellsTruth
<1>1. RunInv => ExitTellsTruth
  BY InvTellsTruth
<1> QED BY <1>1, RunInvariance, PTL

\* The invariant says who was let through.
LEMMA InvAuthorized == RunInv => EffectWasAuthorized
<1> SUFFICES ASSUME RunInv, NEW r \in Requests
             PROVE  /\ Applied(r) \/ answer[r].status = 200 => wasLive[r]
                    /\ answer[r].status = 200 /\ cmd[r].op = "get" /\ consumer[r] # Nil =>
                          consumer[r] \in answer[r].shown.usedBy
  BY DEF EffectWasAuthorized
<1>1. CommandOK(cmd[r].op, stage[r], answer[r], outcome[r], Applied(r), wasLive[r], consumer[r])
  BY DEF RunInv, CommandsOK
<1>2. answer[r].status = 200 /\ cmd[r].op = "get" /\ consumer[r] # Nil =>
        consumer[r] \in answer[r].shown.usedBy
  BY <1>1 DEF CommandOK
<1>3. Applied(r) \/ answer[r].status = 200 => wasLive[r]
  BY <1>1, Zenon DEF CommandOK
<1> QED BY <1>2, <1>3

\* Nothing takes effect, and nothing is served, without a good credential,
\* and a reader is served only what names its consumer.
THEOREM EffectsAuthorized == RunSpec => []EffectWasAuthorized
<1>1. RunInv => EffectWasAuthorized
  BY InvAuthorized
<1> QED BY <1>1, RunInvariance, PTL

-----------------------------------------------------------------------------
(* Ended tokens, and the values that were shown.                           *)

EndOps == {"token rotate", "token revoke", "token purge"}

\* A value in the lookup is under the id it was issued under; no value that
\* was issued is a write token.
IssuedInv ==
    /\ \A v \in RandomSuffixes : consumerTokenValues[v] # Absent =>
          issuedUnder[v] = consumerTokenValues[v]
    /\ \A v \in RandomSuffixes : issuedUnder[v] # Absent => v \in drawn /\ tokens[v] = Absent

\* What was shown is what the records say.
HoldsIn(shown, records) ==
    /\ shown.id \in RandomSuffixes
    /\ records[shown.id] \in Tok!consumerToken
    /\ records[shown.id].value = shown.value
    /\ records[shown.id].expiresAt = shown.expiresAt
    /\ ~records[shown.id].revoked

\* What a handler of tokens does, as far as the two invariants need it.
TokenMove(r, c) ==
    /\ [TokP!Next]_tokenVars /\ IssuedInv'
    /\ \A j \in RandomSuffixes : consumerTokens[j] # Absent =>
          \/ consumerTokens'[j] = consumerTokens[j]
          \/ c.op \in EndOps /\ c.id = j /\ applied' = Append(applied, r)
    /\ \/ outdated' = outdated
       \/ /\ c.op \in EndOps
          /\ outdated' = [outdated EXCEPT ![r] = {v \in RandomSuffixes : issuedUnder[v] = c.id}]
          /\ applied' = Append(applied, r) =>
                \A v \in RandomSuffixes : issuedUnder[v] = c.id => ~Tok!Accepted(v)'
    /\ c.op \in {"token create", "token rotate"} /\ answer'[r].status \in Success =>
          HoldsIn(answer'[r].shown, consumerTokens')

\* A handler that changes no token.
LEMMA NoTokenMoves ==
    ASSUME IssuedInv, NEW r \in Requests, NEW c,
           UNCHANGED <<now, tokens, consumerTokens, consumerTokenValues, drawn, issuedUnder>>
    PROVE  /\ IssuedInv'
           /\ \A j \in RandomSuffixes : consumerTokens[j] # Absent =>
                 consumerTokens'[j] = consumerTokens[j]
BY DEF IssuedInv

\* The two instances agree on what is accepted.
LEMMA SameAccepted ==
    /\ \A v : Tok!Accepted(v) <=> TokP!Accepted(v)
    /\ \A v : Tok!Accepted(v)' <=> TokP!Accepted(v)'
BY DEF Tok!Accepted, TokP!Accepted, Tok!consumerForToken, TokP!consumerForToken,
       Tok!validateToken, TokP!validateToken

\* AnswerToken answers with the status it is given.
LEMMA TokenStatus ==
    ASSUME RunTypeOK, NEW r \in Requests, AnswerToken(r)
    PROVE  answer'[r].status = tokenReply' /\ issuedUnder' = issuedUnder
BY DEF AnswerToken, Answer, RunTypeOK

\* AnswerValue answers with the fresh value of record i.
LEMMA ValueStatus ==
    ASSUME RunTypeOK, NEW r \in Requests, NEW i \in RandomSuffixes,
           NEW rec \in Tok!consumerToken, ~rec.revoked, consumerTokens'[i] = rec, AnswerValue(r, i)
    PROVE  /\ HoldsIn(answer'[r].shown, consumerTokens')
           /\ issuedUnder' = [issuedUnder EXCEPT ![rec.value] = i]
           /\ applied' = Append(applied, r)
<1> DEFINE shown == [id |-> i, value |-> rec.value, expiresAt |-> rec.expiresAt]
           a == [status |-> tokenReply', reason |-> "", shown |-> shown]
<1>1. answer' = [answer EXCEPT ![r] = a]
  BY DEF AnswerValue, Answer
<1>2. answer'[r] = a
  BY <1>1 DEF RunTypeOK
<1>3. a.shown = shown
  OBVIOUS
<1>4. shown.id = i /\ shown.value = rec.value /\ shown.expiresAt = rec.expiresAt
  OBVIOUS
<1> HIDE DEF shown, a
<1>5. HoldsIn(answer'[r].shown, consumerTokens')
  BY <1>2, <1>3, <1>4 DEF HoldsIn
<1>6. issuedUnder' = [issuedUnder EXCEPT ![rec.value] = i] /\ applied' = Append(applied, r)
  BY DEF AnswerValue, Take
<1> QED BY <1>5, <1>6

LEMMA CreateMoves ==
    ASSUME TypeInv, IssuedInv, NEW r \in Requests, NEW c \in Commands,
           handleCreateConsumerToken(r, c)
    PROVE  TokenMove(r, c)
<1> DEFINE name == c.name
           d == c.ttl
<1>1. RunTypeOK /\ TokP!IndInv
  BY DEF TypeInv
<1>2. /\ consumerTokens \in [RandomSuffixes -> Tok!consumerToken \cup {Absent}]
      /\ consumerTokenValues \in [RandomSuffixes -> RandomSuffixes \cup {Absent}]
      /\ issuedUnder \in [RandomSuffixes -> RandomSuffixes \cup {Absent}]
      /\ \A x \in RandomSuffixes \ drawn : consumerTokens[x] = Absent /\ tokens[x] = Absent
  BY <1>1 DEF TokP!IndInv, TokP!TypeOK, TokP!UndrawnUnused, TokP!consumerToken,
       Tok!consumerToken, RunTypeOK
<1>3. /\ c.op = "token create" /\ name \in Consumers /\ d \in Durations
      /\ Tok!CreateConsumerToken(name, d) /\ outdated' = outdated
      /\ \/ tokenReply' # 201 /\ AnswerToken(r)
         \/ /\ tokenReply' = 201
            /\ \E i \in RandomSuffixes : /\ consumerTokens[i] = Absent
                                         /\ consumerTokens'[i] # Absent
                                         /\ AnswerValue(r, i)
  BY Asked DEF handleCreateConsumerToken
<1> HIDE DEF name, d
<1>4. [TokP!Next]_tokenVars
  <2>1. TokP!CreateConsumerToken(name, d)
    <3>1. Tok!CreateConsumerToken(name, d)
      BY <1>3
    <3> QED BY <3>1, SameTokens, Zenon
  <2>2. \E k \in Consumers, e \in Durations : TokP!CreateConsumerToken(k, e)
    <3>1. name \in Consumers /\ d \in Durations
      BY <1>3
    <3> QED BY <2>1, <3>1, Zenon
  <2> QED BY <2>2 DEF TokP!Next
<1>5. CASE tokenReply' # 201 /\ AnswerToken(r)
  <2>1. /\ tokenReply' = 400
        /\ UNCHANGED <<now, tokens, consumerTokens, consumerTokenValues, drawn>>
    BY <1>1, <1>3, <1>5, CreateToken
  <2>2. answer'[r].status = tokenReply' /\ issuedUnder' = issuedUnder
    BY <1>1, <1>5, TokenStatus
  <2>3. answer'[r].status \notin Success
    BY <2>1, <2>2 DEF Success
  <2>4. /\ IssuedInv'
        /\ \A j \in RandomSuffixes : consumerTokens[j] # Absent =>
              consumerTokens'[j] = consumerTokens[j]
    BY <2>1, <2>2, NoTokenMoves
  <2> QED BY <1>3, <1>4, <2>3, <2>4 DEF TokenMove
<1>6. ASSUME NEW i \in RandomSuffixes, tokenReply' = 201, consumerTokens[i] = Absent,
             consumerTokens'[i] # Absent, AnswerValue(r, i)
      PROVE  TokenMove(r, c)
  <2>1. PICK k \in RandomSuffixes \ drawn, v \in RandomSuffixes \ drawn,
             rec \in Tok!consumerToken :
               /\ k # v /\ rec.value = v /\ ~rec.revoked
               /\ consumerTokens' = [consumerTokens EXCEPT ![k] = rec]
               /\ consumerTokenValues' = [consumerTokenValues EXCEPT ![v] = k]
               /\ drawn' = drawn \cup {k, v} /\ tokens' = tokens
    BY <1>1, <1>3, <1>6, CreateToken
  <2>2. i = k /\ consumerTokens'[i] = rec
    BY <1>2, <1>6, <2>1
  <2>3. /\ HoldsIn(answer'[r].shown, consumerTokens')
        /\ issuedUnder' = [issuedUnder EXCEPT ![v] = i]
    BY <1>1, <1>6, <2>1, <2>2, ValueStatus
  <2>4. IssuedInv'
    BY <1>2, <2>1, <2>2, <2>3 DEF IssuedInv
  <2>5. \A j \in RandomSuffixes : consumerTokens[j] # Absent =>
              consumerTokens'[j] = consumerTokens[j]
    BY <1>2, <2>1
  <2> QED BY <1>3, <1>4, <2>3, <2>4, <2>5 DEF TokenMove
<1> QED BY <1>3, <1>5, <1>6

LEMMA RotateMoves ==
    ASSUME TypeInv, IssuedInv, NEW r \in Requests, NEW c \in Commands,
           handleRotateConsumerToken(r, c)
    PROVE  TokenMove(r, c)
<1> DEFINE id == c.id
           d == c.ttl
<1>1. RunTypeOK /\ TokP!IndInv
  BY DEF TypeInv
<1>2. /\ consumerTokens \in [RandomSuffixes -> Tok!consumerToken \cup {Absent}]
      /\ consumerTokenValues \in [RandomSuffixes -> RandomSuffixes \cup {Absent}]
      /\ issuedUnder \in [RandomSuffixes -> RandomSuffixes \cup {Absent}]
      /\ \A x \in RandomSuffixes \ drawn : consumerTokens[x] = Absent /\ tokens[x] = Absent
      /\ \A v \in RandomSuffixes : consumerTokenValues[v] # Absent =>
            consumerTokens[consumerTokenValues[v]].value = v
      /\ Absent \notin RandomSuffixes
  BY <1>1, AbsentTokenAssumption DEF TokP!IndInv, TokP!TypeOK, TokP!UndrawnUnused,
       TokP!consumerToken, Tok!consumerToken, RunTypeOK, TokP!LookupMatchesRecords
<1>3. /\ c.op = "token rotate" /\ id \in RandomSuffixes /\ d \in Durations
      /\ Tok!RotateConsumerToken(id, d) /\ Outdate(r, id)
      /\ \/ tokenReply' # 200 /\ AnswerToken(r)
         \/ tokenReply' = 200 /\ AnswerValue(r, id)
  BY Asked DEF handleRotateConsumerToken
<1>3a. c.id = id
  OBVIOUS
<1> HIDE DEF id, d
<1>4. [TokP!Next]_tokenVars
  <2>1. TokP!RotateConsumerToken(id, d)
    BY <1>3, SameTokens
  <2>2. \E k \in RandomSuffixes, e \in Durations : TokP!RotateConsumerToken(k, e)
    BY <1>3, <2>1
  <2> QED BY <2>2 DEF TokP!Next
<1>4a. /\ c.op \in EndOps
       /\ outdated' = [outdated EXCEPT ![r] = {v \in RandomSuffixes : issuedUnder[v] = c.id}]
  BY <1>3, <1>3a DEF Outdate, EndOps
<1>5. CASE tokenReply' # 200 /\ AnswerToken(r)
  <2>1. /\ tokenReply' \in {400, 404}
        /\ UNCHANGED <<now, tokens, consumerTokens, consumerTokenValues, drawn>>
    BY <1>1, <1>3, <1>5, RotateToken
  <2>2. answer'[r].status = tokenReply' /\ issuedUnder' = issuedUnder
    BY <1>1, <1>5, TokenStatus
  <2>3. answer'[r].status \notin Success
    BY <2>1, <2>2 DEF Success
  <2>4. /\ IssuedInv'
        /\ \A j \in RandomSuffixes : consumerTokens[j] # Absent =>
              consumerTokens'[j] = consumerTokens[j]
    BY <2>1, <2>2, NoTokenMoves
  <2>5. applied' # Append(applied, r)
    <3>1. applied' = applied
      <4>1. tokenReply' # 204
        BY <2>1
      <4>2. Take(r, tokenReply' = 204)
        BY <1>5 DEF AnswerToken
      <4> QED BY <4>1, <4>2 DEF Take
    <3>2. applied \in Seq(Requests)
      BY <1>1 DEF RunTypeOK
    <3> QED BY <3>1, <3>2
  <2> QED BY <1>4, <1>4a, <2>3, <2>4, <2>5 DEF TokenMove
<1>6. CASE tokenReply' = 200 /\ AnswerValue(r, id)
  <2> DEFINE old == consumerTokens[id].value
  <2>0. id \in RandomSuffixes /\ id # Absent
    BY <1>3, AbsentTokenAssumption
  <2>0a. /\ tokens' = tokens
         /\ \E v \in RandomSuffixes \ drawn, rec \in Tok!consumerToken :
               /\ rec.value = v /\ ~rec.revoked
               /\ consumerTokens' = [consumerTokens EXCEPT ![id] = rec]
               /\ consumerTokenValues' = [consumerTokenValues EXCEPT ![old] = Absent, ![v] = id]
               /\ drawn' = drawn \cup {v}
    <3>1. ~(tokenReply' \in {400, 404})
      BY <1>6
    <3>2. Tok!RotateConsumerToken(id, d) /\ d \in Durations /\ id \in RandomSuffixes
      BY <1>3
    <3>3. TokP!IndInv
      BY <1>1
    <3> QED BY <3>1, <3>2, <3>3, RotateToken
  <2> HIDE DEF old
  <2>1. PICK v \in RandomSuffixes \ drawn, rec \in Tok!consumerToken :
               /\ rec.value = v /\ ~rec.revoked
               /\ consumerTokens' = [consumerTokens EXCEPT ![id] = rec]
               /\ consumerTokenValues' = [consumerTokenValues EXCEPT ![old] = Absent, ![v] = id]
               /\ drawn' = drawn \cup {v}
    BY <2>0a
  <2>1a. /\ consumerTokens' = [consumerTokens EXCEPT ![id] = rec]
         /\ consumerTokenValues' = [consumerTokenValues EXCEPT ![old] = Absent, ![v] = id]
         /\ tokens' = tokens /\ drawn' = drawn \cup {v}
    BY <2>0a, <2>1
  <2>2. consumerTokens'[id] = rec
    <3>1. consumerTokens \in [RandomSuffixes -> Tok!consumerToken \cup {Absent}]
      BY <1>2
    <3> QED BY <2>0, <2>1a, <3>1
  <2>3. /\ HoldsIn(answer'[r].shown, consumerTokens')
        /\ issuedUnder' = [issuedUnder EXCEPT ![v] = id]
        /\ applied' = Append(applied, r)
    BY <1>1, <1>3, <1>6, <2>1, <2>2, ValueStatus
  <2>4. \A u \in RandomSuffixes : consumerTokenValues'[u] # Absent =>
          \/ u = v /\ consumerTokenValues'[u] = id
          \/ u # v /\ u # old /\ consumerTokenValues'[u] = consumerTokenValues[u]
    BY <1>2, <2>1a
  <2>5. IssuedInv'
    <3>1. ASSUME NEW u \in RandomSuffixes
          PROVE  issuedUnder'[u] = IF u = v THEN id ELSE issuedUnder[u]
      BY <1>2, <2>3
    <3>2. ASSUME NEW u \in RandomSuffixes, consumerTokenValues'[u] # Absent
          PROVE  issuedUnder'[u] = consumerTokenValues'[u]
      BY <2>4, <3>1, <3>2 DEF IssuedInv
    <3>3. tokens[v] = Absent
      BY <1>2
    <3>4. ASSUME NEW u \in RandomSuffixes, issuedUnder'[u] # Absent
          PROVE  u \in drawn' /\ tokens'[u] = Absent
      BY <2>1a, <3>1, <3>3, <3>4 DEF IssuedInv
    <3> QED BY <3>2, <3>4 DEF IssuedInv
  <2>6. \A j \in RandomSuffixes : consumerTokens[j] # Absent =>
              consumerTokens'[j] = consumerTokens[j] \/ j = id
    BY <1>2, <2>1
  <2>7. ASSUME NEW u \in RandomSuffixes, issuedUnder[u] = id
        PROVE  ~Tok!Accepted(u)'
    <3>0. issuedUnder[u] # Absent
      BY <2>0, <2>7
    <3>1. u \in drawn /\ tokens[u] = Absent /\ u # v
      BY <3>0 DEF IssuedInv
    <3>2. ~Tok!validateToken(u)'
      BY <2>1a, <3>1 DEF Tok!validateToken
    <3>3. consumerTokenValues'[u] = Absent
      <4> SUFFICES ASSUME consumerTokenValues'[u] # Absent PROVE FALSE
        OBVIOUS
      <4>1. u # old /\ consumerTokenValues[u] # Absent
        BY <2>4, <3>1
      <4>2. consumerTokenValues[u] = id
        BY <2>7, <4>1 DEF IssuedInv
      <4> QED BY <1>2, <4>1, <4>2 DEF old
    <3>4. ~Tok!consumerForToken(u)'
      BY <3>3 DEF Tok!consumerForToken
    <3> QED BY <3>2, <3>4 DEF Tok!Accepted
  <2> QED BY <1>3a, <1>4, <1>4a, <2>3, <2>5, <2>6, <2>7 DEF TokenMove
<1> QED BY <1>3, <1>5, <1>6

LEMMA RevokeMoves ==
    ASSUME TypeInv, IssuedInv, NEW r \in Requests, NEW c \in Commands,
           handleRevokeConsumerToken(r, c)
    PROVE  TokenMove(r, c)
<1> DEFINE id == c.id
<1>1. RunTypeOK /\ TokP!IndInv
  BY DEF TypeInv
<1>2. /\ consumerTokens \in [RandomSuffixes -> Tok!consumerToken \cup {Absent}]
      /\ \A v \in RandomSuffixes : consumerTokenValues[v] # Absent =>
            consumerTokens[consumerTokenValues[v]] # Absent
      /\ Absent \notin RandomSuffixes
  BY <1>1, AbsentTokenAssumption DEF TokP!IndInv, TokP!TypeOK,
       TokP!consumerToken, Tok!consumerToken, TokP!LookupMatchesRecords
<1>3. /\ c.op = "token revoke" /\ id \in RandomSuffixes
      /\ Tok!RevokeConsumerToken(id) /\ Outdate(r, id) /\ AnswerToken(r)
  BY Asked DEF handleRevokeConsumerToken
<1>3a. c.id = id
  OBVIOUS
<1> HIDE DEF id
<1>4. [TokP!Next]_tokenVars
  <2>1. \E k \in RandomSuffixes : TokP!RevokeConsumerToken(k)
    BY <1>3, SameTokens
  <2> QED BY <2>1 DEF TokP!Next
<1>5. /\ c.op \in EndOps /\ c.op \notin {"token create", "token rotate"}
      /\ outdated' = [outdated EXCEPT ![r] = {v \in RandomSuffixes : issuedUnder[v] = c.id}]
  BY <1>3, <1>3a DEF Outdate, EndOps
<1>6. /\ tokenReply' = 204 /\ UNCHANGED <<now, tokens, consumerTokenValues, drawn>>
      /\ \/ consumerTokens[id] = Absent /\ UNCHANGED consumerTokens
         \/ \E rec \in Tok!consumerToken :
              rec.revoked /\ consumerTokens' = [consumerTokens EXCEPT ![id] = rec]
  BY <1>1, <1>3, RevokeToken
<1>7. issuedUnder' = issuedUnder /\ applied' = Append(applied, r)
  BY <1>3, <1>6 DEF AnswerToken, Take
<1>8. IssuedInv'
  BY <1>6, <1>7 DEF IssuedInv
<1>9. \A j \in RandomSuffixes : consumerTokens[j] # Absent =>
              consumerTokens'[j] = consumerTokens[j] \/ j = id
  BY <1>2, <1>6
<1>10. ASSUME NEW u \in RandomSuffixes, issuedUnder[u] = id
       PROVE  ~Tok!Accepted(u)'
  <2>1. tokens[u] = Absent
    BY <1>2, <1>3, <1>10 DEF IssuedInv
  <2>2. ~Tok!validateToken(u)'
    BY <1>6, <2>1 DEF Tok!validateToken
  <2>3. ~Tok!consumerForToken(u)'
    <3>1. CASE consumerTokenValues[u] = Absent
      BY <1>6, <3>1 DEF Tok!consumerForToken
    <3>2. CASE consumerTokenValues[u] # Absent
      <4>1. consumerTokenValues[u] = id /\ consumerTokens[id] # Absent
        BY <1>2, <1>10, <3>2 DEF IssuedInv
      <4>2. consumerTokens'[id].revoked
        BY <1>2, <1>3, <1>6, <4>1
      <4> QED BY <1>6, <4>1, <4>2 DEF Tok!consumerForToken
    <3> QED BY <3>1, <3>2
  <2> QED BY <2>2, <2>3 DEF Tok!Accepted
<1> QED BY <1>3a, <1>4, <1>5, <1>7, <1>8, <1>9, <1>10 DEF TokenMove

LEMMA PurgeMoves ==
    ASSUME TypeInv, IssuedInv, NEW r \in Requests, NEW c \in Commands,
           handlePurgeConsumerToken(r, c)
    PROVE  TokenMove(r, c)
<1> DEFINE id == c.id
<1>1. RunTypeOK /\ TokP!IndInv
  BY DEF TypeInv
<1>2. /\ consumerTokens \in [RandomSuffixes -> Tok!consumerToken \cup {Absent}]
      /\ consumerTokenValues \in [RandomSuffixes -> RandomSuffixes \cup {Absent}]
      /\ \A v \in RandomSuffixes : consumerTokenValues[v] # Absent =>
            consumerTokens[consumerTokenValues[v]].value = v
      /\ Absent \notin RandomSuffixes
  BY <1>1, AbsentTokenAssumption DEF TokP!IndInv, TokP!TypeOK,
       TokP!consumerToken, Tok!consumerToken, TokP!LookupMatchesRecords
<1>3. /\ c.op = "token purge" /\ id \in RandomSuffixes
      /\ Tok!PurgeConsumerToken(id) /\ Outdate(r, id) /\ AnswerToken(r)
  BY Asked DEF handlePurgeConsumerToken
<1>3a. c.id = id
  OBVIOUS
<1> HIDE DEF id
<1>4. [TokP!Next]_tokenVars
  <2>1. \E k \in RandomSuffixes : TokP!PurgeConsumerToken(k)
    BY <1>3, SameTokens
  <2> QED BY <2>1 DEF TokP!Next
<1>5. /\ c.op \in EndOps /\ c.op \notin {"token create", "token rotate"}
      /\ outdated' = [outdated EXCEPT ![r] = {v \in RandomSuffixes : issuedUnder[v] = c.id}]
  BY <1>3, <1>3a DEF Outdate, EndOps
<1>6. /\ UNCHANGED <<now, tokens, drawn>> /\ issuedUnder' = issuedUnder
      /\ \/ tokenReply' \in {404, 409} /\ UNCHANGED <<consumerTokens, consumerTokenValues>>
         \/ /\ tokenReply' = 204
            /\ consumerTokens' = [consumerTokens EXCEPT ![id] = Absent]
            /\ consumerTokenValues' =
                  [consumerTokenValues EXCEPT ![consumerTokens[id].value] = Absent]
  BY <1>1, <1>3, PurgeToken DEF AnswerToken
<1>7. CASE tokenReply' \in {404, 409} /\ UNCHANGED <<consumerTokens, consumerTokenValues>>
  <2>1. applied' # Append(applied, r)
    <3>1. applied' = applied
      <4>1. tokenReply' # 204
        BY <1>7
      <4>2. Take(r, tokenReply' = 204)
        BY <1>3 DEF AnswerToken
      <4> QED BY <4>1, <4>2 DEF Take
    <3>2. applied \in Seq(Requests)
      BY <1>1 DEF RunTypeOK
    <3> QED BY <3>1, <3>2
  <2>2. /\ IssuedInv'
        /\ \A j \in RandomSuffixes : consumerTokens[j] # Absent =>
              consumerTokens'[j] = consumerTokens[j]
    BY <1>6, <1>7, NoTokenMoves
  <2> QED BY <1>4, <1>5, <2>1, <2>2 DEF TokenMove
<1>8. CASE /\ tokenReply' = 204
           /\ consumerTokens' = [consumerTokens EXCEPT ![id] = Absent]
           /\ consumerTokenValues' =
                 [consumerTokenValues EXCEPT ![consumerTokens[id].value] = Absent]
  <2> DEFINE old == consumerTokens[id].value
  <2>1. applied' = Append(applied, r)
    BY <1>3, <1>8 DEF AnswerToken, Take
  <2>2. \A u \in RandomSuffixes : consumerTokenValues'[u] # Absent =>
          u # old /\ consumerTokenValues'[u] = consumerTokenValues[u]
    BY <1>2, <1>8
  <2>3. IssuedInv'
    BY <1>6, <2>2 DEF IssuedInv
  <2>4. \A j \in RandomSuffixes : consumerTokens[j] # Absent =>
              consumerTokens'[j] = consumerTokens[j] \/ j = id
    BY <1>2, <1>8
  <2>5. ASSUME NEW u \in RandomSuffixes, issuedUnder[u] = id
        PROVE  ~Tok!Accepted(u)'
    <3>1. tokens[u] = Absent
      BY <1>2, <1>3, <2>5 DEF IssuedInv
    <3>2. ~Tok!validateToken(u)'
      BY <1>6, <3>1 DEF Tok!validateToken
    <3>3. consumerTokenValues'[u] = Absent
      <4> SUFFICES ASSUME consumerTokenValues'[u] # Absent PROVE FALSE
        OBVIOUS
      <4>1. u # old /\ consumerTokenValues[u] # Absent
        BY <2>2
      <4>2. consumerTokenValues[u] = id
        BY <2>5, <4>1 DEF IssuedInv
      <4> QED BY <1>2, <4>1, <4>2
    <3>4. ~Tok!consumerForToken(u)'
      BY <3>3 DEF Tok!consumerForToken
    <3> QED BY <3>2, <3>4 DEF Tok!Accepted
  <2> QED BY <1>3a, <1>4, <1>5, <2>1, <2>3, <2>4, <2>5 DEF TokenMove
<1> QED BY <1>6, <1>7, <1>8

\* Every handler, those of the store included.
LEMMA HandleMoves ==
    ASSUME TypeInv, IssuedInv, NEW r \in Requests, Handle(r), cmd[r] \in Commands
    PROVE  TokenMove(r, cmd[r])
<1> DEFINE c == cmd[r]
<1>1. c \in Commands /\ (StoreHandler(r, c) \/ TokenHandler(r, c))
  BY DEF Handle
<1> HIDE DEF c
<1>2. CASE StoreHandler(r, c)
  <2>1. UNCHANGED <<tokenVars, issuedUnder, outdated>>
    BY <1>2 DEF StoreHandler
  <2>2. UNCHANGED <<now, tokens, consumerTokens, consumerTokenValues, drawn, issuedUnder>>
    BY <2>1 DEF tokenVars
  <2>3. c.op \notin {"token create", "token rotate"}
    BY <1>2 DEF StoreHandler, handleAddConsumer, handleUpdateConsumer, handleDeleteConsumer,
         handleGetObject, handlePatchObject, handleDeleteObject
  <2>4. IssuedInv' /\ \A j \in RandomSuffixes : consumerTokens[j] # Absent =>
              consumerTokens'[j] = consumerTokens[j]
    BY <2>2, NoTokenMoves
  <2>5. TokenMove(r, c)
    BY <2>1, <2>3, <2>4 DEF TokenMove
  <2> QED BY <2>5 DEF c
<1>3. CASE TokenHandler(r, c)
  <2>1. TokenMove(r, c)
    BY <1>1, <1>3, CreateMoves, RotateMoves, RevokeMoves, PurgeMoves DEF TokenHandler
  <2> QED BY <2>1 DEF c
<1> QED BY <1>1, <1>2, <1>3

\* What stopped being accepted stays so, and what was drawn stays drawn.
LEMMA KeepDead ==
    ASSUME TokP!IndInv, [TokP!Next]_tokenVars
    PROVE  \A v \in drawn : v \in drawn' /\ (~Tok!Accepted(v) => ~Tok!Accepted(v)')
<1>1. TokP!StayDead
  BY TokenAssumptions, TokP!StepsKeepDead DEF tokenVars, TokP!vars
<1>2. \A v \in drawn : ~Tok!Accepted(v) => ~Tok!Accepted(v)'
  BY <1>1, SameAccepted DEF TokP!StayDead
<1>3. drawn \subseteq drawn'
  <2>1. CASE UNCHANGED tokenVars
    BY <2>1 DEF tokenVars
  <2>2. ASSUME NEW e, TokP!CreateWriteToken(e) PROVE drawn \subseteq drawn'
    BY <2>2 DEF TokP!CreateWriteToken
  <2>3. ASSUME NEW k, NEW e, TokP!CreateConsumerToken(k, e) PROVE drawn \subseteq drawn'
    BY <2>3 DEF TokP!CreateConsumerToken, TokP!Answer
  <2>4. ASSUME NEW i, NEW e, TokP!RotateConsumerToken(i, e) PROVE drawn \subseteq drawn'
    BY <2>4 DEF TokP!RotateConsumerToken, TokP!Answer
  <2>5. ASSUME NEW i, TokP!RevokeConsumerToken(i) \/ TokP!PurgeConsumerToken(i)
        PROVE  drawn \subseteq drawn'
    BY <2>5 DEF TokP!RevokeConsumerToken, TokP!PurgeConsumerToken, TokP!Answer
  <2>6. CASE TokP!Tick
    BY <2>6 DEF TokP!Tick
  <2> QED BY <2>1, <2>2, <2>3, <2>4, <2>5, <2>6 DEF TokP!Next
<1> QED BY <1>2, <1>3

\* The values a command has ended are refused from then on.
OutdatedOK ==
    \A q \in Requests : \A v \in outdated[q] :
        /\ stage[q] = "answered" /\ cmd[q].op \in EndOps /\ v \in drawn
        /\ Applied(q) => ~Tok!Accepted(v)

\* No handler is past its judgement for a command that began with such a
\* value after the command that ended it had exited.
EndedFor(r) ==
    \A q \in doneBefore[r] :
        /\ outcome[q] = "done"
        /\ credential[r] \in outdated[q] =>
              stage[r] \notin {"judged", "added"} /\ answer[r].status \in {0, 401}

EndedOK == \A r \in Requests : EndedFor(r)

\* What a successful answer showed holds, or somebody ended it since.
ShownOK ==
    \A q \in Requests :
        /\ stage[q] = "answered" /\ answer[q].status \in Success
        /\ cmd[q].op \in {"token create", "token rotate"}
        => \/ HoldsIn(answer[q].shown, consumerTokens)
           \/ \E p \in Requests : /\ AppliedAfter(q, p) /\ cmd[p].op \in EndOps
                                  /\ cmd[p].id = answer[q].shown.id

EndInv == IssuedInv /\ OutdatedOK /\ EndedOK /\ ShownOK

\* A step that runs no handler on the tokens.
Quiet ==
    /\ [TokP!Next]_tokenVars
    /\ UNCHANGED <<tokens, consumerTokens, consumerTokenValues, drawn, applied,
                   issuedUnder, outdated>>
    /\ \A q \in Requests :
         /\ stage[q] = "answered" => stage'[q] = "answered" /\ answer'[q] = answer[q]
         /\ stage[q] = "answered" \/ Applied(q) => cmd'[q] = cmd[q]
         /\ stage[q] # "answered" /\ stage'[q] = "answered" =>
              \/ answer'[q].status \notin Success
              \/ cmd'[q].op \notin {"token create", "token rotate"}

LEMMA QuietKeeps ==
    ASSUME RunInv, IssuedInv, OutdatedOK, ShownOK, Quiet
    PROVE  IssuedInv' /\ OutdatedOK' /\ ShownOK'
<1>1. TokP!IndInv
  BY DEF RunInv, TypeInv
<1>2. /\ \A q : Applied(q)' <=> Applied(q)
      /\ \A p, q : AppliedAfter(p, q)' <=> AppliedAfter(p, q)
  BY DEF Quiet, Applied, AppliedAfter
<1>3. IssuedInv'
  BY DEF Quiet, IssuedInv
<1>4. OutdatedOK'
  <2>1. \A v \in drawn : v \in drawn' /\ (~Tok!Accepted(v) => ~Tok!Accepted(v)')
    BY <1>1, KeepDead DEF Quiet
  <2>2. ASSUME NEW q \in Requests, NEW v \in outdated'[q]
        PROVE  /\ stage'[q] = "answered" /\ cmd'[q].op \in EndOps /\ v \in drawn'
               /\ Applied(q)' => ~Tok!Accepted(v)'
    <3>1. /\ stage[q] = "answered" /\ cmd[q].op \in EndOps /\ v \in drawn
          /\ Applied(q) => ~Tok!Accepted(v)
      BY <2>2 DEF Quiet, OutdatedOK
    <3>2. stage'[q] = "answered" /\ cmd'[q] = cmd[q]
      BY <3>1 DEF Quiet
    <3> QED BY <1>2, <2>1, <3>1, <3>2
  <2> QED BY <2>2 DEF OutdatedOK, Requests
<1>5. ShownOK'
  <2> SUFFICES ASSUME NEW q \in Requests, stage'[q] = "answered", answer'[q].status \in Success,
                      cmd'[q].op \in {"token create", "token rotate"}
               PROVE  \/ HoldsIn(answer'[q].shown, consumerTokens')
                      \/ \E p \in Requests :
                            /\ AppliedAfter(q, p)' /\ cmd'[p].op \in EndOps
                            /\ cmd'[p].id = answer'[q].shown.id
    BY DEF ShownOK, Requests
  <2>1. stage[q] = "answered" /\ answer'[q] = answer[q] /\ cmd'[q] = cmd[q]
        /\ consumerTokens' = consumerTokens
    BY DEF Quiet
  <2>2. CASE HoldsIn(answer[q].shown, consumerTokens)
    BY <2>1, <2>2
  <2>3. ASSUME NEW p \in Requests, AppliedAfter(q, p), cmd[p].op \in EndOps,
               cmd[p].id = answer[q].shown.id
        PROVE  AppliedAfter(q, p)' /\ cmd'[p].op \in EndOps /\ cmd'[p].id = answer'[q].shown.id
    <3>1. Applied(p)
      BY <2>3 DEF AppliedAfter, Applied
    <3>2. cmd'[p] = cmd[p]
      BY <3>1 DEF Quiet
    <3> QED BY <1>2, <2>1, <2>3, <3>2
  <2>4. \/ HoldsIn(answer[q].shown, consumerTokens)
        \/ \E p \in Requests : /\ AppliedAfter(q, p) /\ cmd[p].op \in EndOps
                               /\ cmd[p].id = answer[q].shown.id
    BY <2>1 DEF ShownOK
  <2> QED BY <2>2, <2>3, <2>4
<1> QED BY <1>3, <1>4, <1>5

\* A handler at work: the commands before it are left as they are.
LEMMA HandleKeeps ==
    ASSUME RunInv, IssuedInv, OutdatedOK, ShownOK, NEW r \in Requests, Handle(r)
    PROVE  IssuedInv' /\ OutdatedOK' /\ ShownOK'
<1>1. /\ TypeInv /\ TokP!IndInv /\ RunTypeOK /\ StartedKnown
      /\ CommandOK(cmd[r].op, stage[r], answer[r], outcome[r], Applied(r), wasLive[r], consumer[r])
  BY DEF RunInv, TypeInv, CommandsOK
<1>2. stage[r] = "judged" /\ UNCHANGED <<cmd, credential, consumer, outcome, doneBefore>>
  BY DEF Handle
<1>3. ~Applied(r) /\ outcome[r] # "none"
  BY <1>1, <1>2 DEF CommandOK
<1>4. cmd[r] \in Commands
  BY <1>1, <1>3 DEF StartedKnown
<1>5. TokenMove(r, cmd[r]) /\ Effect(r, cmd[r])
  BY <1>1, <1>4, HandleMoves, HandleEffect
<1>6. IssuedInv' /\ [TokP!Next]_tokenVars
  BY <1>5 DEF TokenMove
<1>7. \A q \in Requests \ {r} : stage'[q] = stage[q] /\ answer'[q] = answer[q]
  BY <1>1, <1>5 DEF Effect, RunTypeOK
<1>8. applied' = applied \/ applied' = Append(applied, r)
  BY <1>5 DEF Effect
<1>9. /\ \A q : Applied(q)' => Applied(q) \/ q = r
      /\ \A p, q : AppliedAfter(p, q) => AppliedAfter(p, q)'
      /\ applied' = Append(applied, r) => \A p : Applied(p) => AppliedAfter(p, r)'
      /\ Applied(r)' => applied' = Append(applied, r)
  <2>1. applied \in Seq(Requests)
    BY <1>1 DEF RunTypeOK
  <2>2. CASE applied' = applied
    <3>1. /\ \A q : Applied(q)' <=> Applied(q)
          /\ \A p, q : AppliedAfter(p, q)' <=> AppliedAfter(p, q)
      BY <2>2 DEF Applied, AppliedAfter
    <3>2. applied' # Append(applied, r)
      BY <2>1, <2>2
    <3> QED BY <1>3, <3>1, <3>2
  <2>3. CASE applied' = Append(applied, r)
    BY <2>1, <2>3, AppliedGrows
  <2> QED BY <1>8, <2>2, <2>3
<1>10. OutdatedOK'
  <2>1. \A v \in drawn : v \in drawn' /\ (~Tok!Accepted(v) => ~Tok!Accepted(v)')
    BY <1>1, <1>6, KeepDead
  <2>2. \A v : v \notin outdated[r]
    BY <1>2 DEF OutdatedOK
  <2>3. ASSUME NEW q \in Requests \ {r}, NEW v \in outdated[q]
        PROVE  /\ stage'[q] = "answered" /\ cmd'[q].op \in EndOps /\ v \in drawn'
               /\ Applied(q)' => ~Tok!Accepted(v)'
    <3>1. /\ stage[q] = "answered" /\ cmd[q].op \in EndOps /\ v \in drawn
          /\ Applied(q) => ~Tok!Accepted(v)
      BY <2>3 DEF OutdatedOK
    <3> QED BY <1>2, <1>7, <1>9, <2>1, <3>1
  <2>4. CASE outdated' = outdated
    BY <2>2, <2>3, <2>4 DEF OutdatedOK, Requests
  <2>5. CASE /\ cmd[r].op \in EndOps
             /\ outdated' = [outdated EXCEPT ![r] = {v \in RandomSuffixes : issuedUnder[v] = cmd[r].id}]
             /\ applied' = Append(applied, r) =>
                   \A v \in RandomSuffixes : issuedUnder[v] = cmd[r].id => ~Tok!Accepted(v)'
    <3>1. /\ outdated'[r] = {v \in RandomSuffixes : issuedUnder[v] = cmd[r].id}
          /\ \A q \in Requests \ {r} : outdated'[q] = outdated[q]
      BY <1>1, <2>5 DEF RunTypeOK
    <3>2. stage'[r] = "answered"
      <4>1. cmd[r].op # "consumer add"
        BY <2>5 DEF EndOps
      <4>2. stage' = [stage EXCEPT ![r] = "answered"]
        BY <1>5, <4>1 DEF Effect
      <4> QED BY <1>1, <4>2 DEF RunTypeOK
    <3>3. cmd[r].id # Absent
      BY <1>4, <2>5, Asked, AbsentTokenAssumption DEF EndOps
    <3>4. ASSUME NEW v \in outdated'[r]
          PROVE  v \in drawn' /\ (Applied(r)' => ~Tok!Accepted(v)')
      <4>1. v \in RandomSuffixes /\ issuedUnder[v] = cmd[r].id
        BY <3>1, <3>4
      <4>2. v \in drawn
        BY <3>3, <4>1 DEF IssuedInv
      <4> QED BY <1>9, <2>1, <2>5, <4>1, <4>2
    <3>5. ASSUME NEW q \in Requests, NEW v \in outdated'[q]
          PROVE  /\ stage'[q] = "answered" /\ cmd'[q].op \in EndOps /\ v \in drawn'
                 /\ Applied(q)' => ~Tok!Accepted(v)'
      <4>1. CASE q = r
        BY <1>2, <2>5, <3>2, <3>4, <3>5, <4>1
      <4>2. CASE q # r
        BY <2>3, <3>1, <3>5, <4>2
      <4> QED BY <4>1, <4>2
    <3> QED BY <3>5 DEF OutdatedOK, Requests
  <2> QED BY <1>5, <2>4, <2>5 DEF TokenMove
<1>11. ShownOK'
  <2> SUFFICES ASSUME NEW q \in Requests, stage'[q] = "answered", answer'[q].status \in Success,
                      cmd'[q].op \in {"token create", "token rotate"}
               PROVE  \/ HoldsIn(answer'[q].shown, consumerTokens')
                      \/ \E p \in Requests :
                            /\ AppliedAfter(q, p)' /\ cmd'[p].op \in EndOps
                            /\ cmd'[p].id = answer'[q].shown.id
    BY DEF ShownOK, Requests
  <2>1. CASE q = r
    BY <1>2, <1>5, <2>1 DEF TokenMove
  <2>2. CASE q # r
    <3>1. stage[q] = "answered" /\ answer'[q] = answer[q] /\ cmd' = cmd
      BY <1>2, <1>7, <2>2
    <3>2. Applied(q)
      <4>1. CommandOK(cmd[q].op, stage[q], answer[q], outcome[q], Applied(q), wasLive[q], consumer[q])
        BY DEF RunInv, CommandsOK
      <4>2. cmd[q].op # "get"
        BY <3>1
      <4> QED BY <3>1, <4>1, <4>2 DEF CommandOK
    <3>3. CASE HoldsIn(answer[q].shown, consumerTokens)
      <4> DEFINE j == answer[q].shown.id
      <4>1. j \in RandomSuffixes /\ consumerTokens[j] # Absent
        BY <3>3, AbsentTokenAssumption DEF HoldsIn
      <4>2. CASE consumerTokens'[j] = consumerTokens[j]
        <5>1. HoldsIn(answer[q].shown, consumerTokens')
          BY <3>3, <4>2 DEF HoldsIn
        <5> QED BY <3>1, <5>1
      <4>3. CASE cmd[r].op \in EndOps /\ cmd[r].id = j /\ applied' = Append(applied, r)
        <5>1. AppliedAfter(q, r)'
          BY <1>9, <3>2, <4>3
        <5> QED BY <3>1, <4>3, <5>1
      <4> HIDE DEF j
      <4> QED BY <1>5, <4>1, <4>2, <4>3 DEF TokenMove
    <3>4. CASE \E p \in Requests : /\ AppliedAfter(q, p) /\ cmd[p].op \in EndOps
                                   /\ cmd[p].id = answer[q].shown.id
      BY <1>9, <3>1, <3>4
    <3> QED BY <3>1, <3>3, <3>4 DEF ShownOK
  <2> QED BY <2>1, <2>2
<1> QED BY <1>6, <1>10, <1>11

\* The commands that do not move keep their part of EndedOK.
LEMMA EndedOthers ==
    ASSUME EndedOK, NEW r,
           \A q \in Requests : outcome[q] = "done" => outcome'[q] = "done" /\ outdated'[q] = outdated[q],
           doneBefore \in [Requests -> SUBSET Requests],
           \A s \in Requests \ {r} :
              /\ doneBefore'[s] = doneBefore[s] /\ credential'[s] = credential[s]
              /\ stage'[s] = stage[s] /\ answer'[s] = answer[s],
           EndedFor(r)'
    PROVE  EndedOK'
<1>1. ASSUME NEW s \in Requests, s # r
      PROVE  EndedFor(s)'
  <2>1. EndedFor(s) /\ doneBefore[s] \subseteq Requests
    BY DEF EndedOK
  <2>2. ASSUME NEW q \in doneBefore'[s]
        PROVE  /\ outcome'[q] = "done"
               /\ credential'[s] \in outdated'[q] =>
                     stage'[s] \notin {"judged", "added"} /\ answer'[s].status \in {0, 401}
    <3>1. q \in doneBefore[s] /\ q \in Requests
      BY <1>1, <2>1, <2>2
    <3>2. outcome[q] = "done"
      BY <2>1, <3>1 DEF EndedFor
    <3> QED BY <1>1, <2>1, <3>1, <3>2 DEF EndedFor
  <2> QED BY <2>2 DEF EndedFor
<1> QED BY <1>1 DEF EndedOK, Requests

\* A command starts: the commands that had exited with 0 are remembered.
LEMMA BeginEnds ==
    ASSUME RunInv, EndInv, NEW r \in Requests, Begin(r)
    PROVE  EndInv'
<1>1. /\ RunTypeOK
      /\ CommandOK(cmd[r].op, stage[r], answer[r], outcome[r], Applied(r), wasLive[r], consumer[r])
  BY DEF RunInv, TypeInv, CommandsOK
<1>2. PICK c \in Ask, token \in Opt(RandomSuffixes), consumerToken \in Opt(RandomSuffixes) :
         /\ <<token, consumerToken>> \in Configured
         /\ cmd' = [cmd EXCEPT ![r] = c]
         /\ doneBefore' = [doneBefore EXCEPT ![r] = {q \in Requests : outcome[q] = "done"}]
         /\ \/ /\ UsageError(c, token)
               /\ outcome' = [outcome EXCEPT ![r] = "usage"]
               /\ UNCHANGED <<stage, credential>>
            \/ /\ ~UsageError(c, token)
               /\ outcome' = [outcome EXCEPT ![r] = "running"]
               /\ stage' = [stage EXCEPT ![r] = "sent"]
               /\ credential' = [credential EXCEPT ![r] = Bearer(c, token, consumerToken)]
  BY Zenon DEF Begin
<1>3. /\ UNCHANGED <<tokenVars, answer, applied, issuedUnder, outdated>>
      /\ outcome[r] = "none"
  BY DEF Begin
<1>4. stage[r] = "unsent" /\ ~Applied(r) /\ answer[r] = NoAnswer
  BY <1>1, <1>3 DEF CommandOK
<1>5. /\ stage'[r] \in {"unsent", "sent"}
      /\ \A q \in Requests \ {r} : /\ cmd'[q] = cmd[q] /\ stage'[q] = stage[q]
                                   /\ outcome'[q] = outcome[q] /\ credential'[q] = credential[q]
                                   /\ doneBefore'[q] = doneBefore[q]
      /\ doneBefore'[r] = {q \in Requests : outcome[q] = "done"}
  BY <1>1, <1>2, <1>4 DEF RunTypeOK
<1>6. Quiet
  <2>1. UNCHANGED <<tokens, consumerTokens, consumerTokenValues, drawn, applied,
                    issuedUnder, outdated>> /\ [TokP!Next]_tokenVars
    BY <1>3 DEF tokenVars
  <2>2. ASSUME NEW q \in Requests
        PROVE  /\ stage[q] = "answered" => stage'[q] = "answered" /\ answer'[q] = answer[q]
               /\ stage[q] = "answered" \/ Applied(q) => cmd'[q] = cmd[q]
               /\ stage[q] # "answered" => stage'[q] # "answered"
    BY <1>3, <1>4, <1>5
  <2> QED BY <2>1, <2>2 DEF Quiet
<1>7. IssuedInv' /\ OutdatedOK' /\ ShownOK'
  BY <1>6, QuietKeeps DEF EndInv
<1>8. EndedOK'
  <2>1. \A q \in Requests : outcome[q] = "done" => outcome'[q] = "done" /\ outdated'[q] = outdated[q]
    BY <1>3, <1>5
  <2>2. answer'[r].status = 0
    <3>1. NoAnswer.status = 0
      BY DEF NoAnswer
    <3> QED BY <1>3, <1>4, <3>1
  <2>3. EndedFor(r)'
    BY <1>5, <2>1, <2>2 DEF EndedFor
  <2>4. doneBefore \in [Requests -> SUBSET Requests]
    BY <1>1 DEF RunTypeOK
  <2> QED BY <1>3, <1>5, <2>1, <2>3, <2>4, EndedOthers DEF EndInv
<1> QED BY <1>7, <1>8 DEF EndInv

\* The process ends, or its request is lost.
LEMMA LeaveEnds ==
    ASSUME RunInv, EndInv, NEW r \in Requests,
           Receive(r) \/ LoseAnswer(r) \/ Interrupt(r) \/ Drop(r)
    PROVE  EndInv'
<1>1. RunTypeOK
  BY DEF RunInv, TypeInv
<1>2. UNCHANGED <<tokenVars, cmd, credential, answer, applied, doneBefore, issuedUnder, outdated>>
  BY DEF Receive, LoseAnswer, Interrupt, Leave, Drop
<1>3. \/ outcome[r] = "running" /\ (\E o : outcome' = [outcome EXCEPT ![r] = o]) /\ stage' = stage
      \/ /\ stage[r] = "sent" /\ stage' = [stage EXCEPT ![r] = "dropped"] /\ outcome' = outcome
  BY DEF Receive, LoseAnswer, Interrupt, Leave, Drop
<1>4. /\ \A q \in Requests : outcome[q] = "done" => outcome'[q] = "done"
      /\ \A q \in Requests \ {r} : stage'[q] = stage[q]
      /\ stage'[r] = stage[r] \/ (stage[r] = "sent" /\ stage'[r] = "dropped")
  <2>1. stage \in [Requests -> Stages] /\ outcome \in [Requests -> Outcomes]
    BY <1>1 DEF RunTypeOK, Stages
  <2>2. ASSUME outcome[r] = "running", NEW o, outcome' = [outcome EXCEPT ![r] = o], stage' = stage
        PROVE  \A q \in Requests : outcome[q] = "done" => outcome'[q] = "done"
    BY <2>1, <2>2
  <2>3. CASE stage[r] = "sent" /\ stage' = [stage EXCEPT ![r] = "dropped"] /\ outcome' = outcome
    BY <2>1, <2>3
  <2> QED BY <1>3, <2>2, <2>3
<1>5. Quiet
  <2>1. UNCHANGED <<tokens, consumerTokens, consumerTokenValues, drawn, applied,
                    issuedUnder, outdated>> /\ [TokP!Next]_tokenVars
    BY <1>2 DEF tokenVars
  <2>2. ASSUME NEW q \in Requests
        PROVE  /\ stage[q] = "answered" => stage'[q] = "answered" /\ answer'[q] = answer[q]
               /\ stage[q] = "answered" \/ Applied(q) => cmd'[q] = cmd[q]
               /\ stage[q] # "answered" => stage'[q] # "answered"
    BY <1>2, <1>4
  <2> QED BY <2>1, <2>2 DEF Quiet
<1>6. IssuedInv' /\ OutdatedOK' /\ ShownOK'
  BY <1>5, QuietKeeps DEF EndInv
<1>7. EndedOK'
  <2>1. EndedFor(r)
    BY DEF EndInv, EndedOK
  <2>2. EndedFor(r)'
    <3>1. ASSUME NEW q \in doneBefore'[r]
          PROVE  /\ outcome'[q] = "done"
                 /\ credential'[r] \in outdated'[q] =>
                       stage'[r] \notin {"judged", "added"} /\ answer'[r].status \in {0, 401}
      <4>1. q \in doneBefore[r] /\ q \in Requests
        BY <1>1, <1>2, <3>1 DEF RunTypeOK
      <4> QED BY <1>2, <1>4, <2>1, <4>1 DEF EndedFor
    <3> QED BY <3>1 DEF EndedFor
  <2>3. doneBefore \in [Requests -> SUBSET Requests]
    BY <1>1 DEF RunTypeOK
  <2> QED BY <1>2, <1>4, <2>2, <2>3, EndedOthers DEF EndInv
<1> QED BY <1>6, <1>7 DEF EndInv

\* Answering one request leaves the others as they are, and so does judging.
LEMMA AnswerOthers ==
    ASSUME RunTypeOK, NEW r, NEW status, NEW reason, NEW shown, Answer(r, status, reason, shown)
    PROVE  \A q \in Requests \ {r} : stage'[q] = stage[q] /\ answer'[q] = answer[q]
<1> DEFINE a == [status |-> status, reason |-> reason, shown |-> shown]
<1>1. stage' = [stage EXCEPT ![r] = "answered"] /\ answer' = [answer EXCEPT ![r] = a]
  BY DEF Answer
<1> HIDE DEF a
<1> QED BY <1>1 DEF RunTypeOK

LEMMA JudgeOthers ==
    ASSUME RunTypeOK, NEW r, Judge(r)
    PROVE  \A q \in Requests \ {r} : stage'[q] = stage[q] /\ answer'[q] = answer[q]
<1> DEFINE status == 401
           reason == ""
<1>1. \/ Answer(r, status, reason, Nil)
      \/ stage' = [stage EXCEPT ![r] = "judged"] /\ answer' = answer
  BY Zenon DEF Judge
<1> HIDE DEF status, reason
<1>2. CASE Answer(r, status, reason, Nil)
  BY <1>2, AnswerOthers
<1>3. CASE stage' = [stage EXCEPT ![r] = "judged"] /\ answer' = answer
  BY <1>3 DEF RunTypeOK
<1> QED BY <1>1, <1>2, <1>3

\* A credential that a finished command has ended is not let through.
LEMMA JudgeEnds ==
    ASSUME RunInv, EndInv, NEW r \in Requests, Judge(r)
    PROVE  EndInv'
<1>1. RunTypeOK
  BY DEF RunInv, TypeInv
<1>2. /\ stage[r] = "sent"
      /\ UNCHANGED <<tokenVars, cmd, credential, outcome, applied, doneBefore, issuedUnder, outdated>>
  BY DEF Judge
<1>3. \/ /\ ~Live(r) /\ stage'[r] = "answered" /\ answer'[r].status = 401
      \/ /\ Live(r) /\ stage'[r] = "judged" /\ answer' = answer
  <2> DEFINE status == 401
             reason == ""
             a == [status |-> status, reason |-> reason, shown |-> Nil]
  <2>1. a.status = status
    OBVIOUS
  <2>2. CASE ~Live(r) /\ Answer(r, status, reason, Nil)
    <3>1. stage' = [stage EXCEPT ![r] = "answered"] /\ answer' = [answer EXCEPT ![r] = a]
      BY <2>2 DEF Answer
    <3> HIDE DEF a, reason
    <3>2. stage'[r] = "answered" /\ answer'[r] = a
      BY <1>1, <3>1 DEF RunTypeOK
    <3> QED BY <2>1, <2>2, <3>2
  <2>3. CASE Live(r) /\ stage' = [stage EXCEPT ![r] = "judged"] /\ answer' = answer
    BY <1>1, <2>3 DEF RunTypeOK
  <2> QED BY <2>2, <2>3 DEF Judge
<1>4. \A q \in Requests \ {r} : stage'[q] = stage[q] /\ answer'[q] = answer[q]
  BY <1>1, JudgeOthers
<1>5. Quiet
  <2>1. UNCHANGED <<tokens, consumerTokens, consumerTokenValues, drawn, applied,
                    issuedUnder, outdated>> /\ [TokP!Next]_tokenVars
    BY <1>2 DEF tokenVars
  <2>2. 401 \notin Success
    BY DEF Success
  <2>3. ASSUME NEW q \in Requests
        PROVE  /\ stage[q] = "answered" => stage'[q] = "answered" /\ answer'[q] = answer[q]
               /\ stage[q] = "answered" \/ Applied(q) => cmd'[q] = cmd[q]
               /\ stage[q] # "answered" /\ stage'[q] = "answered" => answer'[q].status \notin Success
    BY <1>2, <1>3, <1>4, <2>2
  <2> QED BY <2>1, <2>3 DEF Quiet
<1>6. IssuedInv' /\ OutdatedOK' /\ ShownOK'
  BY <1>5, QuietKeeps DEF EndInv
<1>7. EndedFor(r)'
  <2>1. EndedFor(r)
    BY DEF EndInv, EndedOK
  <2>2. ASSUME NEW q \in doneBefore'[r]
        PROVE  /\ outcome'[q] = "done"
               /\ credential'[r] \in outdated'[q] =>
                     stage'[r] \notin {"judged", "added"} /\ answer'[r].status \in {0, 401}
    <3>1. q \in doneBefore[r] /\ q \in Requests
      BY <1>1, <1>2, <2>2 DEF RunTypeOK
    <3>2. outcome[q] = "done"
      BY <2>1, <3>1 DEF EndedFor
    <3>3. ASSUME credential[r] \in outdated[q] PROVE ~Live(r)
      <4>1. cmd[q].op \in EndOps /\ (Applied(q) => ~Tok!Accepted(credential[r]))
        BY <3>1, <3>3 DEF EndInv, OutdatedOK
      <4>2. CommandOK(cmd[q].op, stage[q], answer[q], outcome[q], Applied(q), wasLive[q], consumer[q])
        BY <3>1 DEF RunInv, CommandsOK
      <4>3. Applied(q)
        BY <3>2, <4>1, <4>2 DEF CommandOK, EndOps
      <4> QED BY <4>1, <4>3 DEF Live, Tok!Accepted
    <3> QED BY <1>2, <1>3, <3>2, <3>3
  <2> QED BY <2>2 DEF EndedFor
<1>8. EndedOK'
  <2>1. doneBefore \in [Requests -> SUBSET Requests]
    BY <1>1 DEF RunTypeOK
  <2> QED BY <1>2, <1>4, <1>7, <2>1, EndedOthers DEF EndInv
<1> QED BY <1>6, <1>8 DEF EndInv

\* A handler past its judgement does not serve an ended credential.
LEMMA PastJudgement ==
    ASSUME EndedOK, NEW r \in Requests, stage[r] \in {"judged", "added"}
    PROVE  \A q \in doneBefore[r] : outcome[q] = "done" /\ credential[r] \notin outdated[q]
BY DEF EndedOK, EndedFor

LEMMA HandleEnds ==
    ASSUME RunInv, EndInv, NEW r \in Requests, Handle(r)
    PROVE  EndInv'
<1>1. /\ TypeInv /\ RunTypeOK /\ StartedKnown
      /\ CommandOK(cmd[r].op, stage[r], answer[r], outcome[r], Applied(r), wasLive[r], consumer[r])
  BY DEF RunInv, TypeInv, CommandsOK
<1>2. stage[r] = "judged" /\ UNCHANGED <<cmd, credential, consumer, outcome, doneBefore>>
  BY DEF Handle
<1>3. outcome[r] \notin {"none", "done"}
  BY <1>1, <1>2 DEF CommandOK
<1>4. cmd[r] \in Commands
  BY <1>1, <1>3 DEF StartedKnown
<1>5. TokenMove(r, cmd[r]) /\ Effect(r, cmd[r])
  BY <1>1, <1>4, HandleMoves, HandleEffect DEF EndInv
<1>6. \A q \in Requests \ {r} : /\ stage'[q] = stage[q] /\ answer'[q] = answer[q]
                                /\ outdated'[q] = outdated[q]
  <2>1. \A q \in Requests \ {r} : stage'[q] = stage[q] /\ answer'[q] = answer[q]
    BY <1>1, <1>5 DEF Effect, RunTypeOK
  <2>2. \A q \in Requests \ {r} : outdated'[q] = outdated[q]
    BY <1>1, <1>5 DEF TokenMove, RunTypeOK
  <2> QED BY <2>1, <2>2
<1>7. \A q \in doneBefore[r] : q \in Requests /\ q # r /\ outcome[q] = "done"
                               /\ credential[r] \notin outdated[q]
  BY <1>1, <1>2, <1>3, PastJudgement DEF EndInv, RunTypeOK
<1>8. EndedFor(r)'
  BY <1>2, <1>6, <1>7 DEF EndedFor
<1>9. EndedOK'
  <2>1. doneBefore \in [Requests -> SUBSET Requests]
    BY <1>1 DEF RunTypeOK
  <2>2. \A q \in Requests : outcome[q] = "done" => outcome'[q] = "done" /\ outdated'[q] = outdated[q]
    BY <1>2, <1>3, <1>6
  <2> QED BY <1>2, <1>6, <1>8, <2>1, <2>2, EndedOthers DEF EndInv
<1> QED BY <1>9, HandleKeeps DEF EndInv

\* The second half of handleAddConsumer.
LEMMA EntryEnds ==
    ASSUME RunInv, EndInv, NEW r \in Requests, consumerEntryLocked(r)
    PROVE  EndInv'
<1>1. /\ RunTypeOK
      /\ CommandOK(cmd[r].op, stage[r], answer[r], outcome[r], Applied(r), wasLive[r], consumer[r])
  BY DEF RunInv, TypeInv, CommandsOK
<1>2. /\ stage[r] = "added"
      /\ UNCHANGED <<tokenVars, cmd, credential, outcome, applied, doneBefore, issuedUnder, outdated>>
  BY DEF consumerEntryLocked
<1>3. \A q \in Requests \ {r} : stage'[q] = stage[q] /\ answer'[q] = answer[q]
  BY <1>1 DEF consumerEntryLocked, Answer, RunTypeOK
<1>4. cmd[r].op = "consumer add"
  BY <1>1, <1>2 DEF CommandOK
<1>5. Quiet
  <2>1. UNCHANGED <<tokens, consumerTokens, consumerTokenValues, drawn, applied,
                    issuedUnder, outdated>> /\ [TokP!Next]_tokenVars
    BY <1>2 DEF tokenVars
  <2>2. ASSUME NEW q \in Requests
        PROVE  /\ stage[q] = "answered" => stage'[q] = "answered" /\ answer'[q] = answer[q]
               /\ stage[q] = "answered" \/ Applied(q) => cmd'[q] = cmd[q]
               /\ stage[q] # "answered" /\ stage'[q] = "answered" =>
                     cmd'[q].op \notin {"token create", "token rotate"}
    BY <1>2, <1>3, <1>4
  <2> QED BY <2>1, <2>2 DEF Quiet
<1>6. IssuedInv' /\ OutdatedOK' /\ ShownOK'
  BY <1>5, QuietKeeps DEF EndInv
<1>7. EndedFor(r)'
  BY <1>2, PastJudgement DEF EndInv, EndedFor
<1>8. EndedOK'
  <2>1. doneBefore \in [Requests -> SUBSET Requests]
    BY <1>1 DEF RunTypeOK
  <2> QED BY <1>2, <1>3, <1>7, <2>1, EndedOthers DEF EndInv
<1> QED BY <1>6, <1>8 DEF EndInv

\* Whatever tokens there are, nothing was ended or shown by a command yet.
LEMMA StartEnds == TokP!IndInv /\ TokP!TablesApart /\ NothingRun => EndInv
<1> SUFFICES ASSUME TokP!IndInv, TokP!TablesApart, NothingRun PROVE EndInv
  OBVIOUS
<1>1. issuedUnder = consumerTokenValues
  BY DEF NothingRun
<1>2. \A v \in RandomSuffixes : consumerTokenValues[v] # Absent => v \in drawn /\ tokens[v] = Absent
  BY DEF TokP!IndInv, TokP!UndrawnUnused, TokP!TablesApart
<1>3. IssuedInv
  BY <1>1, <1>2 DEF IssuedInv
<1>4. \A q \in Requests : outdated[q] = {} /\ doneBefore[q] = {} /\ stage[q] = "unsent"
  BY DEF NothingRun
<1>5. OutdatedOK /\ EndedOK /\ ShownOK
  <2>1. OutdatedOK
    BY <1>4 DEF OutdatedOK
  <2>2. EndedOK
    BY <1>4 DEF EndedOK, EndedFor
  <2>3. ShownOK
    BY <1>4 DEF ShownOK
  <2> QED BY <2>1, <2>2, <2>3
<1> QED BY <1>3, <1>5 DEF EndInv

\* The server starts with one write token and one consumer token.
LEMMA RunInitApart == TokensBefore => TokP!TablesApart
<1> SUFFICES ASSUME TokensBefore, NEW v \in RandomSuffixes, consumerTokenValues[v] # Absent
             PROVE  tokens[v] = Absent
  BY DEF TokP!TablesApart
<1>1. v = TokenValue
  BY DEF TokensBefore
<1>2. v # WriteToken
  BY <1>1, CredentialsAssumption
<1> QED BY <1>2 DEF TokensBefore

LEMMA InitEnds == RunInit => EndInv
BY RunInitTokens, RunInitApart, StartEnds DEF RunInit

\* A step of the clock, or no step.
LEMMA IdleEnds ==
    ASSUME RunInv, EndInv, [TokP!Next]_tokenVars,
           UNCHANGED <<tokens, consumerTokens, consumerTokenValues, drawn,
                       cmd, credential, stage, answer, outcome, applied, doneBefore,
                       issuedUnder, outdated>>
    PROVE  EndInv'
<1>1. Quiet
  BY DEF Quiet
<1>2. IssuedInv' /\ OutdatedOK' /\ ShownOK'
  BY <1>1, QuietKeeps DEF EndInv
<1>3. EndedOK'
  BY DEF EndInv, EndedOK, EndedFor
<1> QED BY <1>2, <1>3 DEF EndInv

\* Every step keeps the invariant.
LEMMA NextEndInv == RunInv /\ EndInv /\ [RunNext]_allVars => EndInv'
<1> SUFFICES ASSUME RunInv, EndInv, [RunNext]_allVars PROVE EndInv'
  OBVIOUS
<1>1. ASSUME UNCHANGED <<tokenVars, cmd, credential, stage, answer, outcome, applied,
                         doneBefore, issuedUnder, outdated>>
      PROVE  EndInv'
  <2>1. /\ UNCHANGED <<tokens, consumerTokens, consumerTokenValues, drawn>>
        /\ [TokP!Next]_tokenVars
    BY <1>1 DEF tokenVars
  <2> QED BY <1>1, <2>1, IdleEnds
<1>2. CASE UNCHANGED allVars \/ Over
  BY <1>1, <1>2 DEF Over, allVars, history
<1>3. CASE Tick
  <2>1. TokP!Tick /\ UNCHANGED <<cmd, credential, stage, answer, outcome,
                                 applied, doneBefore, issuedUnder, outdated>>
    BY <1>3, SameTokens DEF Tick
  <2>2. /\ UNCHANGED <<tokens, consumerTokens, consumerTokenValues, drawn>>
        /\ [TokP!Next]_tokenVars
    BY <2>1 DEF TokP!Tick, TokP!Next
  <2> QED BY <2>1, <2>2, IdleEnds
<1>4. ASSUME NEW r \in Requests,
             \/ Begin(r) \/ Receive(r) \/ LoseAnswer(r) \/ Interrupt(r) \/ Drop(r)
             \/ Judge(r) \/ Handle(r) \/ consumerEntryLocked(r)
      PROVE  EndInv'
  BY <1>4, BeginEnds, LeaveEnds, JudgeEnds, HandleEnds, EntryEnds
<1> QED BY <1>2, <1>3, <1>4 DEF RunNext

\* The invariant of the ended tokens and the shown values.
THEOREM EndInvariance == RunSpec => [](RunInv /\ EndInv)
<1>1. RunInit => RunInv /\ EndInv
  BY InitRunInv, InitEnds
<1>2. RunInv /\ EndInv /\ [RunNext]_allVars => (RunInv /\ EndInv)'
  BY NextRunInv, NextEndInv
<1> QED BY <1>1, <1>2, PTL DEF RunSpec

LEMMA InvReadsNothing == RunInv /\ EndInv => EndedTokenReadsNothing
<1> SUFFICES ASSUME RunInv, EndInv, NEW q \in Requests, NEW r \in Requests,
                    q \in doneBefore[r], credential[r] \in outdated[q]
             PROVE  answer[r].status \in {0, 401}
  BY DEF EndedTokenReadsNothing
<1> QED BY DEF EndInv, EndedOK, EndedFor

\* Once rotate, revoke or purge has exited with 0, a command begun with a
\* value the token had before is refused: what stopped being accepted is
\* never accepted again, and the refusal comes from a later judgement.
THEOREM EndedTokensReadNothing == RunSpec => []EndedTokenReadsNothing
<1>1. RunInv /\ EndInv => EndedTokenReadsNothing
  BY InvReadsNothing
<1> QED BY <1>1, EndInvariance, PTL

\* A shown record is found by its value.
LEMMA InvShownWorks == RunInv /\ EndInv => ShownTokenWorks
<1> SUFFICES ASSUME RunInv, EndInv, NEW r \in Requests, outcome[r] = "done",
                    cmd[r].op \in {"token create", "token rotate"},
                    ~(now > answer[r].shown.expiresAt)
             PROVE  \/ \E q \in Requests :
                          /\ AppliedAfter(r, q)
                          /\ cmd[q].op \in {"token rotate", "token revoke", "token purge"}
                          /\ cmd[q].id = answer[r].shown.id
                    \/ Tok!consumerForToken(answer[r].shown.value)
  BY DEF ShownTokenWorks
<1>1. stage[r] = "answered" /\ answer[r].status \in Success
  BY DEF RunInv, CommandsOK, CommandOK
<1>2. CASE \E q \in Requests : /\ AppliedAfter(r, q) /\ cmd[q].op \in EndOps
                               /\ cmd[q].id = answer[r].shown.id
  BY <1>2 DEF EndOps
<1>3. CASE HoldsIn(answer[r].shown, consumerTokens)
  <2> DEFINE i == answer[r].shown.id
             v == answer[r].shown.value
  <2>1. /\ i \in RandomSuffixes /\ consumerTokens[i] # Absent /\ consumerTokens[i].value = v
        /\ ~consumerTokens[i].revoked /\ ~(now > consumerTokens[i].expiresAt)
    BY <1>3, AbsentTokenAssumption DEF HoldsIn
  <2> HIDE DEF i, v
  <2>2. consumerTokenValues[v] = i
    BY <2>1 DEF RunInv, TypeInv, TokP!IndInv, TokP!LookupMatchesRecords
  <2>3. Tok!consumerForToken(v)
    BY <2>1, <2>2, AbsentTokenAssumption DEF Tok!consumerForToken
  <2> QED BY <2>3 DEF v
<1> QED BY <1>1, <1>2, <1>3 DEF EndInv, ShownOK

\* The value create and rotate print is good until it expires or a command
\* that took effect later ends it: a record changes only by such a command,
\* and the lookup is in step with the records.
THEOREM ShownTokensWork == RunSpec => []ShownTokenWorks
<1>1. RunInv /\ EndInv => ShownTokenWorks
  BY InvShownWorks
<1> QED BY <1>1, EndInvariance, PTL

-----------------------------------------------------------------------------
(* The entry that add shows.                                               *)

\* The command changes the directory's entry of this name.
Touches(c, name) ==
    \/ c.op = "consumer delete" /\ name = c.name
    \/ c.op = "consumer update" /\ name \in {c.name, c.newName}

TouchedAfter(q) ==
    \E p \in Requests : AppliedAfter(q, p) /\ Touches(cmd[p], cmd[q].name)

FreshEntry == [listed |-> TRUE, publicKey |-> Nil]

\* What an add has stored is there until somebody touches it, and shown.
AddedFor(q) ==
    cmd[q].op = "consumer add" =>
        /\ stage[q] = "added" => consumers[cmd[q].name] = Nil \/ TouchedAfter(q)
        /\ stage[q] = "answered" /\ answer[q].status \in Success =>
              answer[q].shown = FreshEntry \/ TouchedAfter(q)

AddedOK == \A q \in Requests : AddedFor(q)

\* What a handler does to a fresh entry.
LEMMA AddMoves ==
    ASSUME TypeInv, NEW r \in Requests, NEW c \in Commands, handleAddConsumer(r, c)
    PROVE  /\ \A n \in Consumers : consumers[n] = Nil => consumers'[n] = Nil
           /\ \/ stage'[r] = "added" /\ consumers'[c.name] = Nil
              \/ stage'[r] = "answered" /\ answer'[r].status \notin Success
<1>1. /\ c.op = "consumer add" /\ c.name \in Consumers /\ AddConsumer(c.name)
      /\ consumers \in [Consumers -> Keys \cup {Nil, Absent}] /\ RunTypeOK
  BY Asked DEF handleAddConsumer, TypeInv, IndInv, TypeOK
<1> DEFINE name == c.name
<1>2. name \in Consumers /\ AddConsumer(name)
  BY <1>1
<1>3. reply' \in Replies
  BY <1>2, AddConsumerIndInv DEF TypeInv, IndInv, TypeOK
<1> HIDE DEF name
<1>4. \A n \in Consumers : consumers[n] = Nil => consumers'[n] = Nil
  BY <1>1, <1>2 DEF AddConsumer, Refuse
<1>5. reply' = "ok" => consumers'[name] = Nil
  BY <1>1, <1>2 DEF AddConsumer, Refuse
<1>6. CASE reply' # "ok" /\ AnswerReply(r)
  <2> DEFINE status == StatusOf(reply')
             a == [status |-> status, reason |-> reply', shown |-> Nil]
  <2>1. status \notin Success
    BY <1>3, <1>6, StatusIsSuccess
  <2>2. stage' = [stage EXCEPT ![r] = "answered"] /\ answer' = [answer EXCEPT ![r] = a]
    BY <1>6 DEF AnswerReply, Answer
  <2> HIDE DEF status
  <2>3. a.status = status
    OBVIOUS
  <2> HIDE DEF a
  <2>4. stage'[r] = "answered" /\ answer'[r] = a
    BY <1>1, <2>2 DEF RunTypeOK
  <2> QED BY <1>4, <2>1, <2>3, <2>4
<1>7. CASE reply' = "ok" /\ stage' = [stage EXCEPT ![r] = "added"]
  <2>1. stage'[r] = "added"
    BY <1>1, <1>7 DEF RunTypeOK
  <2> QED BY <1>4, <1>5, <1>7, <2>1 DEF name
<1> QED BY <1>6, <1>7 DEF handleAddConsumer

LEMMA DirectoryMoves ==
    ASSUME TypeInv, NEW r \in Requests, Handle(r), cmd[r] \in Commands
    PROVE  \A n \in Consumers : consumers[n] = Nil =>
              consumers'[n] = Nil \/ (Touches(cmd[r], n) /\ applied' = Append(applied, r))
<1> DEFINE c == cmd[r]
<1>1. c \in Commands /\ (StoreHandler(r, c) \/ TokenHandler(r, c))
  BY DEF Handle
<1>2. consumers \in [Consumers -> Keys \cup {Nil, Absent}]
  BY DEF TypeInv, IndInv, TypeOK
<1> HIDE DEF c
<1> SUFFICES ASSUME NEW n \in Consumers, consumers[n] = Nil
             PROVE  consumers'[n] = Nil \/ (Touches(c, n) /\ applied' = Append(applied, r))
  BY DEF c
<1>3. CASE TokenHandler(r, c)
  BY <1>3 DEF TokenHandler, vars
<1>4. CASE handleAddConsumer(r, c)
  BY <1>1, <1>4, AddMoves
<1>5. CASE handleUpdateConsumer(r, c)
  <2> DEFINE name == c.name
             newName == c.newName
             key == c.publicKey
             target == Given(newName, name)
  <2>1. /\ c.op = "consumer update" /\ UpdateConsumer(name, newName, key)
        /\ name \in Consumers /\ newName \in Opt(Consumers)
        /\ Take(r, reply' = "ok")
    BY <1>1, <1>5, Asked DEF handleUpdateConsumer, AnswerReply
  <2>2. n \in {name, newName} => Touches(c, n)
    BY <2>1 DEF Touches
  <2>3. target \in {name, newName}
    BY DEF Given
  <2> HIDE DEF name, newName, key, target
  <2>4. reply' # "ok" => consumers' = consumers
    BY <2>1 DEF UpdateConsumer, Refuse
  <2>5. n # name /\ n # target => consumers'[n] = consumers[n]
    <3> DEFINE moved == [consumers EXCEPT ![name] = Absent, ![target] = MergedKey(name, target)]
    <3>1. CASE consumers' = consumers
      BY <3>1
    <3>2. CASE consumers' = [consumers EXCEPT ![name] = key]
      BY <1>2, <3>2
    <3>3. CASE consumers' = [moved EXCEPT ![target] = Given(key, @)]
      BY <1>2, <3>3
    <3>4. \/ consumers' = consumers \/ consumers' = [consumers EXCEPT ![name] = key]
          \/ consumers' = [moved EXCEPT ![target] = Given(key, @)]
      BY <2>1 DEF UpdateConsumer, Refuse, target
    <3> QED BY <3>1, <3>2, <3>3, <3>4
  <2>6. reply' = "ok" => applied' = Append(applied, r)
    BY <2>1 DEF Take
  <2> QED BY <2>2, <2>3, <2>4, <2>5, <2>6
<1>6. CASE handleDeleteConsumer(r, c)
  <2> DEFINE name == c.name
  <2>1. /\ c.op = "consumer delete" /\ DeleteConsumer(name) /\ name \in Consumers
        /\ Take(r, reply' = "ok")
    BY <1>1, <1>6, Asked DEF handleDeleteConsumer, AnswerReply
  <2>2. n = name => Touches(c, n)
    BY <2>1 DEF Touches
  <2> HIDE DEF name
  <2>3. reply' # "ok" => consumers' = consumers
    BY <2>1 DEF DeleteConsumer, Refuse
  <2>4. n # name => consumers'[n] = consumers[n]
    BY <1>2, <2>1 DEF DeleteConsumer, Refuse
  <2>5. reply' = "ok" => applied' = Append(applied, r)
    BY <2>1 DEF Take
  <2> QED BY <2>2, <2>3, <2>4, <2>5
<1>7. CASE handleGetObject(r, c)
  BY <1>7 DEF handleGetObject, vars
<1>8. CASE handlePatchObject(r, c)
  BY <1>8 DEF handlePatchObject, patchVariant, Refuse, vars
<1>9. CASE handleDeleteObject(r, c)
  BY <1>9 DEF handleDeleteObject, deleteVariant, Refuse
<1> QED BY <1>1, <1>3, <1>4, <1>5, <1>6, <1>7, <1>8, <1>9 DEF StoreHandler

\* The other commands keep their part.
LEMMA AddedOthers ==
    ASSUME RunInv, AddedOK, NEW r \in Requests,
           \A q \in Requests \ {r} : /\ stage'[q] = stage[q] /\ answer'[q] = answer[q]
                                     /\ cmd'[q] = cmd[q],
           Applied(r) => cmd'[r] = cmd[r],
           \/ applied' = applied /\ \A n \in Consumers : consumers[n] = Nil => consumers'[n] = Nil
           \/ /\ applied' = Append(applied, r)
              /\ \A n \in Consumers : consumers[n] = Nil =>
                    consumers'[n] = Nil \/ Touches(cmd'[r], n),
           AddedFor(r)'
    PROVE  AddedOK'
<1>1. RunTypeOK /\ StartedKnown /\ applied \in Seq(Requests)
  BY DEF RunInv, TypeInv, RunTypeOK
<1>2. /\ \A p, q : AppliedAfter(p, q) => AppliedAfter(p, q)'
      /\ applied' = Append(applied, r) => \A p : Applied(p) => AppliedAfter(p, r)'
  <2>1. CASE applied' = applied
    <3>1. \A p, q : AppliedAfter(p, q)' <=> AppliedAfter(p, q)
      BY <2>1 DEF AppliedAfter
    <3>2. applied' # Append(applied, r)
      BY <1>1, <2>1
    <3> QED BY <3>1, <3>2
  <2>2. CASE applied' = Append(applied, r)
    BY <1>1, <2>2, AppliedGrows
  <2> QED BY <2>1, <2>2
<1>3. ASSUME NEW q \in Requests, q # r PROVE AddedFor(q)'
  <2>1. stage'[q] = stage[q] /\ answer'[q] = answer[q] /\ cmd'[q] = cmd[q]
    BY <1>3
  <2>2. TouchedAfter(q) => TouchedAfter(q)'
    <3>1. ASSUME NEW p \in Requests, AppliedAfter(q, p), Touches(cmd[p], cmd[q].name)
          PROVE  TouchedAfter(q)'
      <4>1. Applied(p)
        BY <3>1 DEF AppliedAfter, Applied
      <4>2. cmd'[p] = cmd[p]
        BY <4>1
      <4>3. AppliedAfter(q, p)' /\ Touches(cmd'[p], cmd'[q].name)
        BY <1>2, <2>1, <3>1, <4>2
      <4> QED BY <4>3 DEF TouchedAfter, Requests, Touches
    <3> QED BY <3>1 DEF TouchedAfter
  <2>3. ASSUME cmd[q].op = "consumer add", stage[q] = "added"
        PROVE  consumers'[cmd[q].name] = Nil \/ TouchedAfter(q)'
    <3>1. CommandOK(cmd[q].op, stage[q], answer[q], outcome[q], Applied(q), wasLive[q], consumer[q])
      BY DEF RunInv, CommandsOK
    <3>2. Applied(q) /\ outcome[q] # "none"
      BY <2>3, <3>1 DEF CommandOK
    <3>3. cmd[q].name \in Consumers
      BY <1>1, <2>3, <3>2, Asked DEF StartedKnown
    <3>4. CASE consumers[cmd[q].name] = Nil
      <4>1. CASE consumers'[cmd[q].name] = Nil
        BY <4>1
      <4>2. CASE applied' = Append(applied, r) /\ Touches(cmd'[r], cmd[q].name)
        <5>1. AppliedAfter(q, r)' /\ Touches(cmd'[r], cmd'[q].name)
          BY <1>2, <2>1, <3>2, <4>2
        <5> QED BY <5>1 DEF TouchedAfter, Requests, Touches
      <4> QED BY <3>3, <3>4, <4>1, <4>2
    <3> QED BY <2>2, <2>3, <3>4 DEF AddedOK, AddedFor
  <2>4. AddedFor(q)
    BY DEF AddedOK
  <2> QED BY <2>1, <2>2, <2>3, <2>4 DEF AddedFor
<1> QED BY <1>3 DEF AddedOK, Requests

\* A step that leaves the directory and what was added alone.
LEMMA AddedRests ==
    ASSUME RunInv, AddedOK, NEW r \in Requests, UNCHANGED <<consumers, applied>>,
           \A q \in Requests \ {r} : /\ stage'[q] = stage[q] /\ answer'[q] = answer[q]
                                     /\ cmd'[q] = cmd[q],
           \/ cmd'[r] = cmd[r] /\ stage'[r] = stage[r] /\ answer'[r] = answer[r]
           \/ stage'[r] \notin {"added", "answered"} /\ (Applied(r) => cmd'[r] = cmd[r])
           \/ stage'[r] = "answered" /\ answer'[r].status \notin Success /\ cmd'[r] = cmd[r]
    PROVE  AddedOK'
<1>1. Applied(r) => cmd'[r] = cmd[r]
  OBVIOUS
<1>2. CASE cmd'[r] = cmd[r] /\ stage'[r] = stage[r] /\ answer'[r] = answer[r]
  <2>1. TouchedAfter(r) => TouchedAfter(r)'
    <3>1. ASSUME NEW p \in Requests, AppliedAfter(r, p), Touches(cmd[p], cmd[r].name)
          PROVE  TouchedAfter(r)'
      <4>1. cmd'[p] = cmd[p] /\ cmd'[r] = cmd[r]
        BY <1>2
      <4>2. AppliedAfter(r, p)'
        BY <3>1 DEF AppliedAfter
      <4>3. Touches(cmd'[p], cmd'[r].name)
        BY <3>1, <4>1
      <4> QED BY <4>2, <4>3 DEF TouchedAfter, Requests, Touches
    <3> QED BY <3>1 DEF TouchedAfter
  <2>2. AddedFor(r)
    BY DEF AddedOK
  <2>3. AddedFor(r)'
    BY <1>2, <2>1, <2>2 DEF AddedFor
  <2> QED BY <1>1, <2>3, AddedOthers
<1>3. CASE stage'[r] \notin {"added", "answered"}
  <2>1. AddedFor(r)'
    BY <1>3 DEF AddedFor
  <2> QED BY <1>1, <2>1, AddedOthers
<1>4. CASE stage'[r] = "answered" /\ answer'[r].status \notin Success
  <2>1. AddedFor(r)'
    BY <1>4 DEF AddedFor
  <2> QED BY <1>1, <2>1, AddedOthers
<1> QED BY <1>2, <1>3, <1>4

LEMMA BeginAdded ==
    ASSUME RunInv, AddedOK, NEW r \in Requests, Begin(r)
    PROVE  AddedOK'
<1>1. /\ RunTypeOK
      /\ CommandOK(cmd[r].op, stage[r], answer[r], outcome[r], Applied(r), wasLive[r], consumer[r])
  BY DEF RunInv, TypeInv, CommandsOK
<1>2. /\ UNCHANGED <<vars, answer, applied>> /\ outcome[r] = "none"
      /\ stage' = stage \/ stage' = [stage EXCEPT ![r] = "sent"]
      /\ \E c : cmd' = [cmd EXCEPT ![r] = c]
  BY DEF Begin
<1>3. stage[r] = "unsent" /\ ~Applied(r)
  BY <1>1, <1>2 DEF CommandOK
<1>4. PICK c : cmd' = [cmd EXCEPT ![r] = c]
  BY <1>2
<1>5. /\ stage'[r] \in {"unsent", "sent"}
      /\ \A q \in Requests \ {r} : cmd'[q] = cmd[q] /\ stage'[q] = stage[q]
  BY <1>1, <1>2, <1>3, <1>4 DEF RunTypeOK
<1> QED BY <1>2, <1>3, <1>5, AddedRests DEF vars

LEMMA LeaveAdded ==
    ASSUME RunInv, AddedOK, NEW r \in Requests,
           Receive(r) \/ LoseAnswer(r) \/ Interrupt(r) \/ Drop(r)
    PROVE  AddedOK'
<1>1. RunTypeOK
  BY DEF RunInv, TypeInv
<1>2. /\ UNCHANGED <<vars, cmd, answer, applied>>
      /\ stage' = stage \/ stage' = [stage EXCEPT ![r] = "dropped"]
  BY DEF Receive, LoseAnswer, Interrupt, Leave, Drop
<1>3. /\ \A q \in Requests \ {r} : stage'[q] = stage[q]
      /\ stage'[r] = stage[r] \/ stage'[r] = "dropped"
  BY <1>1, <1>2 DEF RunTypeOK
<1> QED BY <1>2, <1>3, AddedRests DEF vars

LEMMA JudgeAdded ==
    ASSUME RunInv, AddedOK, NEW r \in Requests, Judge(r)
    PROVE  AddedOK'
<1>1. RunTypeOK
  BY DEF RunInv, TypeInv
<1>2. UNCHANGED <<vars, cmd, applied>>
  BY DEF Judge
<1>3. \/ stage'[r] = "answered" /\ answer'[r].status \notin Success
      \/ stage'[r] = "judged"
  <2> DEFINE status == 401
             reason == ""
             a == [status |-> status, reason |-> reason, shown |-> Nil]
  <2>1. a.status = status /\ status \notin Success
    BY DEF Success
  <2>2. CASE Answer(r, status, reason, Nil)
    <3>1. stage' = [stage EXCEPT ![r] = "answered"] /\ answer' = [answer EXCEPT ![r] = a]
      BY <2>2 DEF Answer
    <3> HIDE DEF a, reason, status
    <3>2. stage'[r] = "answered" /\ answer'[r] = a
      BY <1>1, <3>1 DEF RunTypeOK
    <3> QED BY <2>1, <3>2
  <2>3. CASE stage' = [stage EXCEPT ![r] = "judged"]
    BY <1>1, <2>3 DEF RunTypeOK
  <2> QED BY <2>2, <2>3 DEF Judge
<1>4. \A q \in Requests \ {r} : stage'[q] = stage[q] /\ answer'[q] = answer[q]
  BY <1>1, JudgeOthers
<1> QED BY <1>2, <1>3, <1>4, AddedRests DEF vars

LEMMA HandleAdded ==
    ASSUME RunInv, AddedOK, NEW r \in Requests, Handle(r)
    PROVE  AddedOK'
<1>1. /\ TypeInv /\ RunTypeOK /\ StartedKnown
      /\ CommandOK(cmd[r].op, stage[r], answer[r], outcome[r], Applied(r), wasLive[r], consumer[r])
  BY DEF RunInv, TypeInv, CommandsOK
<1>2. stage[r] = "judged" /\ UNCHANGED cmd
  BY DEF Handle
<1>3. outcome[r] # "none"
  BY <1>1, <1>2 DEF CommandOK
<1>4. cmd[r] \in Commands
  BY <1>1, <1>3 DEF StartedKnown
<1>5. Effect(r, cmd[r])
  BY <1>1, <1>4, HandleEffect
<1>6. /\ \A q \in Requests \ {r} : stage'[q] = stage[q] /\ answer'[q] = answer[q]
      /\ applied' = applied \/ applied' = Append(applied, r)
  BY <1>1, <1>5 DEF Effect, RunTypeOK
<1>7. \A n \in Consumers : consumers[n] = Nil =>
        consumers'[n] = Nil \/ (Touches(cmd[r], n) /\ applied' = Append(applied, r))
  BY <1>1, <1>4, DirectoryMoves
<1>8. AddedFor(r)'
  <2>1. ASSUME cmd[r].op = "consumer add"
        PROVE  \/ stage'[r] = "added" /\ consumers'[cmd[r].name] = Nil
               \/ stage'[r] = "answered" /\ answer'[r].status \notin Success
    <3>1. handleAddConsumer(r, cmd[r])
      BY <2>1 DEF Handle, StoreHandler, TokenHandler, handleUpdateConsumer,
           handleDeleteConsumer, handleGetObject, handlePatchObject, handleDeleteObject,
           handleCreateConsumerToken, handleRotateConsumerToken, handleRevokeConsumerToken,
           handlePurgeConsumerToken
    <3> QED BY <1>1, <1>4, <3>1, AddMoves
  <2> QED BY <1>2, <2>1 DEF AddedFor
<1>9. applied' # applied \/ \A n \in Consumers : consumers[n] = Nil => consumers'[n] = Nil
  <2>1. applied \in Seq(Requests)
    BY <1>1 DEF RunTypeOK
  <2>2. applied # Append(applied, r)
    BY <2>1
  <2> QED BY <1>7, <2>2
<1>10. \A n \in Consumers : consumers[n] = Nil => consumers'[n] = Nil \/ Touches(cmd'[r], n)
  BY <1>2, <1>7
<1> QED BY <1>2, <1>6, <1>8, <1>9, <1>10, AddedOthers

LEMMA EntryShown ==
    ASSUME RunInv, AddedOK, NEW r \in Requests, consumerEntryLocked(r)
    PROVE  AddedOK'
<1>1. /\ RunTypeOK
      /\ CommandOK(cmd[r].op, stage[r], answer[r], outcome[r], Applied(r), wasLive[r], consumer[r])
  BY DEF RunInv, TypeInv, CommandsOK
<1> DEFINE entry == consumers[cmd[r].name]
           listed == entry # Absent
           key == IF entry \in Keys THEN entry ELSE Nil
           shown == [listed |-> listed, publicKey |-> key]
           status == 200
           reason == ""
           a == [status |-> status, reason |-> reason, shown |-> shown]
<1>2. /\ stage[r] = "added" /\ UNCHANGED <<vars, cmd, applied>>
      /\ Answer(r, status, reason, shown)
  BY DEF consumerEntryLocked
<1>3. stage' = [stage EXCEPT ![r] = "answered"] /\ answer' = [answer EXCEPT ![r] = a]
  BY <1>2 DEF Answer
<1>4. entry = Nil => shown = FreshEntry
  <2>1. Nil # Absent /\ Nil \notin Keys
    BY AbsentAssumption, NilAssumption
  <2> QED BY <2>1 DEF FreshEntry
<1>5. a.shown = shown
  OBVIOUS
<1> HIDE DEF a, shown, status, reason
<1>6. /\ stage'[r] = "answered" /\ answer'[r] = a
      /\ \A q \in Requests \ {r} : stage'[q] = stage[q] /\ answer'[q] = answer[q]
  BY <1>1, <1>3 DEF RunTypeOK
<1>7. TouchedAfter(r) => TouchedAfter(r)'
  <2>1. ASSUME NEW p \in Requests, AppliedAfter(r, p), Touches(cmd[p], cmd[r].name)
        PROVE  TouchedAfter(r)'
    <3>1. AppliedAfter(r, p)' /\ Touches(cmd'[p], cmd'[r].name)
      BY <1>2, <2>1 DEF AppliedAfter
    <3> QED BY <3>1 DEF TouchedAfter, Requests, Touches
  <2> QED BY <2>1 DEF TouchedAfter
<1>8. cmd[r].op = "consumer add" => entry = Nil \/ TouchedAfter(r)
  BY <1>2 DEF AddedOK, AddedFor
<1> HIDE DEF entry
<1>9. AddedFor(r)'
  BY <1>2, <1>4, <1>5, <1>6, <1>7, <1>8 DEF AddedFor
<1> QED BY <1>2, <1>6, <1>9, AddedOthers DEF vars

LEMMA NextAdded == RunInv /\ AddedOK /\ [RunNext]_allVars => AddedOK'
<1> SUFFICES ASSUME RunInv, AddedOK, [RunNext]_allVars PROVE AddedOK'
  OBVIOUS
<1>1. CASE UNCHANGED allVars \/ Over \/ Tick
  <2>1. UNCHANGED <<vars, cmd, stage, answer, applied>>
    BY <1>1 DEF Over, Tick, allVars, history
  <2>2. ASSUME NEW q \in Requests PROVE AddedFor(q)'
    <3>1. AddedFor(q) /\ (TouchedAfter(q)' <=> TouchedAfter(q))
      BY <2>1 DEF AddedOK, TouchedAfter, AppliedAfter, Touches, Requests
    <3> QED BY <2>1, <3>1 DEF AddedFor, vars
  <2> QED BY <2>2 DEF AddedOK, Requests
<1>2. ASSUME NEW r \in Requests,
             \/ Begin(r) \/ Receive(r) \/ LoseAnswer(r) \/ Interrupt(r) \/ Drop(r)
             \/ Judge(r) \/ Handle(r) \/ consumerEntryLocked(r)
      PROVE  AddedOK'
  BY <1>2, BeginAdded, LeaveAdded, JudgeAdded, HandleAdded, EntryShown
<1> QED BY <1>1, <1>2 DEF RunNext

LEMMA InvShowsEntry == RunInv /\ AddedOK => AddShowsItsEntry
<1> SUFFICES ASSUME RunInv, AddedOK, NEW r \in Requests, outcome[r] = "done",
                    cmd[r].op = "consumer add"
             PROVE  \/ answer[r].shown = FreshEntry
                    \/ \E q \in Requests : AppliedAfter(r, q) /\ Touches(cmd[q], cmd[r].name)
  BY DEF AddShowsItsEntry, FreshEntry, Touches
<1>1. stage[r] = "answered" /\ answer[r].status \in Success
  BY DEF RunInv, CommandsOK, CommandOK
<1> QED BY <1>1 DEF AddedOK, AddedFor, TouchedAfter

\* What add prints is the fresh entry, unless a command that took effect
\* after the add changed it: nothing else takes an entry that has no key.
THEOREM AddsShowTheirEntry == RunSpec => []AddShowsItsEntry
<1>1. RunInit => RunInv /\ AddedOK
  <2>1. RunInit => \A q \in Requests : stage[q] = "unsent"
    BY DEF RunInit, NothingRun
  <2>2. RunInit => AddedOK
    BY <2>1 DEF AddedOK, AddedFor
  <2> QED BY <2>2, InitRunInv
<1>2. RunInv /\ AddedOK /\ [RunNext]_allVars => (RunInv /\ AddedOK)'
  BY NextRunInv, NextAdded
<1>3. RunInv /\ AddedOK => AddShowsItsEntry
  BY InvShowsEntry
<1> QED BY <1>1, <1>2, <1>3, PTL DEF RunSpec

-----------------------------------------------------------------------------
(* The order of effects.                                                   *)

\* What had exited with 0 stays so, and took effect first.
OrderedFor(r) ==
    \A q \in doneBefore[r] : /\ q \in Requests /\ outcome[q] = "done"
                             /\ outcome[r] # "none" /\ ~AppliedAfter(r, q)

OrderOK == \A r \in Requests : OrderedFor(r)

\* Only the appended request is new behind another.
LEMMA AppendedAfter ==
    ASSUME applied \in Seq(Requests), NEW x \in Requests, applied' = Append(applied, x),
           NEW r, NEW q, AppliedAfter(r, q)', q # x
    PROVE  AppliedAfter(r, q)
<1> DEFINE n == Len(applied)
<1>1. /\ n \in Nat /\ DOMAIN applied = 1..n /\ DOMAIN applied' = 1..(n + 1)
      /\ \A i \in 1..n : applied'[i] = applied[i]
      /\ applied'[n + 1] = x
  OBVIOUS
<1> HIDE DEF n
<1>2. PICK i, j \in DOMAIN applied' : i < j /\ applied'[i] = r /\ applied'[j] = q
  BY DEF AppliedAfter
<1>3. j # n + 1
  BY <1>1, <1>2
<1>4. i \in 1..n /\ j \in 1..n
  BY <1>1, <1>2, <1>3
<1> QED BY <1>1, <1>2, <1>4 DEF AppliedAfter

\* A step that begins no command: an exit is final, and only a request whose
\* handler is at work takes effect.
LEMMA OrderKept ==
    ASSUME RunInv, OrderOK, doneBefore' = doneBefore,
           \A q \in Requests : /\ outcome[q] = "done" => outcome'[q] = "done"
                               /\ outcome[q] # "none" => outcome'[q] # "none",
           \/ applied' = applied
           \/ \E x \in Requests : stage[x] = "judged" /\ applied' = Append(applied, x)
    PROVE  OrderOK'
<1> SUFFICES ASSUME NEW r \in Requests, NEW q \in doneBefore[r]
             PROVE  /\ q \in Requests /\ outcome'[q] = "done"
                    /\ outcome'[r] # "none" /\ ~AppliedAfter(r, q)'
  BY DEF OrderOK, OrderedFor, Requests
<1>1. q \in Requests /\ outcome[q] = "done" /\ outcome[r] # "none" /\ ~AppliedAfter(r, q)
  BY DEF OrderOK, OrderedFor
<1>2. CommandOK(cmd[q].op, stage[q], answer[q], outcome[q], Applied(q), wasLive[q], consumer[q])
  BY <1>1 DEF RunInv, CommandsOK
<1>3. stage[q] = "answered"
  BY <1>1, <1>2 DEF CommandOK
<1>4. CASE applied' = applied
  BY <1>1, <1>4 DEF AppliedAfter
<1>5. ASSUME NEW x \in Requests, stage[x] = "judged", applied' = Append(applied, x)
      PROVE  ~AppliedAfter(r, q)'
  <2>1. applied \in Seq(Requests)
    BY DEF RunInv, TypeInv, RunTypeOK
  <2>2. q # x
    BY <1>3, <1>5
  <2> QED BY <1>1, <1>5, <2>1, <2>2, AppendedAfter
<1> QED BY <1>1, <1>4, <1>5

\* A command that begins has not taken effect.
LEMMA BeginOrder ==
    ASSUME RunInv, OrderOK, NEW r \in Requests, Begin(r)
    PROVE  OrderOK'
<1>1. PICK c \in Ask, o \in {"usage", "running"} :
        /\ outcome[r] = "none" /\ outcome' = [outcome EXCEPT ![r] = o]
        /\ doneBefore' = [doneBefore EXCEPT ![r] = {q \in Requests : outcome[q] = "done"}]
        /\ applied' = applied
  BY DEF Begin
<1>2. outcome \in [Requests -> Outcomes] /\ doneBefore \in [Requests -> SUBSET Requests]
  BY DEF RunInv, TypeInv, RunTypeOK
<1>3. CommandOK(cmd[r].op, stage[r], answer[r], outcome[r], Applied(r), wasLive[r], consumer[r])
  BY DEF RunInv, CommandsOK
<1>4. ~Applied(r)
  BY <1>1, <1>3 DEF CommandOK
<1>5. \A p, q : AppliedAfter(p, q)' <=> AppliedAfter(p, q)
  BY <1>1 DEF AppliedAfter
<1>6. \A q : ~AppliedAfter(r, q)
  BY <1>4 DEF AppliedAfter, Applied
<1>7. \A q \in Requests : outcome'[q] = IF q = r THEN o ELSE outcome[q]
  BY <1>1, <1>2
<1>8. ASSUME NEW p \in Requests, NEW q \in doneBefore'[p]
      PROVE  /\ q \in Requests /\ outcome'[q] = "done"
             /\ outcome'[p] # "none" /\ ~AppliedAfter(p, q)'
  <2>1. CASE p = r
    <3>1. q \in Requests /\ outcome[q] = "done"
      BY <1>1, <1>2, <1>8, <2>1
    <3>2. q # r
      BY <1>1, <3>1
    <3> QED BY <1>5, <1>6, <1>7, <2>1, <3>1, <3>2
  <2>2. CASE p # r
    <3>1. q \in doneBefore[p]
      BY <1>1, <1>2, <1>8, <2>2
    <3>2. q \in Requests /\ outcome[q] = "done" /\ outcome[p] # "none" /\ ~AppliedAfter(p, q)
      BY <3>1 DEF OrderOK, OrderedFor
    <3>3. q # r
      BY <1>1, <3>2
    <3> QED BY <1>5, <1>7, <2>2, <3>2, <3>3
  <2> QED BY <2>1, <2>2
<1> QED BY <1>8 DEF OrderOK, OrderedFor, Requests

\* A handler runs for a command that was asked and sent.
LEMMA HandlerAsked ==
    ASSUME RunInv, NEW r \in Requests, Handle(r)
    PROVE  cmd[r] \in Commands /\ stage[r] = "judged" /\ cmd' = cmd
<1>1. /\ StartedKnown /\ stage[r] = "judged" /\ cmd' = cmd
      /\ CommandOK(cmd[r].op, stage[r], answer[r], outcome[r], Applied(r), wasLive[r], consumer[r])
  BY DEF RunInv, CommandsOK, Handle
<1>2. outcome[r] # "none"
  BY <1>1 DEF CommandOK
<1> QED BY <1>1, <1>2 DEF StartedKnown

\* Every step keeps the order.
LEMMA NextOrder == RunInv /\ OrderOK /\ [RunNext]_allVars => OrderOK'
<1> SUFFICES ASSUME RunInv, OrderOK, [RunNext]_allVars PROVE OrderOK'
  OBVIOUS
<1>1. ASSUME UNCHANGED <<doneBefore, outcome, applied>> PROVE OrderOK'
  BY <1>1, OrderKept
<1>2. ASSUME NEW r \in Requests, NEW o, o # "none", Leave(r, o) PROVE OrderOK'
  <2>1. /\ outcome[r] = "running" /\ outcome' = [outcome EXCEPT ![r] = o]
        /\ doneBefore' = doneBefore /\ applied' = applied
    BY <1>2 DEF Leave
  <2>2. outcome \in [Requests -> Outcomes]
    BY DEF RunInv, TypeInv, RunTypeOK
  <2>3. \A q \in Requests : /\ outcome[q] = "done" => outcome'[q] = "done"
                            /\ outcome[q] # "none" => outcome'[q] # "none"
    BY <1>2, <2>1, <2>2
  <2> QED BY <2>1, <2>3, OrderKept
<1>3. ASSUME NEW r \in Requests, Receive(r) \/ LoseAnswer(r) \/ Interrupt(r) PROVE OrderOK'
  <2>1. Settled(cmd[r], answer[r]) # "none"
    <3>1. "none" \notin Refusals
      BY DEF Refusals
    <3> QED BY <3>1, SettledKinds
  <2> QED BY <1>2, <1>3, <2>1 DEF Receive, LoseAnswer, Interrupt
<1>4. ASSUME NEW r \in Requests, Handle(r) PROVE OrderOK'
  <2>1. cmd[r] \in Commands /\ stage[r] = "judged"
    BY <1>4, HandlerAsked
  <2>2. Effect(r, cmd[r])
    BY <1>4, <2>1, HandleEffect DEF RunInv
  <2>3. applied' = applied \/ applied' = Append(applied, r)
    BY <2>2 DEF Effect
  <2>4. doneBefore' = doneBefore /\ outcome' = outcome
    BY <1>4 DEF Handle
  <2> QED BY <2>1, <2>3, <2>4, OrderKept
<1>5. ASSUME NEW r \in Requests, Drop(r) \/ Judge(r) \/ consumerEntryLocked(r) PROVE OrderOK'
  BY <1>1, <1>5 DEF Drop, Judge, consumerEntryLocked
<1>6. CASE Tick \/ Over \/ UNCHANGED allVars
  BY <1>1, <1>6 DEF Tick, Over, allVars, history
<1> QED BY <1>3, <1>4, <1>5, <1>6, BeginOrder DEF RunNext

LEMMA InvFollowsExits == OrderOK => EffectsFollowExits
BY DEF OrderOK, OrderedFor, EffectsFollowExits

\* A command takes effect after every command that had exited with 0 when it
\* began: with effects that are single operations, and happen once, the
\* commands are linearizable.
THEOREM EffectsAreInOrder == RunSpec => []EffectsFollowExits
<1>1. RunInit => OrderOK
  BY DEF RunInit, NothingRun, OrderOK, OrderedFor
<1> QED BY <1>1, InitRunInv, NextRunInv, NextOrder, InvFollowsExits, PTL DEF RunSpec

-----------------------------------------------------------------------------
(* What a consumer reads that was taken out of the used_by lists.          *)

Created(v) == v.id \in {objectID(s) : s \in Slugs}

\* Some object that no AddVariant made names the consumer.
Named(x) ==
    \E s \in Slugs : \E i \in DOMAIN variantsLocked(s) :
        Created(variantsLocked(s)[i]) /\ x \in variantsLocked(s)[i].usedBy

PutBackAfter(q, x) == \E p \in Requests : AppliedAfter(q, p) /\ PutsIn(cmd[p], x)

\* A consumer that was taken out is named nowhere until it is put in again.
StrippedOK ==
    \A q \in Requests : Applied(q) =>
        \A x \in Consumers : TakesOut(cmd[q], x) => ~Named(x) \/ PutBackAfter(q, x)

\* The same for what a command was served.
ServedFor(r) ==
    \A q \in doneBefore[r] :
        (/\ consumer[r] # Nil /\ TakesOut(cmd[q], consumer[r])
         /\ cmd[r].op = "get" /\ answer[r].status = 200 /\ Created(answer[r].shown))
        => PutBackAfter(q, consumer[r])

ServedOK == \A r \in Requests : ServedFor(r)

\* A step after which every variant has an id and a list some variant had.
LEMMA NamesKept ==
    ASSUME \A s \in Slugs : \A i \in DOMAIN variantsLocked(s)' :
              \E t \in Slugs : \E j \in DOMAIN variantsLocked(t) :
                 /\ variantsLocked(s)'[i].id = variantsLocked(t)[j].id
                 /\ variantsLocked(s)'[i].usedBy = variantsLocked(t)[j].usedBy
    PROVE  \A x : Named(x)' => Named(x)
BY DEF Named, Created

LEMMA SameObjectsNames ==
    ASSUME UNCHANGED <<objects, extra>>
    PROVE  \A x : Named(x)' => Named(x)
BY DEF Named, Created, variantsLocked

\* A first variant is the first in the list.
LEMMA FirstNames ==
    ASSUME IndInv, NEW s \in Slugs, NEW x, objects[s] # Absent, Created(objects[s]),
           x \in objects[s].usedBy
    PROVE  Named(x)
<1>1. extra[s] \in Seq(Object)
  BY DEF IndInv, TypeOK
<1>2. variantsLocked(s) = <<objects[s]>> \o extra[s]
  BY DEF variantsLocked
<1>3. 1 \in DOMAIN variantsLocked(s) /\ variantsLocked(s)[1] = objects[s]
  BY <1>1, <1>2
<1> QED BY <1>3 DEF Named

\* A walk rewrites the lists of the first variants, and no other variant has
\* an id derived from a name.
LEMMA WalkNames ==
    ASSUME IndInv, NEW g \in [Slugs -> SUBSET Consumers],
           objects' = [s \in Slugs |-> IF objects[s] = Absent THEN Absent
                                       ELSE [objects[s] EXCEPT !.usedBy = g[s]]],
           extra' = extra, issued' = issued
    PROVE  \A x : Named(x)' =>
              \E s \in Slugs : objects[s] # Absent /\ Created(objects[s]) /\ x \in g[s]
<1> DEFINE obj(s) == [objects[s] EXCEPT !.usedBy = g[s]]
<1>1. \A s \in Slugs : objects[s] # Absent =>
        obj(s) \in Object /\ obj(s).id = objects[s].id /\ obj(s).usedBy = g[s]
  <2> SUFFICES ASSUME NEW s \in Slugs, objects[s] # Absent
               PROVE  obj(s) \in Object /\ obj(s).id = objects[s].id
                      /\ obj(s).usedBy = g[s]
    OBVIOUS
  <2>1. objects[s] \in Object
    BY DEF IndInv, TypeOK
  <2> QED BY <2>1 DEF Object
<1>2. objects' = [s \in Slugs |-> IF objects[s] = Absent THEN Absent ELSE obj(s)]
  OBVIOUS
<1> HIDE DEF obj
<1>3. objects' \in [Slugs -> Object \cup {Absent}]
  BY <1>1, <1>2
<1>4. \A s \in Slugs :
        /\ objects'[s] = Absent <=> objects[s] = Absent
        /\ objects[s] # Absent => objects'[s].id = objects[s].id /\ objects'[s].usedBy = g[s]
  BY <1>1, <1>2, ObjectsAreThere
<1>5. \A s \in Slugs :
           /\ DOMAIN variantsLocked(s)' = DOMAIN variantsLocked(s)
           /\ \A i \in DOMAIN variantsLocked(s) :
                /\ i = 1 => /\ variantsLocked(s)'[1] = objects'[s]
                            /\ objects[s] # Absent
                /\ i # 1 => variantsLocked(s)'[i] = variantsLocked(s)[i]
  BY <1>3, <1>4, RewriteFirst DEF IndInv
<1> SUFFICES ASSUME NEW x, NEW s \in Slugs, NEW i \in DOMAIN variantsLocked(s)',
                    Created(variantsLocked(s)'[i]), x \in variantsLocked(s)'[i].usedBy
             PROVE  objects[s] # Absent /\ Created(objects[s]) /\ x \in g[s]
  BY DEF Named, Created
<1>6. i \in DOMAIN variantsLocked(s)
  BY <1>5
<1>7. i = 1
  <2>1. CASE i # 1
    <3>1. variantsLocked(s)'[i] = variantsLocked(s)[i]
      BY <1>5, <1>6, <2>1
    <3>2. \E q \in issued : variantsLocked(s)[i].id = NewString(q)
      BY <1>6, <2>1 DEF IndInv, IDsIssued
    <3> QED BY <3>1, <3>2, DerivedIsNotRandom DEF Created
  <2> QED BY <2>1
<1>8. variantsLocked(s)'[i] = objects'[s] /\ objects[s] # Absent
  BY <1>5, <1>6, <1>7
<1>9. objects'[s].id = objects[s].id /\ objects'[s].usedBy = g[s]
  BY <1>4, <1>8
<1> QED BY <1>8, <1>9 DEF Created

LEMMA DeleteConsumerNames ==
    ASSUME IndInv, NEW name \in Consumers, DeleteConsumer(name)
    PROVE  \A x : Named(x)' => Named(x) /\ (reply' = "ok" => x # name)
<1>1. CASE Refuse("not found")
  BY <1>1, SameObjectsNames DEF Refuse
<1>2. CASE WalkUsedBy(LAMBDA u : removeUsedBy(u, name)) /\ UNCHANGED <<extra, issued>>
  <2> DEFINE g == [s \in Slugs |-> IF objects[s] = Absent THEN {}
                                   ELSE removeUsedBy(objects[s].usedBy, name)]
  <2>1. objects' = [s \in Slugs |-> IF objects[s] = Absent THEN Absent
              ELSE [objects[s] EXCEPT !.usedBy = removeUsedBy(objects[s].usedBy, name)]]
    BY <1>2 DEF WalkUsedBy
  <2>2. g \in [Slugs -> SUBSET Consumers]
    <3>1. \A s \in Slugs : objects[s] # Absent => objects[s].usedBy \in SUBSET Consumers
      BY DEF IndInv, TypeOK, Object
    <3> QED BY <3>1 DEF removeUsedBy
  <2>3. objects' = [s \in Slugs |-> IF objects[s] = Absent THEN Absent
                                    ELSE [objects[s] EXCEPT !.usedBy = g[s]]]
    BY <2>1
  <2>4. \A s \in Slugs : objects[s] # Absent => g[s] = objects[s].usedBy \ {name}
    BY DEF removeUsedBy
  <2> HIDE DEF g
  <2>5. \A x : Named(x)' =>
           \E s \in Slugs : objects[s] # Absent /\ Created(objects[s]) /\ x \in g[s]
    BY <1>2, <2>2, <2>3, WalkNames
  <2> QED BY <2>4, <2>5, FirstNames
<1> QED BY <1>1, <1>2 DEF DeleteConsumer

LEMMA UpdateConsumerNames ==
    ASSUME IndInv, NEW name \in Consumers, NEW newName \in Opt(Consumers),
           NEW publicKey, UpdateConsumer(name, newName, publicKey)
    PROVE  \A x : Named(x)' =>
              \/ reply' = "ok" /\ newName = x /\ name # x
              \/ Named(x) /\ ~(reply' = "ok" /\ name = x /\ newName # Nil /\ newName # x)
<1> DEFINE target == Given(newName, name)
<1>0. target \in Consumers
  BY GivenType
<1>1. CASE Refuse("not found")
  BY <1>1, SameObjectsNames DEF Refuse
<1>2. CASE newName = Nil /\ UNCHANGED <<objects, extra>>
  BY <1>2, SameObjectsNames
<1>3. CASE /\ WalkUsedBy(LAMBDA u : renameUsedBy(u, name, target))
           /\ UNCHANGED <<extra, issued>> /\ reply' = "ok"
  <2> DEFINE g == [s \in Slugs |-> IF objects[s] = Absent THEN {}
                                   ELSE renameUsedBy(objects[s].usedBy, name, target)]
  <2>1. objects' = [s \in Slugs |-> IF objects[s] = Absent THEN Absent
           ELSE [objects[s] EXCEPT !.usedBy = renameUsedBy(objects[s].usedBy, name, target)]]
    BY <1>3 DEF WalkUsedBy
  <2>2. g \in [Slugs -> SUBSET Consumers]
    <3>1. \A s \in Slugs : objects[s] # Absent => objects[s].usedBy \in SUBSET Consumers
      BY DEF IndInv, TypeOK, Object
    <3> QED BY <1>0, <3>1 DEF renameUsedBy
  <2>3. objects' = [s \in Slugs |-> IF objects[s] = Absent THEN Absent
                                    ELSE [objects[s] EXCEPT !.usedBy = g[s]]]
    BY <2>1
  <2>4. \A s \in Slugs : objects[s] # Absent =>
           \A x \in g[s] : \/ x \in objects[s].usedBy /\ (x = name => target = name)
                           \/ x = target /\ target # name
    BY DEF renameUsedBy
  <2>5. target = IF newName = Nil THEN name ELSE newName
    BY DEF Given
  <2> HIDE DEF g, target
  <2>6. \A x : Named(x)' =>
           \E s \in Slugs : objects[s] # Absent /\ Created(objects[s]) /\ x \in g[s]
    BY <1>3, <2>2, <2>3, WalkNames
  <2>7. \A x : Named(x)' => \/ Named(x) /\ (x = name => target = name)
                            \/ x = target /\ target # name
    BY <2>4, <2>6, FirstNames
  <2> QED BY <1>3, <2>5, <2>7
<1> QED BY <1>1, <1>2, <1>3 DEF UpdateConsumer

LEMMA DeleteNames ==
    ASSUME IndInv, NEW slug \in Slugs, NEW sel, deleteVariant(slug, sel)
    PROVE  \A x : Named(x)' => Named(x)
<1>1. CASE Refuse(FindError(slug, sel))
  BY <1>1, SameObjectsNames DEF Refuse
<1>2. ASSUME NEW i \in DOMAIN variantsLocked(slug),
             LET vs == RemoveAt(variantsLocked(slug), i)
             IN /\ objects' = StoreFirst(objects, slug, vs)
                /\ extra' = StoreRest(extra, slug, vs)
      PROVE  \A x : Named(x)' => Named(x)
  <2> DEFINE old == variantsLocked(slug)
             vs  == RemoveAt(old, i)
             from(k) == IF k < i THEN k ELSE k + 1
  <2>1. old \in Seq(Object)
    BY VariantsType DEF IndInv
  <2>2. /\ vs \in Seq(Object) /\ Len(vs) = Len(old) - 1
        /\ \A k \in 1..(Len(old) - 1) : vs[k] = IF k < i THEN old[k] ELSE old[k + 1]
    BY <2>1, RemoveAtProperties
  <2>3. objects' = StoreFirst(objects, slug, vs) /\ extra' = StoreRest(extra, slug, vs)
    BY <1>2
  <2> HIDE DEF vs
  <2>4. /\ variantsLocked(slug)' = vs
        /\ \A s \in Slugs \ {slug} : variantsLocked(s)' = variantsLocked(s)
    BY <2>2, <2>3, StoreOne DEF IndInv
  <2>5. /\ Len(old) \in Nat /\ DOMAIN old = 1..Len(old) /\ i \in 1..Len(old)
        /\ DOMAIN vs = 1..(Len(old) - 1)
    BY <2>1, <2>2
  <2> HIDE DEF old
  <2>6. \A k \in DOMAIN vs : from(k) \in DOMAIN old /\ vs[k] = old[from(k)]
    BY <2>2, <2>5
  <2> HIDE DEF from
  <2>7. ASSUME NEW s \in Slugs, NEW k \in DOMAIN variantsLocked(s)'
        PROVE  \E t \in Slugs : \E j \in DOMAIN variantsLocked(t) :
                 /\ variantsLocked(s)'[k].id = variantsLocked(t)[j].id
                 /\ variantsLocked(s)'[k].usedBy = variantsLocked(t)[j].usedBy
    <3>1. CASE s = slug
      <4>1. from(k) \in DOMAIN old /\ variantsLocked(s)'[k] = old[from(k)]
        BY <2>4, <2>6, <2>7, <3>1
      <4> QED BY <4>1 DEF old
    <3>2. CASE s # slug
      BY <2>4, <2>7, <3>2
    <3> QED BY <3>1, <3>2
  <2> QED BY <2>7, NamesKept
<1> QED BY <1>1, <1>2 DEF deleteVariant

LEMMA PatchNames ==
    ASSUME IndInv, NEW slug \in Slugs, NEW sel,
           NEW description \in Opt(Descriptions), NEW newSlug \in Opt(Slugs),
           NEW tags \in Opt(SUBSET Tags), patchVariant(slug, sel, description, newSlug, tags)
    PROVE  \A x : Named(x)' => Named(x)
<1> DEFINE to == Given(newSlug, slug)
<1>1. CASE Refuse(FindError(slug, sel)) \/ Refuse("already exists")
  BY <1>1, SameObjectsNames DEF Refuse
<1>2. ASSUME NEW i \in DOMAIN variantsLocked(slug),
             LET obj == [variantsLocked(slug)[i] EXCEPT
                            !.description = Given(description, @),
                            !.tags = Given(tags, @)]
                 vs  == [variantsLocked(slug) EXCEPT ![i] = obj]
             IN /\ objects' = StoreFirst(StoreFirst(objects, slug, << >>), to, vs)
                /\ extra' = StoreRest(StoreRest(extra, slug, << >>), to, vs)
      PROVE  \A x : Named(x)' => Named(x)
  <2> DEFINE old == variantsLocked(slug)
             obj == [old[i] EXCEPT !.description = Given(description, @),
                                   !.tags = Given(tags, @)]
             vs  == [old EXCEPT ![i] = obj]
  <2>1. old \in Seq(Object) /\ old[i] \in Object /\ to \in Slugs
    BY VariantsType, ElementOfSeq, GivenType DEF IndInv
  <2>2. Given(tags, old[i].tags) \in SUBSET Tags
        /\ Given(description, old[i].description) \in Descriptions
    BY <2>1, GivenType DEF Object
  <2>3. obj \in Object /\ obj.id = old[i].id /\ obj.usedBy = old[i].usedBy
    BY <2>1, <2>2 DEF Object
  <2>4. /\ objects' = StoreFirst(StoreFirst(objects, slug, << >>), to, vs)
        /\ extra' = StoreRest(StoreRest(extra, slug, << >>), to, vs)
    BY <1>2
  <2> HIDE DEF obj
  <2>5. /\ vs \in Seq(Object) /\ DOMAIN vs = DOMAIN old
        /\ \A k \in DOMAIN old : vs[k].id = old[k].id /\ vs[k].usedBy = old[k].usedBy
    BY <2>1, <2>3
  <2> HIDE DEF vs, to, old
  <2>6. /\ variantsLocked(to)' = vs
        /\ to # slug => variantsLocked(slug)' = << >>
        /\ \A s \in Slugs \ {slug, to} : variantsLocked(s)' = variantsLocked(s)
    BY <2>1, <2>4, <2>5, StoreMoved DEF IndInv
  <2>7. ASSUME NEW s \in Slugs, NEW k \in DOMAIN variantsLocked(s)'
        PROVE  \E t \in Slugs : \E j \in DOMAIN variantsLocked(t) :
                 /\ variantsLocked(s)'[k].id = variantsLocked(t)[j].id
                 /\ variantsLocked(s)'[k].usedBy = variantsLocked(t)[j].usedBy
    <3>1. CASE s = to
      <4>1. k \in DOMAIN old /\ variantsLocked(s)'[k] = vs[k]
        BY <2>5, <2>6, <2>7, <3>1
      <4> QED BY <2>5, <4>1 DEF old
    <3>2. CASE s # to /\ s = slug
      BY <2>6, <2>7, <3>2
    <3>3. CASE s # to /\ s # slug
      BY <2>6, <2>7, <3>3
    <3> QED BY <3>1, <3>2, <3>3
  <2> QED BY <2>7, NamesKept
<1> QED BY <1>1, <1>2 DEF patchVariant

\* A handler names a consumer anew only by a rename onto it, and what takes
\* effect and takes it out leaves it named nowhere.
LEMMA HandleNames ==
    ASSUME RunInv, NEW r \in Requests, Handle(r)
    PROVE  \A x : Named(x)' =>
              \/ PutsIn(cmd[r], x) /\ applied' = Append(applied, r)
              \/ Named(x) /\ (applied' = applied \/ ~TakesOut(cmd[r], x))
<1> DEFINE c == cmd[r]
<1>1. IndInv /\ c \in Commands /\ (StoreHandler(r, c) \/ TokenHandler(r, c))
  BY HandlerAsked DEF RunInv, TypeInv, Handle
<1> HIDE DEF c
<1> SUFFICES \A x : Named(x)' => \/ PutsIn(c, x) /\ applied' = Append(applied, r)
                                 \/ Named(x) /\ (applied' = applied \/ ~TakesOut(c, x))
  BY DEF c
<1>2. c.op \notin {"consumer delete", "consumer update"} => \A x : ~TakesOut(c, x)
  BY DEF TakesOut
<1>3. CASE TokenHandler(r, c) \/ handleGetObject(r, c)
  <2>1. c.op \notin {"consumer delete", "consumer update"}
    BY <1>3 DEF TokenHandler, handleGetObject, handleCreateConsumerToken,
         handleRotateConsumerToken, handleRevokeConsumerToken, handlePurgeConsumerToken
  <2> QED BY <1>2, <1>3, <2>1, SameObjectsNames DEF TokenHandler, handleGetObject, vars
<1>4. CASE handleAddConsumer(r, c)
  <2>1. c.op \notin {"consumer delete", "consumer update"} /\ UNCHANGED <<objects, extra>>
    BY <1>4 DEF handleAddConsumer, AddConsumer, Refuse
  <2> QED BY <1>2, <2>1, SameObjectsNames
<1>5. CASE handleUpdateConsumer(r, c)
  <2> DEFINE name == c.name
             newName == c.newName
  <2>1. /\ name \in Consumers /\ newName \in Opt(Consumers)
        /\ UpdateConsumer(name, newName, c.publicKey)
        /\ c.op = "consumer update" /\ Take(r, reply' = "ok")
    BY <1>1, <1>5, Asked DEF handleUpdateConsumer, AnswerReply
  <2>2. applied' = IF reply' = "ok" THEN Append(applied, r) ELSE applied
    BY <2>1 DEF Take
  <2>3. \A x : /\ newName = x /\ name # x => PutsIn(c, x)
               /\ TakesOut(c, x) => name = x /\ newName # Nil /\ newName # x
    BY <2>1 DEF PutsIn, TakesOut
  <2> HIDE DEF name, newName
  <2>4. \A x : Named(x)' =>
              \/ reply' = "ok" /\ newName = x /\ name # x
              \/ Named(x) /\ ~(reply' = "ok" /\ name = x /\ newName # Nil /\ newName # x)
    BY <1>1, <2>1, UpdateConsumerNames
  <2> QED BY <2>2, <2>3, <2>4
<1>6. CASE handleDeleteConsumer(r, c)
  <2> DEFINE name == c.name
  <2>1. /\ name \in Consumers /\ DeleteConsumer(name)
        /\ c.op = "consumer delete" /\ Take(r, reply' = "ok")
    BY <1>1, <1>6, Asked DEF handleDeleteConsumer, AnswerReply
  <2>2. applied' = IF reply' = "ok" THEN Append(applied, r) ELSE applied
    BY <2>1 DEF Take
  <2>3. \A x : TakesOut(c, x) => x = name
    BY <2>1 DEF TakesOut
  <2> HIDE DEF name
  <2>4. \A x : Named(x)' => Named(x) /\ (reply' = "ok" => x # name)
    BY <1>1, <2>1, DeleteConsumerNames
  <2> QED BY <2>2, <2>3, <2>4
<1>7. CASE handleDeleteObject(r, c)
  <2>1. c.slug \in Slugs /\ deleteVariant(c.slug, c.sel) /\ c.op = "delete"
    BY <1>1, <1>7, Asked DEF handleDeleteObject
  <2> QED BY <1>1, <1>2, <2>1, DeleteNames
<1>8. CASE handlePatchObject(r, c)
  <2>1. /\ c.slug \in Slugs /\ c.description \in Opt(Descriptions)
        /\ c.newSlug \in Opt(Slugs) /\ c.tags \in Opt(SUBSET Spellings) /\ c.op = "edit"
    BY <1>1, <1>8, Asked DEF handlePatchObject
  <2> DEFINE tags == IF c.tags = Nil THEN Nil ELSE normalizeTags(c.tags)
  <2>2. CASE UNCHANGED <<vars, applied>>
    BY <1>2, <2>1, <2>2, SameObjectsNames DEF vars
  <2>3. CASE /\ c.tags = Nil \/ normalizeTags(c.tags) # Nil
             /\ patchVariant(c.slug, c.sel, c.description, c.newSlug, tags)
    <3>1. tags \in Opt(SUBSET Tags)
      BY <2>1, <2>3, NormalizedTags DEF Opt
    <3> HIDE DEF tags
    <3>2. \A x : Named(x)' => Named(x)
      BY <1>1, <2>1, <2>3, <3>1, PatchNames
    <3> QED BY <1>2, <2>1, <3>2
  <2> QED BY <1>8, <2>2, <2>3 DEF handlePatchObject
<1> QED BY <1>1, <1>3, <1>4, <1>5, <1>6, <1>7, <1>8 DEF StoreHandler

\* Who was put back stays put back, and who was taken out stays out.
LEMMA PutBackStays ==
    ASSUME RunInv, NEW x, NEW q,
           \A p \in Requests : Applied(p) => cmd'[p] = cmd[p],
           applied' = applied \/ \E r \in Requests : applied' = Append(applied, r),
           PutBackAfter(q, x)
    PROVE  PutBackAfter(q, x)'
<1>1. applied \in Seq(Requests)
  BY DEF RunInv, TypeInv, RunTypeOK
<1>2. PICK p \in Requests : AppliedAfter(q, p) /\ PutsIn(cmd[p], x)
  BY DEF PutBackAfter
<1>3. AppliedAfter(q, p)'
  BY <1>1, <1>2, AppliedGrows DEF AppliedAfter
<1>4. cmd'[p] = cmd[p]
  BY <1>2 DEF AppliedAfter, Applied
<1> QED BY <1>2, <1>3, <1>4 DEF PutBackAfter, PutsIn, Requests

LEMMA StrippedRests ==
    ASSUME RunInv, StrippedOK, UNCHANGED <<objects, extra, applied>>,
           \A p \in Requests : Applied(p) => cmd'[p] = cmd[p]
    PROVE  StrippedOK'
<1> SUFFICES ASSUME NEW q \in Requests, Applied(q)', NEW x \in Consumers,
                    TakesOut(cmd[q], x)', Named(x)'
             PROVE  PutBackAfter(q, x)'
  BY DEF StrippedOK, Requests
<1>1. Applied(q)
  BY DEF Applied
<1>2. Named(x) /\ TakesOut(cmd[q], x)
  BY <1>1, SameObjectsNames DEF TakesOut
<1>3. PutBackAfter(q, x)
  BY <1>1, <1>2 DEF StrippedOK
<1> QED BY <1>3, PutBackStays

LEMMA HandleStripped ==
    ASSUME RunInv, StrippedOK, NEW r \in Requests, Handle(r)
    PROVE  /\ StrippedOK'
           /\ cmd' = cmd
           /\ applied' = applied \/ applied' = Append(applied, r)
<1>1. cmd[r] \in Commands /\ cmd' = cmd /\ applied \in Seq(Requests)
  BY HandlerAsked DEF RunInv, TypeInv, RunTypeOK
<1>2. Effect(r, cmd[r])
  BY <1>1, HandleEffect DEF RunInv
<1>3. applied' = applied \/ applied' = Append(applied, r)
  BY <1>2 DEF Effect
<1>4. \A x : Named(x)' => \/ PutsIn(cmd[r], x) /\ applied' = Append(applied, r)
                          \/ Named(x) /\ (applied' = applied \/ ~TakesOut(cmd[r], x))
  BY HandleNames
<1>5. \A x : ~(PutsIn(cmd[r], x) /\ TakesOut(cmd[r], x))
  BY DEF PutsIn, TakesOut
<1>6. StrippedOK'
  <2> SUFFICES ASSUME NEW q \in Requests, Applied(q)', NEW x \in Consumers,
                      TakesOut(cmd[q], x), Named(x)'
               PROVE  PutBackAfter(q, x)'
    BY <1>1 DEF StrippedOK, Requests, TakesOut
  <2>1. CASE Applied(q)
    <3>1. CASE PutsIn(cmd[r], x) /\ applied' = Append(applied, r)
      <4>1. AppliedAfter(q, r)'
        BY <1>1, <2>1, <3>1, AppliedGrows
      <4> QED BY <1>1, <3>1, <4>1 DEF PutBackAfter, PutsIn, Requests
    <3>2. CASE Named(x)
      <4>1. PutBackAfter(q, x)
        BY <2>1, <3>2 DEF StrippedOK
      <4> QED BY <1>1, <1>3, <4>1, PutBackStays
    <3> QED BY <1>4, <3>1, <3>2
  <2>2. CASE ~Applied(q)
    <3>1. applied' # applied
      BY <2>2 DEF Applied
    <3>2. q = r
      BY <1>1, <1>3, <2>2, <3>1, AppliedGrows
    <3> QED BY <1>4, <1>5, <3>1, <3>2
  <2> QED BY <2>1, <2>2
<1> QED BY <1>1, <1>3, <1>6

\* What was served to a command is not changed by the steps of others.
LEMMA ServedKept ==
    ASSUME RunInv, OrderOK, NEW r \in Requests, ServedFor(r),
           \A p \in Requests : outcome[p] # "none" => cmd'[p] = cmd[p],
           applied' = applied \/ \E p \in Requests : applied' = Append(applied, p),
           /\ cmd'[r] = cmd[r] /\ consumer'[r] = consumer[r]
           /\ answer'[r] = answer[r] /\ doneBefore'[r] = doneBefore[r]
    PROVE  ServedFor(r)'
<1>1. \A p \in Requests : Applied(p) => cmd'[p] = cmd[p]
  <2>1. \A p \in Requests : Applied(p) => outcome[p] # "none"
    BY DEF RunInv, CommandsOK, CommandOK
  <2> QED BY <2>1
<1> SUFFICES ASSUME NEW q \in doneBefore'[r], consumer'[r] # Nil,
                    TakesOut(cmd[q], consumer[r])', cmd'[r].op = "get",
                    answer'[r].status = 200, Created(answer[r].shown)'
             PROVE  PutBackAfter(q, consumer[r])'
  BY DEF ServedFor
<1>2. q \in Requests /\ q \in doneBefore[r] /\ outcome[q] # "none"
  BY DEF OrderOK, OrderedFor
<1>3. cmd'[q] = cmd[q]
  BY <1>2
<1>4. TakesOut(cmd[q], consumer[r]) /\ Created(answer[r].shown)
  BY <1>3 DEF TakesOut, Created
<1>5. PutBackAfter(q, consumer[r])
  BY <1>2, <1>4 DEF ServedFor
<1> QED BY <1>1, <1>5, PutBackStays

\* get serves a consumer only objects that name it.
LEMMA GetNames ==
    ASSUME RunInv, NEW r \in Requests, Handle(r), cmd[r].op = "get", consumer[r] # Nil,
           answer'[r].status = 200, Created(answer'[r].shown)
    PROVE  Named(consumer[r])
<1> DEFINE c == cmd[r]
<1>1. /\ c \in Commands /\ RunTypeOK
      /\ answer \in [Requests -> Answers]
  BY HandlerAsked DEF RunInv, TypeInv, RunTypeOK, Answers
<1>2. c.slug \in Slugs /\ handleGetObject(r, c)
  <2>1. handleGetObject(r, c)
    BY DEF Handle, StoreHandler, TokenHandler, handleAddConsumer, handleUpdateConsumer,
         handleDeleteConsumer, handlePatchObject, handleDeleteObject,
         handleCreateConsumerToken, handleRotateConsumerToken, handleRevokeConsumerToken,
         handlePurgeConsumerToken
  <2> QED BY <1>1, <2>1, Asked
<1>3. \A status, reason, shown : Answer(r, status, reason, shown) =>
         answer'[r].status = status /\ answer'[r].shown = shown
  <2> SUFFICES ASSUME NEW status, NEW reason, NEW shown, Answer(r, status, reason, shown)
               PROVE  answer'[r].status = status /\ answer'[r].shown = shown
    OBVIOUS
  <2> DEFINE a == [status |-> status, reason |-> reason, shown |-> shown]
  <2>1. answer' = [answer EXCEPT ![r] = a] /\ a.status = status /\ a.shown = shown
    BY DEF Answer
  <2> HIDE DEF a
  <2>2. answer'[r] = a
    BY <1>1, <2>1
  <2> QED BY <2>1, <2>2
<1> HIDE DEF c
<1>4. CASE LET err == FindError(c.slug, c.sel) IN Answer(r, StatusOf(err), err, Nil)
  <2> DEFINE err == FindError(c.slug, c.sel)
  <2>1. err \in Replies \ {"ok"}
    BY DEF FindError, Replies
  <2>2. StatusOf(err) \notin Success /\ Answer(r, StatusOf(err), err, Nil)
    BY <1>4, <2>1, StatusIsSuccess
  <2> HIDE DEF err
  <2>3. StatusOf(err) = 200
    BY <1>3, <2>2
  <2> QED BY <2>2, <2>3 DEF Success
<1>5. ASSUME NEW i \in DOMAIN variantsLocked(c.slug),
             LET obj == variantsLocked(c.slug)[i]
             IN  IF consumer[r] # Nil /\ consumer[r] \notin obj.usedBy
                 THEN Answer(r, 404, "", Nil)
                 ELSE Answer(r, 200, "", obj)
      PROVE  Named(consumer[r])
  <2> DEFINE obj == variantsLocked(c.slug)[i]
             status == 404
             reason == ""
  <2>1. CASE Answer(r, status, reason, Nil)
    <3>1. status # 200
      OBVIOUS
    <3> HIDE DEF status, reason
    <3> QED BY <1>3, <2>1, <3>1
  <2>2. CASE consumer[r] \in obj.usedBy /\ Answer(r, 200, reason, obj)
    <3> HIDE DEF reason, obj
    <3>1. answer'[r].shown = obj
      BY <1>3, <2>2
    <3> QED BY <1>2, <2>2, <3>1 DEF Named, obj
  <2> QED BY <1>5, <2>1, <2>2, Zenon
<1> QED BY <1>2, <1>4, <1>5 DEF handleGetObject

\* What a handler serves is there for whoever it serves.
LEMMA HandleServed ==
    ASSUME RunInv, OrderOK, StrippedOK, ServedOK, NEW r \in Requests, Handle(r)
    PROVE  StrippedOK' /\ ServedOK'
<1>1. /\ StrippedOK' /\ cmd' = cmd /\ UNCHANGED <<consumer, outcome, doneBefore>>
      /\ applied' = applied \/ applied' = Append(applied, r)
  BY HandleStripped DEF Handle
<1>2. Effect(r, cmd[r])
  BY HandlerAsked, HandleEffect DEF RunInv
<1>3. RunTypeOK
  BY DEF RunInv, TypeInv
<1>4. \A q \in Requests \ {r} : answer'[q] = answer[q]
  BY <1>2, <1>3 DEF Effect, RunTypeOK
<1>5. \A q \in Requests \ {r} : ServedFor(q)'
  BY <1>1, <1>4, ServedKept DEF ServedOK
<1>6. ServedFor(r)'
  <2> SUFFICES ASSUME NEW q \in doneBefore[r], consumer[r] # Nil,
                      TakesOut(cmd[q], consumer[r]), cmd[r].op = "get",
                      answer'[r].status = 200, Created(answer'[r].shown)
               PROVE  PutBackAfter(q, consumer[r])'
    BY <1>1 DEF ServedFor, TakesOut, Created, PutBackAfter, PutsIn, AppliedAfter
  <2>1. q \in Requests /\ outcome[q] = "done"
    BY DEF OrderOK, OrderedFor
  <2>2. cmd[q].op # "get"
    BY DEF TakesOut
  <2>3. Applied(q)
    BY <2>1, <2>2 DEF RunInv, CommandsOK, CommandOK
  <2>4. consumer[r] \in Consumers
    BY <1>3 DEF RunTypeOK, Opt
  <2>5. Named(consumer[r])
    BY GetNames
  <2>6. PutBackAfter(q, consumer[r])
    BY <2>1, <2>3, <2>4, <2>5 DEF StrippedOK
  <2> QED BY <1>1, <2>6, PutBackStays
<1> QED BY <1>1, <1>5, <1>6 DEF ServedOK, Requests

LEMMA NoAnswerStatus == NoAnswer.status # 200
BY DEF NoAnswer

\* A command that has not been answered was served nothing.
LEMMA UnservedOK ==
    ASSUME NEW r, answer'[r].status # 200
    PROVE  ServedFor(r)'
BY DEF ServedFor

\* A step of one command before its handler.
LEMMA UnservedStep ==
    ASSUME RunInv, OrderOK, StrippedOK, ServedOK, NEW r \in Requests,
           UNCHANGED <<objects, extra, applied>>,
           \A p \in Requests : outcome[p] # "none" => cmd'[p] = cmd[p],
           answer'[r].status # 200 \/ UNCHANGED <<cmd[r], consumer[r], answer[r], doneBefore[r]>>,
           \A q \in Requests \ {r} : UNCHANGED <<cmd[q], consumer[q], answer[q], doneBefore[q]>>
    PROVE  StrippedOK' /\ ServedOK'
<1>1. \A p \in Requests : Applied(p) => cmd'[p] = cmd[p]
  <2>1. \A p \in Requests : Applied(p) => outcome[p] # "none"
    BY DEF RunInv, CommandsOK, CommandOK
  <2> QED BY <2>1
<1>2. StrippedOK'
  BY <1>1, StrippedRests
<1>3. \A q \in Requests : ServedFor(q)'
  BY ServedKept, UnservedOK DEF ServedOK
<1> QED BY <1>2, <1>3 DEF ServedOK, Requests

LEMMA BeginServed ==
    ASSUME RunInv, OrderOK, StrippedOK, ServedOK, NEW r \in Requests, Begin(r)
    PROVE  StrippedOK' /\ ServedOK'
<1>1. PICK c \in Ask :
        /\ outcome[r] = "none" /\ cmd' = [cmd EXCEPT ![r] = c]
        /\ doneBefore' = [doneBefore EXCEPT ![r] = {q \in Requests : outcome[q] = "done"}]
        /\ UNCHANGED <<vars, consumer, answer, applied>>
  BY DEF Begin
<1>2. /\ RunTypeOK
      /\ CommandOK(cmd[r].op, stage[r], answer[r], outcome[r], Applied(r), wasLive[r], consumer[r])
  BY DEF RunInv, TypeInv, CommandsOK
<1>3. answer'[r].status # 200
  BY <1>1, <1>2, NoAnswerStatus DEF CommandOK
<1>4. \A q \in Requests \ {r} : UNCHANGED <<cmd[q], consumer[q], answer[q], doneBefore[q]>>
  BY <1>1, <1>2 DEF RunTypeOK
<1>5. \A p \in Requests : outcome[p] # "none" => cmd'[p] = cmd[p]
  BY <1>1, <1>2 DEF RunTypeOK
<1>6. UNCHANGED <<objects, extra, applied>>
  BY <1>1 DEF vars
<1> QED BY <1>3, <1>4, <1>5, <1>6, UnservedStep

LEMMA JudgeServed ==
    ASSUME RunInv, OrderOK, StrippedOK, ServedOK, NEW r \in Requests, Judge(r)
    PROVE  StrippedOK' /\ ServedOK'
<1>1. RunTypeOK /\ stage[r] = "sent" /\ UNCHANGED <<vars, cmd, applied, doneBefore>>
  BY DEF RunInv, TypeInv, Judge
<1>2. CommandOK(cmd[r].op, stage[r], answer[r], outcome[r], Applied(r), wasLive[r], consumer[r])
  BY DEF RunInv, CommandsOK
<1>3. answer'[r].status # 200
  <2> DEFINE status == 401
             reason == ""
             a == [status |-> status, reason |-> reason, shown |-> Nil]
  <2>1. a.status # 200
    OBVIOUS
  <2>2. CASE Answer(r, status, reason, Nil)
    <3>1. answer' = [answer EXCEPT ![r] = a]
      BY <2>2 DEF Answer
    <3> HIDE DEF a, reason, status
    <3>2. answer'[r] = a
      BY <1>1, <3>1 DEF RunTypeOK
    <3> QED BY <2>1, <3>2
  <2>3. CASE UNCHANGED answer
    BY <1>1, <1>2, <2>3, NoAnswerStatus DEF CommandOK
  <2> QED BY <2>2, <2>3 DEF Judge
<1>4. \A q \in Requests \ {r} : UNCHANGED <<cmd[q], consumer[q], answer[q], doneBefore[q]>>
  <2>1. \A q \in Requests \ {r} : answer'[q] = answer[q]
    BY <1>1, JudgeOthers
  <2>2. consumer' = consumer \/ \E w : consumer' = [consumer EXCEPT ![r] = w]
    BY DEF Judge
  <2> QED BY <1>1, <2>1, <2>2 DEF RunTypeOK
<1> QED BY <1>1, <1>3, <1>4, UnservedStep DEF vars

LEMMA EntryServed ==
    ASSUME RunInv, OrderOK, StrippedOK, ServedOK, NEW r \in Requests, consumerEntryLocked(r)
    PROVE  StrippedOK' /\ ServedOK'
<1>1. /\ RunTypeOK /\ stage[r] = "added" /\ UNCHANGED <<vars, cmd, consumer, applied, doneBefore>>
      /\ \E a : answer' = [answer EXCEPT ![r] = a]
  BY DEF RunInv, TypeInv, consumerEntryLocked, Answer
<1>2. CommandOK(cmd[r].op, stage[r], answer[r], outcome[r], Applied(r), wasLive[r], consumer[r])
  BY DEF RunInv, CommandsOK
<1>3. cmd[r].op # "get"
  BY <1>1, <1>2 DEF CommandOK
<1>4. StrippedOK'
  BY <1>1, StrippedRests DEF vars
<1>5. \A q \in Requests \ {r} : answer'[q] = answer[q]
  BY <1>1 DEF RunTypeOK
<1>6. \A q \in Requests \ {r} : ServedFor(q)'
  BY <1>1, <1>5, ServedKept DEF ServedOK
<1>7. ServedFor(r)'
  BY <1>1, <1>3 DEF ServedFor
<1> QED BY <1>4, <1>6, <1>7 DEF ServedOK, Requests

LEMMA NextServed ==
    RunInv /\ OrderOK /\ StrippedOK /\ ServedOK /\ [RunNext]_allVars => StrippedOK' /\ ServedOK'
<1> SUFFICES ASSUME RunInv, OrderOK, StrippedOK, ServedOK, [RunNext]_allVars
             PROVE  StrippedOK' /\ ServedOK'
  OBVIOUS
<1>1. ASSUME UNCHANGED <<objects, extra, cmd, consumer, answer, applied, doneBefore>>
      PROVE  StrippedOK' /\ ServedOK'
  <2>1. StrippedOK'
    BY <1>1, StrippedRests
  <2>2. \A q \in Requests : ServedFor(q)'
    BY <1>1, ServedKept DEF ServedOK
  <2> QED BY <2>1, <2>2 DEF ServedOK, Requests
<1>2. ASSUME NEW r \in Requests,
             Receive(r) \/ LoseAnswer(r) \/ Interrupt(r) \/ Drop(r)
      PROVE  StrippedOK' /\ ServedOK'
  BY <1>1, <1>2 DEF Receive, LoseAnswer, Interrupt, Leave, Drop, vars
<1>3. CASE Tick \/ Over \/ UNCHANGED allVars
  BY <1>1, <1>3 DEF Tick, Over, allVars, history, vars
<1> QED BY <1>2, <1>3, BeginServed, JudgeServed, HandleServed, EntryServed DEF RunNext

LEMMA StartServed == NothingRun => StrippedOK /\ ServedOK
<1> SUFFICES ASSUME NothingRun PROVE StrippedOK /\ ServedOK
  OBVIOUS
<1>1. \A q : ~Applied(q)
  BY DEF NothingRun, Applied
<1>2. \A r \in Requests : doneBefore[r] = {}
  BY DEF NothingRun
<1> QED BY <1>1, <1>2 DEF StrippedOK, ServedOK, ServedFor

LEMMA InvStripped == ServedOK => StrippedConsumerReadsNothing
BY DEF ServedOK, ServedFor, PutBackAfter, Created, StrippedConsumerReadsNothing

\* Once a delete or a rename of a consumer has exited with 0, its token reads
\* no object any more that was not given to it again: the operation strips
\* every list of a created object in one critical section, and of all that
\* may run between it and the read only a rename onto the name adds it.
THEOREM StrippedConsumersReadNothing == RunSpec => []StrippedConsumerReadsNothing
<1>1. RunInit => RunInv /\ OrderOK /\ StrippedOK /\ ServedOK
  BY InitRunInv, StartServed DEF RunInit, NothingRun, OrderOK, OrderedFor
<1> QED BY <1>1, NextRunInv, NextOrder, NextServed, InvStripped, PTL DEF RunSpec

-----------------------------------------------------------------------------
(* Composition.  What a step of the commands does to the store and to the  *)
(* tokens is one operation of theirs or none, so that everything proved of *)
(* the operations holds among any commands, lost, interrupted and judged   *)
(* in whatever order.                                                      *)

\* What was sent asks for something: the usage check refused the rest.
NothingEmpty == \A q \in Requests : stage[q] # "unsent" => ~NothingToDo(cmd[q])

\* A step of one command that has been sent leaves what was asked.
LEMMA SentStays ==
    ASSUME NothingEmpty, NEW r \in Requests, NEW st, cmd' = cmd, stage[r] # "unsent",
           stage' = [stage EXCEPT ![r] = st]
    PROVE  NothingEmpty'
BY DEF NothingEmpty, Requests

LEMMA NextAsked == RunInv /\ NothingEmpty /\ [RunNext]_allVars => NothingEmpty'
<1> SUFFICES ASSUME RunInv, NothingEmpty, [RunNext]_allVars PROVE NothingEmpty'
  OBVIOUS
<1>1. ASSUME UNCHANGED <<cmd, stage>> PROVE NothingEmpty'
  BY <1>1 DEF NothingEmpty, Requests
<1>2. ASSUME NEW r \in Requests, Begin(r) PROVE NothingEmpty'
  <2>1. PICK c \in Ask, token \in Opt(RandomSuffixes) :
          /\ cmd' = [cmd EXCEPT ![r] = c]
          /\ \/ stage' = stage
             \/ ~UsageError(c, token) /\ stage' = [stage EXCEPT ![r] = "sent"]
    BY <1>2 DEF Begin
  <2>2. stage[r] = "unsent"
    <3>1. /\ outcome[r] = "none"
          /\ CommandOK(cmd[r].op, stage[r], answer[r], outcome[r], Applied(r), wasLive[r], consumer[r])
      BY <1>2 DEF Begin, RunInv, CommandsOK
    <3> QED BY <3>1 DEF CommandOK
  <2>3. \A q \in Requests : cmd'[q] = IF q = r THEN c ELSE cmd[q]
    BY <2>1 DEF RunInv, TypeInv, RunTypeOK
  <2>4. stage \in [Requests -> Stages]
    BY DEF RunInv, TypeInv, RunTypeOK, Stages
  <2>5. CASE stage' = stage
    BY <2>2, <2>3, <2>5 DEF NothingEmpty, Requests
  <2>6. CASE ~NothingToDo(c) /\ stage' = [stage EXCEPT ![r] = "sent"]
    <3>1. ASSUME NEW q \in Requests, stage'[q] # "unsent" PROVE ~NothingToDo(cmd'[q])
      <4>1. CASE q = r
        <5>1. cmd'[q] = c
          BY <2>3, <4>1
        <5> QED BY <2>6, <5>1
      <4>2. CASE q # r
        <5>1. cmd'[q] = cmd[q] /\ stage'[q] = stage[q]
          BY <2>3, <2>4, <2>6, <4>2
        <5> QED BY <3>1, <5>1 DEF NothingEmpty
      <4> QED BY <4>1, <4>2
    <3>2. \A q \in Requests : (NothingToDo(cmd[q]))' <=> NothingToDo(cmd'[q])
      BY DEF NothingToDo
    <3> QED BY <3>1, <3>2 DEF NothingEmpty, Requests
  <2> QED BY <2>1, <2>5, <2>6 DEF UsageError
<1>3. ASSUME NEW r \in Requests, Receive(r) \/ LoseAnswer(r) \/ Interrupt(r)
      PROVE  NothingEmpty'
  BY <1>1, <1>3 DEF Receive, LoseAnswer, Interrupt, Leave
<1>4. ASSUME NEW r \in Requests, Drop(r) PROVE NothingEmpty'
  BY <1>4, SentStays DEF Drop
<1>5. ASSUME NEW r \in Requests, Judge(r) PROVE NothingEmpty'
  BY <1>5, SentStays DEF Judge, Answer
<1>6. ASSUME NEW r \in Requests, Handle(r) PROVE NothingEmpty'
  <2>1. cmd[r] \in Commands /\ stage[r] = "judged" /\ cmd' = cmd
    BY <1>6, HandlerAsked
  <2>2. Effect(r, cmd[r])
    BY <1>6, <2>1, HandleEffect DEF RunInv
  <2>3. \E st : stage' = [stage EXCEPT ![r] = st]
    BY <2>2 DEF Effect
  <2> QED BY <2>1, <2>3, SentStays
<1>7. ASSUME NEW r \in Requests, consumerEntryLocked(r) PROVE NothingEmpty'
  BY <1>7, SentStays DEF consumerEntryLocked, Answer
<1>8. CASE Tick \/ Over \/ UNCHANGED allVars
  BY <1>1, <1>8 DEF Tick, Over, allVars
<1> QED BY <1>2, <1>3, <1>4, <1>5, <1>6, <1>7, <1>8 DEF RunNext

\* A handler of the store runs one of its operations, or none.
LEMMA StoreOperation ==
    ASSUME NEW r \in Requests, NEW c \in Commands, ~NothingToDo(c), StoreHandler(r, c)
    PROVE  [Next]_vars /\ UNCHANGED tokenVars
<1>0. UNCHANGED tokenVars
  BY DEF StoreHandler
<1>1. CASE handleAddConsumer(r, c)
  <2>1. c.name \in Consumers /\ AddConsumer(c.name)
    BY <1>1, Asked DEF handleAddConsumer
  <2> QED BY <1>0, <2>1 DEF Next, Register
<1>2. CASE handleUpdateConsumer(r, c)
  <2>1. /\ c.name \in Consumers /\ c.newName \in Opt(Consumers) /\ c.publicKey \in Opt(Keys)
        /\ UpdateConsumer(c.name, c.newName, c.publicKey)
    BY <1>2, Asked DEF handleUpdateConsumer
  <2> QED BY <1>0, <2>1 DEF Next, Rename
<1>3. CASE handleDeleteConsumer(r, c)
  <2>1. c.name \in Consumers /\ DeleteConsumer(c.name)
    BY <1>3, Asked DEF handleDeleteConsumer
  <2> QED BY <1>0, <2>1 DEF Next, Unregister
<1>4. CASE handleGetObject(r, c)
  BY <1>0, <1>4 DEF handleGetObject
<1>5. CASE handlePatchObject(r, c)
  <2> DEFINE tags == IF c.tags = Nil THEN Nil ELSE normalizeTags(c.tags)
  <2>1. /\ c.op = "edit" /\ c.slug \in Slugs /\ c.sel \in Selectors
        /\ c.description \in Opt(Descriptions)
        /\ c.newSlug \in Opt(Slugs) /\ c.tags \in Opt(SUBSET Spellings)
    BY <1>5, Asked DEF handlePatchObject
  <2>2. CASE UNCHANGED <<vars, applied>>
    BY <1>0, <2>2
  <2>3. CASE /\ c.tags = Nil \/ normalizeTags(c.tags) # Nil
             /\ patchVariant(c.slug, c.sel, c.description, c.newSlug, tags)
    <3>1. tags \in Opt(SUBSET Tags) /\ (tags = Nil <=> c.tags = Nil)
      BY <2>1, <2>3, NormalizedTags DEF Opt
    <3>2. ~(c.description = Nil /\ c.newSlug = Nil /\ c.tags = Nil)
      BY <2>1 DEF NothingToDo
    <3>3. patchVariant(c.slug, c.sel, c.description, c.newSlug, tags)
      BY <2>3
    <3> HIDE DEF tags
    <3>4. <<c.description, c.newSlug, tags>> # <<Nil, Nil, Nil>>
      BY <3>1, <3>2
    <3>5. Patch
      BY <2>1, <3>1, <3>3, <3>4 DEF Patch
    <3> QED BY <1>0, <3>5 DEF Next
  <2> QED BY <1>5, <2>2, <2>3 DEF handlePatchObject
<1>6. CASE handleDeleteObject(r, c)
  <2>1. c.slug \in Slugs /\ c.sel \in Selectors /\ deleteVariant(c.slug, c.sel)
    BY <1>6, Asked DEF handleDeleteObject
  <2> QED BY <1>0, <2>1 DEF Next, Delete
<1> QED BY <1>1, <1>2, <1>3, <1>4, <1>5, <1>6 DEF StoreHandler

\* A handler of the tokens runs one of theirs.
LEMMA TokenOperation ==
    ASSUME NEW r \in Requests, NEW c \in Commands, TokenHandler(r, c)
    PROVE  TokP!Next /\ UNCHANGED vars
<1>0. UNCHANGED vars
  BY DEF TokenHandler
<1>1. CASE handleCreateConsumerToken(r, c)
  <2>1. c.op = "token create" /\ Tok!CreateConsumerToken(c.name, c.ttl)
    BY <1>1 DEF handleCreateConsumerToken
  <2>2. c.name \in Consumers /\ c.ttl \in Durations
    BY <2>1, Asked
  <2>3. TokP!CreateConsumerToken(c.name, c.ttl)
    BY <2>1, SameTokens
  <2> QED BY <1>0, <2>2, <2>3 DEF TokP!Next
<1>2. CASE handleRotateConsumerToken(r, c)
  <2>1. c.op = "token rotate" /\ Tok!RotateConsumerToken(c.id, c.ttl)
    BY <1>2 DEF handleRotateConsumerToken
  <2>2. c.id \in RandomSuffixes /\ c.ttl \in Durations
    BY <2>1, Asked
  <2>3. TokP!RotateConsumerToken(c.id, c.ttl)
    BY <2>1, SameTokens
  <2> QED BY <1>0, <2>2, <2>3 DEF TokP!Next
<1>3. CASE handleRevokeConsumerToken(r, c)
  <2>1. c.op = "token revoke" /\ Tok!RevokeConsumerToken(c.id)
    BY <1>3 DEF handleRevokeConsumerToken
  <2>2. c.id \in RandomSuffixes
    BY <2>1, Asked
  <2>3. TokP!RevokeConsumerToken(c.id)
    BY <2>1, SameTokens
  <2> QED BY <1>0, <2>2, <2>3 DEF TokP!Next
<1>4. CASE handlePurgeConsumerToken(r, c)
  <2>1. c.op = "token purge" /\ Tok!PurgeConsumerToken(c.id)
    BY <1>4 DEF handlePurgeConsumerToken
  <2>2. c.id \in RandomSuffixes
    BY <2>1, Asked
  <2>3. TokP!PurgeConsumerToken(c.id)
    BY <2>1, SameTokens
  <2> QED BY <1>0, <2>2, <2>3 DEF TokP!Next
<1> QED BY <1>1, <1>2, <1>3, <1>4 DEF TokenHandler

\* Every step is at most one operation of one of the two.
LEMMA StepIsOperation ==
    RunInv /\ NothingEmpty /\ [RunNext]_allVars => [Next]_vars /\ [TokP!Next]_tokenVars
<1> SUFFICES ASSUME RunInv, NothingEmpty, [RunNext]_allVars
             PROVE  [Next]_vars /\ [TokP!Next]_tokenVars
  OBVIOUS
<1>1. CASE UNCHANGED <<vars, tokenVars>>
  BY <1>1
<1>2. ASSUME NEW r \in Requests, Handle(r) PROVE [Next]_vars /\ [TokP!Next]_tokenVars
  <2> DEFINE c == cmd[r]
  <2>1. c \in Commands /\ stage[r] = "judged"
    BY <1>2, HandlerAsked
  <2>2. ~NothingToDo(c)
    BY <2>1 DEF NothingEmpty
  <2>3. StoreHandler(r, c) \/ TokenHandler(r, c)
    BY <1>2 DEF Handle
  <2> HIDE DEF c
  <2> QED BY <2>1, <2>2, <2>3, StoreOperation, TokenOperation
<1>3. CASE Tick
  BY <1>3, SameTokens DEF Tick, TokP!Next
<1> QED BY <1>1, <1>2, <1>3 DEF RunNext, allVars, Begin, Receive, LoseAnswer, Interrupt, Leave,
         Drop, Judge, consumerEntryLocked, Over

\* A server that has been at work for any time, in any way, before the
\* commands: any state in which the invariants of its two halves hold.
AnyStart == IndInv /\ TokP!IndInv /\ TokP!TablesApart /\ NothingRun

FromAnyStart == AnyStart /\ [][RunNext]_allVars

\* All that is invariant of commands and server together.
CommandInv ==
    /\ RunInv /\ EndInv /\ AddedOK /\ OrderOK /\ StrippedOK /\ ServedOK
    /\ TokP!TablesApart /\ NothingEmpty

LEMMA StartCommandInv == AnyStart => CommandInv
<1> SUFFICES ASSUME AnyStart PROVE CommandInv
  OBVIOUS
<1>1. RunInv /\ EndInv
  BY StartRunInv, StartEnds DEF AnyStart
<1>2. \A q \in Requests : stage[q] = "unsent"
  BY DEF AnyStart, NothingRun
<1>3. AddedOK /\ NothingEmpty
  BY <1>2 DEF AddedOK, AddedFor, NothingEmpty
<1>4. OrderOK
  BY DEF AnyStart, NothingRun, OrderOK, OrderedFor
<1> QED BY <1>1, <1>3, <1>4, StartServed DEF AnyStart, CommandInv

LEMMA NextCommandInv == CommandInv /\ [RunNext]_allVars => CommandInv'
<1> SUFFICES ASSUME CommandInv, [RunNext]_allVars PROVE CommandInv'
  OBVIOUS
<1>1. /\ RunInv' /\ EndInv' /\ AddedOK' /\ OrderOK' /\ StrippedOK' /\ ServedOK'
      /\ NothingEmpty'
  BY NextRunInv, NextEndInv, NextAdded, NextOrder, NextServed, NextAsked DEF CommandInv
<1>2. [TokP!Next]_tokenVars
  BY StepIsOperation DEF CommandInv
<1>3. TokP!TablesApart'
  BY <1>2, TokenAssumptions, TokP!NextApart
     DEF CommandInv, RunInv, TypeInv, tokenVars, TokP!vars
<1> QED BY <1>1, <1>3 DEF CommandInv

\* The invariant holds whatever the server had stored and issued before.
THEOREM InvariantFromAnyStart == FromAnyStart => []CommandInv
BY StartCommandInv, NextCommandInv, PTL DEF FromAnyStart

\* The runs that are checked start in one such state.
THEOREM RunsAreStarts == RunSpec => FromAnyStart
<1>1. TokensBefore => TokP!TablesApart
  BY RunInitApart
<1>2. RunInit => AnyStart
  BY <1>1, RunInitStore, RunInitTokens DEF RunInit, AnyStart
<1> QED BY <1>2, PTL DEF RunSpec, FromAnyStart

\* What the commands promise does not hang on what the server starts with:
\* it holds on a server with any objects, consumers, variants and tokens that
\* the operations of the store and of the tokens can have left behind.
THEOREM PromisesFromAnyStart ==
    FromAnyStart => [](/\ RunTypeOK /\ ExitTellsTruth /\ EffectsFollowExits /\ EffectWasAuthorized
                       /\ EndedTokenReadsNothing /\ ShownTokenWorks
                       /\ AddShowsItsEntry /\ StrippedConsumerReadsNothing)
<1>1. CommandInv => /\ RunTypeOK /\ ExitTellsTruth /\ EffectsFollowExits /\ EffectWasAuthorized
                    /\ EndedTokenReadsNothing /\ ShownTokenWorks
                    /\ AddShowsItsEntry /\ StrippedConsumerReadsNothing
  <2>1. CommandInv => RunTypeOK
    BY DEF CommandInv, RunInv, TypeInv
  <2> QED BY <2>1, InvTellsTruth, InvFollowsExits, InvAuthorized, InvReadsNothing, InvShownWorks,
             InvShowsEntry, InvStripped
          DEF CommandInv
<1> QED BY <1>1, InvariantFromAnyStart, PTL

-----------------------------------------------------------------------------
(* What the two halves promise, among the commands.                        *)

\* The handlers are operations of the store and of the tokens, one at a time.
THEOREM CommandsAreOperations == FromAnyStart => [][Next]_vars /\ [][TokP!Next]_tokenVars
<1>1. CommandInv /\ [RunNext]_allVars => [Next]_vars /\ [TokP!Next]_tokenVars
  BY StepIsOperation DEF CommandInv
<1> QED BY <1>1, InvariantFromAnyStart, PTL DEF FromAnyStart

\* However commands are lost, interrupted and interleaved, no variant is
\* orphaned, ids stay distinct, the directory covers the used_by lists, and
\* the two token maps stay in step and apart from the write tokens.
THEOREM CommandsKeepTheState ==
    FromAnyStart => [](/\ TypeOK /\ NoOrphanVariants /\ VariantIDsDistinct
                       /\ DirectoryCoversCreated
                       /\ TokP!LookupMatchesRecords /\ TokP!TablesApart)
<1>1. CommandInv => /\ TypeOK /\ NoOrphanVariants /\ VariantIDsDistinct
                    /\ DirectoryCoversCreated
                    /\ TokP!LookupMatchesRecords /\ TokP!TablesApart
  BY DEF CommandInv, RunInv, TypeInv, IndInv, TokP!IndInv
<1> QED BY <1>1, InvariantFromAnyStart, PTL

\* No command, in no interleaving, makes an entry forget its key.
THEOREM CommandsKeepKeys == FromAnyStart => KeyNeverForgotten
<1>1. CommandInv /\ [RunNext]_allVars => [KeysStay]_vars
  BY StepIsOperation, StepsKeepKeys DEF CommandInv, RunInv, TypeInv, IndInv
<1> QED BY <1>1, InvariantFromAnyStart, PTL DEF FromAnyStart, KeyNeverForgotten, KeysStay

\* Each step of the commands changes at most the one variant it addresses, or
\* moves one name: the store is the catalog for them too.
THEOREM CommandsKeepCatalog == FromAnyStart => [][Abstract!Next]_CatalogView
<1>1. CommandInv /\ [RunNext]_allVars => [Abstract!Next]_CatalogView
  BY StepIsOperation, NextRefines DEF CommandInv, RunInv, TypeInv, CatalogStep
<1> QED BY <1>1, InvariantFromAnyStart, PTL DEF FromAnyStart

\* A credential that has stopped working never works again, whatever the
\* commands do that are at work on the server, those given up included.
THEOREM CommandsKeepDead == FromAnyStart => Tok!DeadStaysDead
<1> DEFINE Kept == \A v \in drawn : ~Tok!Accepted(v) => ~Tok!Accepted(v)'
<1>1. CommandInv /\ [RunNext]_allVars => [Kept]_tokenVars
  <2> SUFFICES ASSUME CommandInv, [RunNext]_allVars PROVE Kept
    OBVIOUS
  <2>1. [TokP!Next]_tokenVars /\ TokP!IndInv
    BY StepIsOperation DEF CommandInv, RunInv, TypeInv
  <2>2. TokP!StayDead
    BY <2>1, TokenAssumptions, TokP!StepsKeepDead DEF tokenVars, TokP!vars
  <2> QED BY <2>2, SameAccepted DEF TokP!StayDead
<1> QED BY <1>1, InvariantFromAnyStart, PTL DEF FromAnyStart, Tok!DeadStaysDead, tokenVars, Tok!vars

\* Nor does any of them move a deadline or hand a value to another consumer.
THEOREM CommandsKeepGrants == FromAnyStart => [][TokP!EntryFinal]_tokenVars
<1>1. CommandInv /\ [RunNext]_allVars => [TokP!EntryFinal]_tokenVars
  <2> SUFFICES ASSUME CommandInv, [RunNext]_allVars PROVE TokP!EntryFinal
    OBVIOUS
  <2>1. [TokP!Next]_tokenVars /\ TokP!IndInv
    BY StepIsOperation DEF CommandInv, RunInv, TypeInv
  <2> QED BY <2>1, TokenAssumptions, TokP!NextFinal DEF tokenVars, TokP!vars
<1> QED BY <1>1, InvariantFromAnyStart, PTL DEF FromAnyStart
-----------------------------------------------------------------------------
(* What users may rely on.                                                 *)

\* What is known of each way a command may stand.
LEMMA WhatIsKnown ==
    /\ Known("none") = "idle" /\ Known("running") = "running"
    /\ Known("done") = "done" /\ Known("usage") = "failed"
    /\ \A o \in Refusals : Known(o) = "failed"
BY DEF Known, Refusals

LEMMA UnknownEnds == Known("no answer") = "unclear" /\ Known("interrupted") = "unclear"
BY DEF Known, Refusals

\* The contract's state, spelled out.
LEMMA ContractUnchanged ==
    UNCHANGED <<outcome, cmd, applied>> => UNCHANGED Contract!vars
BY DEF Contract!vars, Requests

\* One command's outcome changes, and with it what is known of that command.
LEMMA KnownChanges ==
    ASSUME RunInv, NEW r \in Requests, NEW o, outcome' = [outcome EXCEPT ![r] = o]
    PROVE  /\ outcome \in [Requests -> Outcomes]
           /\ \A q \in Requests : outcome'[q] = IF q = r THEN o ELSE outcome[q]
           /\ [q \in Requests |-> Known(outcome'[q])] =
                  [[q \in Requests |-> Known(outcome[q])] EXCEPT ![r] = Known(o)]
<1>1. outcome \in [Requests -> Outcomes]
  BY DEF RunInv, TypeInv, RunTypeOK
<1>2. \A q \in Requests : outcome'[q] = IF q = r THEN o ELSE outcome[q]
  BY <1>1
<1>3. \A q \in Requests : Known(outcome'[q]) = IF q = r THEN Known(o) ELSE Known(outcome[q])
  BY <1>2
<1> QED BY <1>1, <1>2, <1>3

\* A command is started.
LEMMA BeginContract ==
    ASSUME RunInv, NEW r \in Requests, Begin(r)
    PROVE  Contract!Start(r)
<1> DEFINE known == [q \in Requests |-> Known(outcome[q])]
           reads == {q \in Requests : outcome[q] # "none" /\ cmd[q].op = "get"}
<1>1. PICK c \in Ask, o \in {"usage", "running"} :
        /\ outcome[r] = "none" /\ outcome' = [outcome EXCEPT ![r] = o]
        /\ cmd' = [cmd EXCEPT ![r] = c] /\ applied' = applied
  BY DEF Begin
<1>2. cmd \in [Requests -> Opt(Commands)]
  BY DEF RunInv, TypeInv, RunTypeOK
<1>3. \A q \in Requests : cmd'[q] = IF q = r THEN c ELSE cmd[q]
  BY <1>1, <1>2
<1>4. known[r] = "idle"
  BY <1>1, WhatIsKnown
<1>5. known' = [known EXCEPT ![r] = Known(o)]
  BY <1>1, KnownChanges DEF Requests
<1>6. Known(o) \in {"running", "failed"}
  BY <1>1, WhatIsKnown
<1>7. reads' \in {reads, reads \cup {r}}
  <2>1. \A q \in Requests : outcome'[q] = IF q = r THEN o ELSE outcome[q]
    BY <1>1, KnownChanges
  <2>2. r \notin reads
    BY <1>1
  <2>3. \A q \in Requests \ {r} : q \in reads' <=> q \in reads
    BY <1>3, <2>1 DEF Requests
  <2>4. reads' \subseteq Requests /\ reads \subseteq Requests
    BY DEF Requests
  <2> HIDE DEF reads
  <2>5. CASE r \in reads'
    BY <2>2, <2>3, <2>4, <2>5
  <2>6. CASE r \notin reads'
    BY <2>2, <2>3, <2>4, <2>6
  <2> QED BY <2>5, <2>6
<1> QED BY <1>1, <1>4, <1>5, <1>6, <1>7 DEF Contract!Start

\* A command ends: with an answer, which is a success or a refusal, or
\* without one.
LEMMA LeaveContract ==
    ASSUME RunInv, NEW r \in Requests, Receive(r) \/ LoseAnswer(r) \/ Interrupt(r)
    PROVE  Contract!Succeed(r) \/ Contract!Fail(r) \/ Contract!GiveUp(r)
<1> DEFINE known == [q \in Requests |-> Known(outcome[q])]
           reads == {q \in Requests : outcome[q] # "none" /\ cmd[q].op = "get"}
<1>1. CommandOK(cmd[r].op, stage[r], answer[r], outcome[r], Applied(r), wasLive[r], consumer[r])
  BY DEF RunInv, CommandsOK
<1>2. ASSUME NEW o, o # "none", Leave(r, o)
      PROVE  outcome[r] = "running" /\ Contract!End(r, Known(o))
  <2>1. /\ outcome[r] = "running" /\ outcome' = [outcome EXCEPT ![r] = o]
        /\ cmd' = cmd /\ applied' = applied
    BY <1>2 DEF Leave
  <2>2. known[r] = "running"
    BY <2>1, WhatIsKnown
  <2>3. known' = [known EXCEPT ![r] = Known(o)]
    BY <2>1, KnownChanges DEF Requests
  <2>4. outcome'[r] = o /\ \A q \in Requests \ {r} : outcome'[q] = outcome[q]
    BY <2>1, KnownChanges
  <2>5. reads' = reads
    BY <1>2, <2>1, <2>4 DEF Requests
  <2> QED BY <2>1, <2>2, <2>3, <2>5 DEF Contract!End
<1>3. Contract!Effective(r) <=> Applied(r)
  BY DEF Contract!Effective, Applied
<1>4. CASE Receive(r)
  <2> DEFINE o == Settled(cmd[r], answer[r])
  <2>1. o # "none"
    BY SettledKinds DEF Refusals
  <2>2. stage[r] = "answered" /\ outcome[r] = "running" /\ Contract!End(r, Known(o))
    BY <1>2, <1>4, <2>1 DEF Receive
  <2>3. CASE answer[r].status \in Success
    <3>1. Known(o) = "done"
      BY <2>3, SettledKinds, WhatIsKnown
    <3>2. r \in reads \/ Applied(r)
      BY <1>1, <2>2, <2>3 DEF CommandOK
    <3> QED BY <1>3, <2>2, <3>1, <3>2 DEF Contract!Succeed
  <2>4. CASE answer[r].status \notin Success
    <3>1. Known(o) = "failed"
      BY <2>4, SettledKinds, WhatIsKnown
    <3>2. ~Applied(r)
      BY <1>1, <2>2, <2>4 DEF CommandOK
    <3> QED BY <1>3, <2>2, <3>1, <3>2 DEF Contract!Fail
  <2> QED BY <2>3, <2>4
<1>5. CASE LoseAnswer(r)
  BY <1>2, <1>5, UnknownEnds DEF LoseAnswer, Contract!GiveUp
<1>6. CASE Interrupt(r)
  BY <1>2, <1>6, UnknownEnds DEF Interrupt, Contract!GiveUp
<1> QED BY <1>4, <1>5, <1>6

\* A handler takes effect, for a command whose user has not been told yet, or
\* it changes nothing.
LEMMA HandleContract ==
    ASSUME RunInv, NEW r \in Requests, Handle(r)
    PROVE  Contract!TakeEffect(r) \/ UNCHANGED Contract!vars
<1> DEFINE known == [q \in Requests |-> Known(outcome[q])]
           reads == {q \in Requests : outcome[q] # "none" /\ cmd[q].op = "get"}
<1>1. cmd[r] \in Commands /\ stage[r] = "judged" /\ cmd' = cmd
  BY HandlerAsked
<1>2. Effect(r, cmd[r])
  BY <1>1, HandleEffect DEF RunInv
<1>3. outcome' = outcome
  BY DEF Handle
<1>4. CASE applied' = applied
  BY <1>1, <1>3, <1>4, ContractUnchanged
<1>5. CASE applied' # applied
  <2>1. cmd[r].op # "get" /\ applied' = Append(applied, r)
    BY <1>2, <1>5 DEF Effect
  <2>2. CommandOK(cmd[r].op, stage[r], answer[r], outcome[r], Applied(r), wasLive[r], consumer[r])
    BY DEF RunInv, CommandsOK
  <2>3. ~Applied(r)
    BY <1>1, <2>2 DEF CommandOK
  <2>4. ~Contract!Effective(r)
    BY <2>3 DEF Contract!Effective, Applied
  <2>5. known[r] \in {"running", "unclear"}
    <3>1. outcome[r] \in Outcomes
      BY DEF RunInv, TypeInv, RunTypeOK
    <3>2. outcome[r] \notin Refusals \cup {"none", "usage", "done"}
      BY <1>1, <2>2 DEF CommandOK
    <3>3. outcome[r] = "running" \/ outcome[r] = "no answer" \/ outcome[r] = "interrupted"
      BY <3>1, <3>2 DEF Outcomes
    <3> QED BY <3>3, WhatIsKnown, UnknownEnds
  <2>6. r \notin reads
    BY <2>1
  <2>7. known' = known /\ reads' = reads
    BY <1>1, <1>3 DEF Requests
  <2> QED BY <2>1, <2>4, <2>5, <2>6, <2>7 DEF Contract!TakeEffect
<1> QED BY <1>4, <1>5

\* Every step is one of the contract's, or none.
LEMMA NextContract == RunInv /\ [RunNext]_allVars => [Contract!Next]_(Contract!vars)
<1> SUFFICES ASSUME RunInv, [RunNext]_allVars PROVE [Contract!Next]_(Contract!vars)
  OBVIOUS
<1>1. ASSUME NEW r \in Requests, Begin(r) PROVE Contract!Next
  BY <1>1, BeginContract DEF Contract!Next
<1>2. ASSUME NEW r \in Requests, Receive(r) \/ LoseAnswer(r) \/ Interrupt(r)
      PROVE  Contract!Next
  BY <1>2, LeaveContract DEF Contract!Next
<1>3. ASSUME NEW r \in Requests, Handle(r) PROVE Contract!Next \/ UNCHANGED Contract!vars
  BY <1>3, HandleContract DEF Contract!Next
<1>4. ASSUME NEW r \in Requests, Drop(r) \/ Judge(r) \/ consumerEntryLocked(r)
      PROVE  UNCHANGED Contract!vars
  BY <1>4, ContractUnchanged DEF Drop, Judge, consumerEntryLocked
<1>5. CASE Tick \/ Over \/ UNCHANGED allVars
  BY <1>5, ContractUnchanged DEF Tick, Over, allVars, history
<1> QED BY <1>1, <1>2, <1>3, <1>4, <1>5 DEF RunNext

\* Nothing is known, and nothing has taken effect, before the first command.
LEMMA InitContract == NothingRun => Contract!Init
<1> SUFFICES ASSUME NothingRun PROVE Contract!Init
  OBVIOUS
<1>1. \A q \in Requests : outcome[q] = "none"
  BY DEF NothingRun
<1>2. [q \in Requests |-> Known(outcome[q])] = [q \in Requests |-> "idle"]
  BY <1>1, WhatIsKnown
<1>3. {q \in Requests : outcome[q] # "none" /\ cmd[q].op = "get"} = {}
  BY <1>1
<1>4. applied = << >>
  BY DEF NothingRun
<1> QED BY <1>2, <1>3, <1>4 DEF Contract!Init

\* The commands, with their requests, judgements, handlers and answers, are
\* single steps to their users, whatever is lost and whatever the server
\* starts with.
THEOREM CommandsKeepContract == FromAnyStart => ImplementsContract
<1>1. AnyStart => Contract!Init
  BY InitContract DEF AnyStart
<1>2. CommandInv /\ [RunNext]_allVars => [Contract!Next]_(Contract!vars)
  BY NextContract DEF CommandInv
<1> QED BY <1>1, <1>2, InvariantFromAnyStart, PTL
        DEF FromAnyStart, ImplementsContract, Contract!Spec

=============================================================================

