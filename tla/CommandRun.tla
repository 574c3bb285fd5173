----------------------------- MODULE CommandRun -----------------------------
(***************************************************************************)
(* A command from its start to its exit status, against the server.  The   *)
(* process sends one request and waits; the handler runs on its own: it    *)
(* judges the credential in one critical section and does its work in the  *)
(* next, and nobody tells it that the process has given up, because the    *)
(* Store methods ignore the request's context.  So a command that was      *)
(* interrupted, or lost its answer, may still take effect, at any later    *)
(* time, among the requests of later commands.                             *)
(*                                                                         *)
(* Composition: the objects and the directory are ObjectStore's, the       *)
(* credentials ConsumerTokens', and the handlers run their operations.     *)
(* inject and update, which send several requests, are in SealedWrite.     *)
(*                                                                         *)
(* Abstractions.  A request has one parameter record, cmd[r]; a success    *)
(* body is the part of it the properties read (shown).  The plaintext      *)
(* Unseal makes of a fetched value is left out, as is the wording of       *)
(* errors.                                                                 *)
(***************************************************************************)
EXTENDS ObjectStore, Integers, FiniteSets

CONSTANTS
    RandomSuffixes,
    Durations, Second, MaxTime,    \* of ConsumerTokens
    WriteToken, TokenID, TokenValue,   \* what the server starts with
    Spellings,     \* tags as typed
    Lower,         \* typed tag -> the tag stored, or Nil when it is malformed
    maxTags,
    Ask,           \* bound on what is asked
    Configured,    \* bound on the pairs of tokens users have configured
    Early,         \* bound on the consumers earlier commands left behind
    MaxRequests    \* bound on the commands run

ASSUME CredentialsAssumption ==
    /\ {WriteToken, TokenID, TokenValue} \subseteq RandomSuffixes
    /\ WriteToken # TokenID /\ WriteToken # TokenValue /\ TokenID # TokenValue
    /\ Nil \notin RandomSuffixes

ASSUME ClockAssumption ==
    Durations \subseteq Int /\ Second \in Nat \ {0} /\ MaxTime \in Nat

ASSUME TagsAssumption ==
    Lower \in [Spellings -> Tags \cup {Nil}] /\ maxTags \in Nat /\ Nil \notin Tags

ASSUME BoundsAssumption ==
    /\ Configured \subseteq Opt(RandomSuffixes) \X Opt(RandomSuffixes)
    /\ Early \subseteq Consumers
    /\ MaxRequests \in Nat

VARIABLES
    now, tokens, consumerTokens, consumerTokenValues, drawn, tokenReply,
    cmd,        \* request -> what was asked, Nil before its command starts
    credential, \* request -> the bearer token it carries, Nil for none
    stage,      \* request -> how far the server is with it
    consumer,   \* request -> the handler's local variable: whose token it is
    answer,     \* request -> what the handler wrote
    outcome,    \* request -> what became of the process
    applied,    \* the requests that took effect, in order
    wasLive,    \* the credential was good at some time since it was sent
    doneBefore, \* the commands that had exited with 0 when this one started
    issuedUnder,\* token value -> the id it was issued under
    outdated    \* request -> the values its token id had had when it ran

Tok == INSTANCE ConsumerTokens WITH reply <- tokenReply

tokenVars == <<now, tokens, consumerTokens, consumerTokenValues, drawn, tokenReply>>

history == <<applied, wasLive, doneBefore, issuedUnder, outdated>>

ASSUME AbsentTokenAssumption ==
    /\ Absent \notin RandomSuffixes /\ Absent \notin Int /\ Absent \notin Tok!consumerToken
    /\ Absent \notin [consumer : Consumers, expiresAt : Int]

allVars == <<vars, tokenVars, cmd, credential, stage, consumer, answer, outcome, history>>

Requests == 1..MaxRequests

-----------------------------------------------------------------------------
(* What may be asked.                                                      *)

ConsumerCommands ==
    [op : {"consumer add", "consumer delete"}, name : Consumers]
    \cup [op : {"consumer update"}, name : Consumers,
          newName : Opt(Consumers), publicKey : Opt(Keys)]

TokenCommands ==
    [op : {"token create"}, name : Consumers, ttl : Durations]
    \cup [op : {"token rotate"}, id : RandomSuffixes, ttl : Durations]
    \cup [op : {"token revoke", "token purge"}, id : RandomSuffixes]

\* variantFlags.validate has refused two selectors at once.
ObjectCommands ==
    [op : {"get", "delete"}, slug : Slugs, sel : Selectors]
    \cup [op : {"edit"}, slug : Slugs, sel : Selectors, description : Opt(Descriptions),
          newSlug : Opt(Slugs), tags : Opt(SUBSET Spellings)]

Commands == ConsumerCommands \cup TokenCommands \cup ObjectCommands

ASSUME AskAssumption == Ask \subseteq Commands

\* A consumer update and an edit with nothing to change end before the
\* configuration is read.
NothingToDo(c) ==
    \/ c.op = "consumer update" /\ c.newName = Nil /\ c.publicKey = Nil
    \/ c.op = "edit" /\ c.description = Nil /\ c.newSlug = Nil /\ c.tags = Nil

\* The bearer token: get falls back on the consumer token, nothing else does.
Bearer(c, token, consumerToken) ==
    IF c.op = "get" THEN Given(token, consumerToken) ELSE token

\* config(v, true) asks for a write token; get calls config(v, false).
UsageError(c, token) == NothingToDo(c) \/ (c.op # "get" /\ token = Nil)

-----------------------------------------------------------------------------
(* Answers and exits.                                                      *)

NoAnswer == [status |-> 0, reason |-> "", shown |-> Nil]

StatusOf(storeReply) ==
    CASE storeReply = "ok" -> 200
      [] storeReply = "not found" -> 404
      [] OTHER -> 409

\* Mutant: a status without a sentinel of its own gives an empty error.
mapErrorBare(a) ==
    CASE a.status = 401 -> "unauthorized"
      [] a.status = 404 -> "not found"
      [] a.status = 409 -> "already exists"
      [] OTHER -> ""

mapError(a) ==
    CASE a.status = 401 -> "unauthorized"
      [] a.status = 404 -> "not found"
      [] a.status = 409 /\ a.reason = "several variants" -> "several variants"
      [] a.status = 409 /\ a.reason # "several variants" -> "already exists"
      [] OTHER -> "unexpected status"

\* Purging a token that is not dead yet is not called a duplicate.
mapConsumerTokenIDError(a) ==
    IF mapError(a) = "already exists" THEN "token active" ELSE mapError(a)

Settled(c, a) ==
    CASE a.status \in 200..299 -> "done"
      [] a.status \notin 200..299 /\ c.op \in {"token rotate", "token purge"} ->
            mapConsumerTokenIDError(a)
      [] OTHER -> mapError(a)

Refusals == {"unauthorized", "not found", "already exists", "several variants",
             "token active", "unexpected status"}

Outcomes == {"none", "running", "usage", "done", "no answer", "interrupted"} \cup Refusals

ExitStatus(o) ==
    CASE o = "done" -> 0
      [] o = "interrupted" -> 130
      [] OTHER -> 1

-----------------------------------------------------------------------------
(* Helpers.                                                                *)

\* normalizeTags: the tags to store, Nil for an error.  They are counted
\* after those that only differ in spelling have become one.
normalizeTags(typed) ==
    LET out == {Lower[t] : t \in typed}
    IN  IF Nil \in out \/ Cardinality(out) > maxTags THEN Nil ELSE out

\* Is the credential of request r good for what it asks?
Live(r) ==
    /\ credential[r] # Nil
    /\ \/ Tok!validateToken(credential[r])
       \/ cmd[r].op = "get" /\ Tok!consumerForToken(credential[r])

Applied(r) == \E i \in DOMAIN applied : applied[i] = r

\* q took effect after r did.
AppliedAfter(r, q) ==
    \E i, j \in DOMAIN applied : i < j /\ applied[i] = r /\ applied[j] = q

Answer(r, status, reason, shown) ==
    /\ stage' = [stage EXCEPT ![r] = "answered"]
    /\ answer' = [answer EXCEPT ![r] =
          [status |-> status, reason |-> reason, shown |-> shown]]

Take(r, took) == applied' = IF took THEN Append(applied, r) ELSE applied

\* What a handler of the store writes when its method has returned.
AnswerReply(r) ==
    /\ Answer(r, StatusOf(reply'), reply', Nil)
    /\ Take(r, reply' = "ok")

-----------------------------------------------------------------------------
(* The server starts with a write token, a token of some consumer, and     *)
(* what earlier commands have stored.                                      *)

StoreBefore ==
    /\ objects \in [Slugs -> {Absent} \cup [id : {objectID(s) : s \in Slugs}, value : Values,
                     usedBy : SUBSET Early, description : {EmptyDescription}, tags : {{}}]]
    /\ \A s \in Slugs : objects[s] # Absent => objects[s].id = objectID(s)
    /\ extra \in [Slugs -> {<< >>} \cup {<<[id |-> NewString(r), value |-> v, usedBy |-> u,
                     description |-> EmptyDescription, tags |-> {}]>> :
                     r \in RandomIDs, v \in Values, u \in SUBSET Early}]
    /\ \A s \in Slugs : objects[s] = Absent => extra[s] = << >>
    /\ \A s, t \in Slugs : s # t /\ extra[s] # << >> /\ extra[t] # << >> =>
          extra[s][1].id # extra[t][1].id
    /\ issued = {r \in RandomIDs : \E s \in Slugs : extra[s] # << >> /\ extra[s][1].id = NewString(r)}
    /\ consumers \in [Consumers -> Keys \cup {Nil, Absent}]
    /\ \A c \in Consumers \ Early : consumers[c] = Absent
    /\ \A s \in Slugs : objects[s] # Absent => \A c \in objects[s].usedBy : consumers[c] # Absent
    /\ reply = "ok"

TokensBefore ==
    /\ now = 0
    /\ tokens = [w \in RandomSuffixes |-> IF w = WriteToken THEN Second ELSE Absent]
    /\ \E c \in Early : consumerTokens = [i \in RandomSuffixes |-> IF i = TokenID
          THEN [consumer |-> c, expiresAt |-> 0, revoked |-> FALSE, value |-> TokenValue]
          ELSE Absent]
    /\ consumerTokenValues = [v \in RandomSuffixes |-> IF v = TokenValue THEN TokenID ELSE Absent]
    /\ drawn = {WriteToken, TokenID, TokenValue}
    /\ tokenReply = 200

NothingRun ==
    /\ cmd = [r \in Requests |-> Nil]
    /\ credential = [r \in Requests |-> Nil]
    /\ stage = [r \in Requests |-> "unsent"]
    /\ consumer = [r \in Requests |-> Nil]
    /\ answer = [r \in Requests |-> NoAnswer]
    /\ outcome = [r \in Requests |-> "none"]
    /\ applied = << >>
    /\ wasLive = [r \in Requests |-> FALSE]
    /\ doneBefore = [r \in Requests |-> {}]
    /\ issuedUnder = consumerTokenValues
    /\ outdated = [r \in Requests |-> {}]

RunInit == StoreBefore /\ TokensBefore /\ NothingRun

-----------------------------------------------------------------------------
(* The process.                                                            *)

Begin(r) ==
    /\ outcome[r] = "none"
    /\ \A q \in Requests : q < r => outcome[q] # "none"
    /\ \E c \in Ask, token, consumerToken \in Opt(RandomSuffixes) :
         /\ <<token, consumerToken>> \in Configured
         /\ cmd' = [cmd EXCEPT ![r] = c]
         /\ doneBefore' = [doneBefore EXCEPT ![r] = {q \in Requests : outcome[q] = "done"}]
         /\ \/ /\ UsageError(c, token)
               /\ outcome' = [outcome EXCEPT ![r] = "usage"]
               /\ UNCHANGED <<stage, credential>>
            \/ /\ ~UsageError(c, token)
               /\ outcome' = [outcome EXCEPT ![r] = "running"]
               /\ stage' = [stage EXCEPT ![r] = "sent"]
               /\ credential' = [credential EXCEPT ![r] = Bearer(c, token, consumerToken)]
    /\ UNCHANGED <<vars, tokenVars, consumer, answer, applied, issuedUnder, outdated>>

Leave(r, o) ==
    /\ outcome[r] = "running"
    /\ outcome' = [outcome EXCEPT ![r] = o]
    /\ UNCHANGED <<vars, tokenVars, cmd, credential, stage, consumer, answer,
                   applied, doneBefore, issuedUnder, outdated>>

Receive(r) == stage[r] = "answered" /\ Leave(r, Settled(cmd[r], answer[r]))

\* Mutant: a lost connection is no error.
LoseAnswerAsDone(r) == Leave(r, "done")

\* Mutant: a request whose answer is lost is sent again.
LoseAnswerRetried(r) ==
    /\ outcome[r] = "running" /\ stage[r] = "answered"
    /\ stage' = [stage EXCEPT ![r] = "sent"]
    /\ UNCHANGED <<vars, tokenVars, cmd, credential, consumer, answer, outcome,
                   applied, doneBefore, issuedUnder, outdated>>

\* The connection fails, before or after the request has got through.
LoseAnswer(r) == Leave(r, "no answer")

\* Ctrl-C cancels the context; an answer that is there already is kept.
Interrupt(r) == Leave(r, "interrupted")

\* The request never reaches the server.
Drop(r) ==
    /\ stage[r] = "sent"
    /\ stage' = [stage EXCEPT ![r] = "dropped"]
    /\ UNCHANGED <<vars, tokenVars, cmd, credential, consumer, answer, outcome,
                   applied, doneBefore, issuedUnder, outdated>>

-----------------------------------------------------------------------------
(* The handler: first the credential.                                      *)

\* requireWriteToken, or the first half of handleGetObject.  There the two
\* lookups lock separately; a value drawn for one table is never in the
\* other, so that one step loses no outcome.
Judge(r) ==
    /\ stage[r] = "sent"
    /\ \/ /\ ~Live(r)
          /\ Answer(r, 401, "", Nil)
          /\ UNCHANGED consumer
       \/ /\ Live(r)
          /\ stage' = [stage EXCEPT ![r] = "judged"]
          /\ consumer' = [consumer EXCEPT ![r] =
                IF Tok!validateToken(credential[r]) THEN Nil
                ELSE consumerTokens[consumerTokenValues[credential[r]]].consumer]
          /\ UNCHANGED answer
    /\ UNCHANGED <<vars, tokenVars, cmd, credential, outcome, applied, doneBefore,
                   issuedUnder, outdated>>

-----------------------------------------------------------------------------
(* The handlers, past requireWriteToken.                                   *)

\* Mutant: the error of AddConsumer is dropped.
handleAddConsumerUnchecked(r, c) ==
    /\ c.op = "consumer add"
    /\ AddConsumer(c.name)
    /\ stage' = [stage EXCEPT ![r] = "added"]
    /\ Take(r, TRUE)
    /\ UNCHANGED answer

handleAddConsumer(r, c) ==
    /\ c.op = "consumer add"
    /\ AddConsumer(c.name)
    /\ \/ reply' # "ok" /\ AnswerReply(r)
       \/ /\ reply' = "ok"
          /\ stage' = [stage EXCEPT ![r] = "added"]
          /\ Take(r, TRUE)
          /\ UNCHANGED answer

\* Mutant: the answer is 404 when the entry has gone by then.
consumerEntryChecked(r) ==
    /\ stage[r] = "added"
    /\ LET entry == consumers[cmd[r].name]
       IN  IF entry = Absent THEN Answer(r, 404, "", Nil)
           ELSE Answer(r, 200, "", [listed |-> TRUE,
                                    publicKey |-> IF entry \in Keys THEN entry ELSE Nil])
    /\ UNCHANGED <<vars, tokenVars, cmd, credential, consumer, outcome, applied,
                   doneBefore, issuedUnder, outdated>>

\* The second critical section of handleAddConsumer: the entry as it is now.
consumerEntryLocked(r) ==
    /\ stage[r] = "added"
    /\ LET entry == consumers[cmd[r].name]
       IN  Answer(r, 200, "", [listed |-> entry # Absent,
                               publicKey |-> IF entry \in Keys THEN entry ELSE Nil])
    /\ UNCHANGED <<vars, tokenVars, cmd, credential, consumer, outcome, applied,
                   doneBefore, issuedUnder, outdated>>

handleUpdateConsumer(r, c) ==
    /\ c.op = "consumer update"
    /\ UpdateConsumer(c.name, c.newName, c.publicKey)
    /\ AnswerReply(r)

handleDeleteConsumer(r, c) ==
    /\ c.op = "consumer delete"
    /\ DeleteConsumer(c.name)
    /\ AnswerReply(r)

\* Mutant: the consumer's scope is not looked at.
handleGetObjectUnscoped(r, c) ==
    /\ c.op = "get"
    /\ \/ ~Found(c.slug, c.sel) /\ Answer(r, 404, "", Nil)
       \/ \E i \in DOMAIN variantsLocked(c.slug) :
            /\ findLocked(c.slug, c.sel, i)
            /\ Answer(r, 200, "", variantsLocked(c.slug)[i])
    /\ UNCHANGED <<vars, applied>>

handleGetObject(r, c) ==
    /\ c.op = "get"
    /\ \/ /\ ~Found(c.slug, c.sel)
          /\ LET err == FindError(c.slug, c.sel) IN Answer(r, StatusOf(err), err, Nil)
       \/ \E i \in DOMAIN variantsLocked(c.slug) :
            /\ findLocked(c.slug, c.sel, i)
            /\ LET obj == variantsLocked(c.slug)[i]
               IN  IF consumer[r] # Nil /\ consumer[r] \notin obj.usedBy
                   THEN Answer(r, 404, "", Nil)
                   ELSE Answer(r, 200, "", obj)
    /\ UNCHANGED <<vars, applied>>

handlePatchObject(r, c) ==
    /\ c.op = "edit"
    /\ \/ /\ c.tags # Nil /\ normalizeTags(c.tags) = Nil
          /\ Answer(r, 400, "invalid tags", Nil)
          /\ UNCHANGED <<vars, applied>>
       \/ /\ c.tags = Nil \/ normalizeTags(c.tags) # Nil
          /\ patchVariant(c.slug, c.sel, c.description, c.newSlug,
                          IF c.tags = Nil THEN Nil ELSE normalizeTags(c.tags))
          /\ AnswerReply(r)

handleDeleteObject(r, c) ==
    /\ c.op = "delete"
    /\ deleteVariant(c.slug, c.sel)
    /\ AnswerReply(r)

StoreHandler(r, c) ==
    /\ \/ handleAddConsumer(r, c) \/ handleUpdateConsumer(r, c) \/ handleDeleteConsumer(r, c)
       \/ handleGetObject(r, c) \/ handlePatchObject(r, c) \/ handleDeleteObject(r, c)
    /\ UNCHANGED <<tokenVars, issuedUnder, outdated>>

\* A fresh value goes out with its id and expiry, this once.
AnswerValue(r, i) ==
    /\ Answer(r, tokenReply', "", [id |-> i, value |-> consumerTokens'[i].value,
                                   expiresAt |-> consumerTokens'[i].expiresAt])
    /\ Take(r, TRUE)
    /\ issuedUnder' = [issuedUnder EXCEPT ![consumerTokens'[i].value] = i]

AnswerToken(r) ==
    /\ Answer(r, tokenReply', "", Nil)
    /\ Take(r, tokenReply' = 204)
    /\ UNCHANGED issuedUnder

\* The values the token of this id has had so far.
Outdate(r, id) ==
    outdated' = [outdated EXCEPT ![r] = {v \in RandomSuffixes : issuedUnder[v] = id}]

handleCreateConsumerToken(r, c) ==
    /\ c.op = "token create"
    /\ Tok!CreateConsumerToken(c.name, c.ttl)
    /\ \/ tokenReply' # 201 /\ AnswerToken(r)
       \/ /\ tokenReply' = 201
          /\ \E i \in RandomSuffixes : /\ consumerTokens[i] = Absent
                                       /\ consumerTokens'[i] # Absent
                                       /\ AnswerValue(r, i)
    /\ UNCHANGED outdated

\* Mutant: the answer carries the value from before the rotation.
handleRotateConsumerTokenOld(r, c) ==
    /\ c.op = "token rotate"
    /\ Tok!RotateConsumerToken(c.id, c.ttl)
    /\ \/ tokenReply' # 200 /\ AnswerToken(r)
       \/ /\ tokenReply' = 200
          /\ Answer(r, 200, "", [id |-> c.id, value |-> consumerTokens[c.id].value,
                                 expiresAt |-> consumerTokens'[c.id].expiresAt])
          /\ Take(r, TRUE)
          /\ UNCHANGED issuedUnder
    /\ Outdate(r, c.id)

handleRotateConsumerToken(r, c) ==
    /\ c.op = "token rotate"
    /\ Tok!RotateConsumerToken(c.id, c.ttl)
    /\ \/ tokenReply' # 200 /\ AnswerToken(r)
       \/ tokenReply' = 200 /\ AnswerValue(r, c.id)
    /\ Outdate(r, c.id)

\* Mutant: the flag is set in a copy of the record.
handleRevokeConsumerTokenCopied(r, c) ==
    /\ c.op = "token revoke"
    /\ Tok!Answer(204)
    /\ AnswerToken(r)
    /\ Outdate(r, c.id)

handleRevokeConsumerToken(r, c) ==
    /\ c.op = "token revoke"
    /\ Tok!RevokeConsumerToken(c.id)
    /\ AnswerToken(r)
    /\ Outdate(r, c.id)

handlePurgeConsumerToken(r, c) ==
    /\ c.op = "token purge"
    /\ Tok!PurgeConsumerToken(c.id)
    /\ AnswerToken(r)
    /\ Outdate(r, c.id)

TokenHandler(r, c) ==
    /\ \/ handleCreateConsumerToken(r, c) \/ handleRotateConsumerToken(r, c)
       \/ handleRevokeConsumerToken(r, c) \/ handlePurgeConsumerToken(r, c)
    /\ UNCHANGED vars

Handle(r) ==
    /\ stage[r] = "judged"
    /\ StoreHandler(r, cmd[r]) \/ TokenHandler(r, cmd[r])
    /\ UNCHANGED <<cmd, credential, consumer, outcome, doneBefore>>

-----------------------------------------------------------------------------
Tick ==
    /\ Tok!Tick
    /\ UNCHANGED <<vars, cmd, credential, stage, consumer, answer, outcome,
                   applied, doneBefore, issuedUnder, outdated>>

\* Every command has ended and no handler is at work.
Over ==
    /\ \A r \in Requests : /\ outcome[r] \notin {"none", "running"}
                           /\ stage[r] \notin {"sent", "judged", "added"}
    /\ now = MaxTime
    /\ UNCHANGED allVars

Watched(r) == stage[r] \in {"sent", "judged"} /\ Live(r)

RunNext ==
    /\ \/ \E r \in Requests :
            \/ Begin(r) \/ Receive(r) \/ LoseAnswer(r) \/ Interrupt(r) \/ Drop(r)
            \/ Judge(r) \/ Handle(r) \/ consumerEntryLocked(r)
       \/ Tick
       \/ Over
    /\ wasLive' = [r \in Requests |-> wasLive[r] \/ Watched(r)']

RunSpec == RunInit /\ [][RunNext]_allVars

-----------------------------------------------------------------------------
(* Properties.                                                             *)

Served == [listed : BOOLEAN, publicKey : Opt(Keys)]
          \cup [id : RandomSuffixes, value : RandomSuffixes, expiresAt : Int]
          \cup Object

Reasons == {"", "invalid tags"} \cup Replies

\* Every variable of a command holds a value of its kind.
RunTypeOK ==
    /\ cmd \in [Requests -> Opt(Commands)]
    /\ credential \in [Requests -> Opt(RandomSuffixes)]
    /\ stage \in [Requests -> {"unsent", "sent", "dropped", "judged", "added", "answered"}]
    /\ consumer \in [Requests -> Opt(Consumers)]
    /\ answer \in [Requests -> [status : Nat, reason : Reasons, shown : Opt(Served)]]
    /\ outcome \in [Requests -> Outcomes]
    /\ applied \in Seq(Requests)
    /\ wasLive \in [Requests -> BOOLEAN]
    /\ doneBefore \in [Requests -> SUBSET Requests]
    /\ issuedUnder \in [RandomSuffixes -> RandomSuffixes \cup {Absent}]
    /\ outdated \in [Requests -> SUBSET RandomSuffixes]

\* The exit status and the error tell what the server did: a command that
\* exits with 0 took effect, once, and one that ends with an error the
\* server answered, or before sending anything, did not and never will,
\* whatever else ran meanwhile.  (Only a lost answer and Ctrl-C leave it
\* open.)
ExitTellsTruth ==
    /\ \A r \in Requests :
         /\ ExitStatus(outcome[r]) = 0 /\ cmd[r].op # "get" => Applied(r)
         /\ outcome[r] \in Refusals \cup {"usage"} =>
              ~Applied(r) /\ stage[r] \in {"unsent", "answered"}
    /\ \A i, j \in DOMAIN applied : applied[i] = applied[j] => i = j

\* A command takes effect after every command that had exited with 0 when it
\* began, even one whose answer is lost and whose request arrives late.
EffectsFollowExits ==
    \A r \in Requests : \A q \in doneBefore[r] : ~AppliedAfter(r, q)

\* Nothing takes effect and nothing is served without a credential that was
\* good at some time between the command's start and the answer, and a
\* consumer token is served objects that name its consumer, although
\* credential and object are looked at in different critical sections.
EffectWasAuthorized ==
    \A r \in Requests :
        /\ Applied(r) \/ answer[r].status = 200 => wasLive[r]
        /\ answer[r].status = 200 /\ cmd[r].op = "get" /\ consumer[r] # Nil =>
              consumer[r] \in answer[r].shown.usedBy

\* "the old secret stops authenticating immediately": once rotate, revoke or
\* purge has exited with 0, no command begun with a value the token had
\* before gets anything.
EndedTokenReadsNothing ==
    \A q, r \in Requests :
        q \in doneBefore[r] /\ credential[r] \in outdated[q] =>
            answer[r].status \in {0, 401}

\* The commands that take a consumer's name out of the used_by lists.
TakesOut(c, name) ==
    \/ c.op = "consumer delete" /\ c.name = name
    \/ /\ c.op = "consumer update" /\ c.name = name
       /\ c.newName # Nil /\ c.newName # name

\* A rename of another consumer onto the name puts it in again.
PutsIn(c, name) ==
    c.op = "consumer update" /\ c.newName = name /\ c.name # name

\* "delete strips the consumer from every secret's used_by list": once a
\* delete or a rename has exited with 0, a command begun with the consumer's
\* token, which stays valid, is served no object for that name any more,
\* unless a later rename onto it put it in again.  (No command here writes a
\* used_by list of its own, as inject and update do.  The further variants of
\* a slug, which the walks over used_by leave out, are exempt while their
\* random id tells them.)
StrippedConsumerReadsNothing ==
    \A q, r \in Requests :
        (/\ q \in doneBefore[r] /\ consumer[r] # Nil /\ TakesOut(cmd[q], consumer[r])
         /\ cmd[r].op = "get" /\ answer[r].status = 200
         /\ answer[r].shown.id \in {objectID(s) : s \in Slugs})
        => \E p \in Requests : AppliedAfter(q, p) /\ PutsIn(cmd[p], consumer[r])

\* The value create and rotate print is good until it expires or a command
\* that took effect later rotates, revokes or purges the token, in whatever
\* order the answers arrive.
ShownTokenWorks ==
    \A r \in Requests :
        outcome[r] = "done" /\ cmd[r].op \in {"token create", "token rotate"} =>
            \/ now > answer[r].shown.expiresAt
            \/ \E q \in Requests :
                  /\ AppliedAfter(r, q)
                  /\ cmd[q].op \in {"token rotate", "token revoke", "token purge"}
                  /\ cmd[q].id = answer[r].shown.id
            \/ Tok!consumerForToken(answer[r].shown.value)

\* The entry that add prints is the fresh one, in the directory and without
\* a key, unless a command that took effect after the add changed it.
AddShowsItsEntry ==
    \A r \in Requests :
        outcome[r] = "done" /\ cmd[r].op = "consumer add" =>
            \/ answer[r].shown = [listed |-> TRUE, publicKey |-> Nil]
            \/ \E q \in Requests :
                  /\ AppliedAfter(r, q)
                  /\ \/ cmd[q].op = "consumer delete" /\ cmd[q].name = cmd[r].name
                     \/ /\ cmd[q].op = "consumer update"
                        /\ cmd[r].name \in {cmd[q].name, cmd[q].newName}

\* What the user of a command knows of it: neither a lost answer nor Ctrl-C
\* tells whether it took effect.
Known(o) ==
    CASE o = "none" -> "idle"
      [] o \in {"running", "done"} -> o
      [] o \in Refusals \cup {"usage"} -> "failed"
      [] OTHER -> "unclear"

Contract == INSTANCE CommandContract WITH
    known <- [r \in Requests |-> Known(outcome[r])],
    reads <- {r \in Requests : outcome[r] # "none" /\ cmd[r].op = "get"},
    effects <- applied

\* Seen by their users, commands are single steps: request, judgement,
\* handler and answer, in whatever order and with whatever losses, come to
\* one effect between start and success, to none before or after a failure,
\* and to at most one when the outcome is unclear.
ImplementsContract == Contract!Spec

=============================================================================
