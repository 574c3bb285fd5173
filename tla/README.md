# A verification of hush-hush-cli

`hush-hush-cli` seals secrets on the writer's machine and stores them on a
server. This repository holds the command-line program (`cmd/`,
`internal/cmd`, `internal/cli`, `internal/cliconfig`, `internal/render`), the
client of the server's API (`internal/client`), the sealing (`internal/seal`)
and an in-memory implementation of the server (`internal/testserver`), which
carries the rules every command relies on: what an object, a variant, a
consumer and a token are, and what each request does to them.

The TLA+ modules here model those rules and the commands that run against
them, TLC checks them on small instances, and TLAPS proves the most important
results for all instances.

## 1. Inventory

| Component | State | Operations | What is hard | What makes it correct |
|---|---|---|---|---|
| Object store (`testserver.go` 65-478) | `objects`: the first variant of every name; `extra`: its further ones; ids | create, add variant, update, patch (also rename), set tags, delete | a name is split over two maps; deletion promotes; renames move both; ids are derived from names | no orphaned variants, distinct ids, each operation touches one variant or moves a whole name |
| Consumer directory (`testserver.go` 483-707) | `consumers`: name to key; the `used_by` lists of the objects | add, update (rename, merge, set key), delete; joined by create and update | two structures that must agree; merging renames | every consumer a created object names has an entry; keys are not lost |
| Tokens (`testserver.go` 118-187, 871-1027; `client/consumer_tokens.go`; `cmd/tokens.go`) | write tokens; consumer token records; lookup from value to record; the clock | create, rotate, revoke, purge, list, judge | two maps in step; expiry; time passing between any two steps | a dead credential stays dead; listings offer what the server takes |
| Audit log (`testserver.go` 761-869) | append-only entries with a sequence number | record, one page of a query | filter and cursor combined | pages are sorted and complete up to the limit |
| `audit-log` command (`client.go` 318-364) | filter, limit, cursor, collected entries | one request per page | the log grows between pages | the result is one atomic query; the loop ends |
| `consumers` command (`client/consumers.go` 31-63) | page number, collected entries | one request per page | the directory changes between pages | how much a listing can miss |
| `inject`, `update` (`cli/inject.go`, `cli/update.go`, `cli/options.go`) | recipients collected so far | key lookups, owner key, seal, one write | many requests, other clients in between, failure of one lookup, interruption | sealed to every consumer or not written at all |
| Commands of one request (`get`, `edit`, `delete`, `consumer add/update/delete`, `token create/rotate/revoke/purge`: `internal/cmd`, `internal/cli`, `internal/client`) | none but the request and its answer | one request each | the server judges the credential in one critical section and acts in another (`add` in a third); it goes on when the process has given up; answers may arrive out of order | exit status and message tell what happened; what happened was authorized; a token ended is ended, a token shown works |
| `list`, `used-by`, `status`, `health` | none | one request each that changes nothing | nothing ordered | not modelled |
| Configuration (`internal/cliconfig`, `cmd/root.go`) | config file, keyring, environment | offer, prompts, `init`, resolving settings | keyring and file are written one after the other, in several processes; each may die in between | a file never refers to a missing keyring entry; nothing is kept that nobody asked to keep; a file is not overwritten unasked |
| Process (`cmd/hush-hush-cli/main.go`) | context, exit status | run, interrupt | an answer may be lost, or Ctrl-C pressed, before or after the write | only 0 promises an effect, only an answered error promises none |
| Rendering, man pages, completions, cobra wiring | none | formatting | nothing ordered or shared | not modelled |
| SDK, age, viper, OS keyring | external | | | modelled only as used |

Components interact as follows: a command is a process that sends requests one
after another; the server answers each in a handler that calls `Store`
methods; a `Store` method holds one mutex from its first to its last line and
is therefore atomic. Any number of commands run at once, so between two
requests of one command, and between two critical sections of one handler,
anything else may happen. Nothing is persisted by the server.

## 2. Modules

| Module | Models | Role |
|---|---|---|
| `ObjectStore` | objects, variants, consumer directory | core; one action per `Store` method |
| `Catalog` | what the object store promises | abstract specification of `ObjectStore` |
| `ConsumerTokens` | write and consumer tokens with a clock | component |
| `TokenLedger` | what the server promises about consumer tokens | abstract specification of `ConsumerTokens` |
| `AuditStore` | the log and one query page | operators shared by the next two |
| `AuditQuery` | the audit query as one atomic step | abstract specification of `AuditPager` |
| `AuditPager` | `client.QueryAuditLog` against a growing log | component, with fairness |
| `ConsumerPager` | `client.ListConsumers` against a changing directory | component |
| `SealedWrite` | `cli.Inject` and `cli.Update` | composition: EXTENDS `ObjectStore`, whose actions are the steps of other clients and the command's last step |
| `CommandRun` | every command of one request, from its start to its exit status, and the server's handlers | composition: EXTENDS `ObjectStore`, INSTANCE `ConsumerTokens`; its handlers run their operations |
| `CommandContract` | what the user of a command may rely on | abstract specification of `CommandRun` |
| `ConfigFile` | `internal/cliconfig`, `init` and the offer before other commands | component |
| `MC...` | constants for TLC | |
| `...Proofs` | theorems and proofs about the module they extend | |
| `CatalogRefinement` | the proof that `ObjectStore` implements `Catalog` | |

### ObjectStore

`objects`, `extra` and `consumers` are the maps of the same name in `Store`;
`Absent` is no entry, `Nil` a nil pointer. `issued` is the random UUIDs handed
out so far (a random UUID is never repeated); `reply` is what the last
operation returned. An id is `objectID(slug)` (derived) or `NewString(r)`
(random). Sealed values, descriptions, tags and keys are model values; lists
of consumers and tags are sets; timestamps are left out because nothing reads
them back. Each of the nine disjuncts of `Next` is a method with every
argument a request may carry, error returns included: `Create`, `Extend`,
`Update`, `Patch`, `Retag`, `Delete`, `Register`, `Rename`, `Unregister`.
Checks of a request's shape (malformed JSON, an empty slug, invalid tags)
answer 400 before the store is reached and are left out, except the one that
limits what a patch may carry.

`Catalog` keeps one list of (id, value) per name. `ImplementsCatalog` says
that, seen through `variantsLocked`, every step of the store adds one entry at
the end, replaces one value, drops one entry, moves a whole name to a free
one, or changes nothing.

### ConsumerTokens

`consumerTokens` and `consumerTokenValues` are the maps of `Store`; `drawn`
records every random suffix ever used, for values and ids alike; `now` is the
server's clock, and `Tick` may come between any two steps. Durations are in
ticks, `Second` ticks a second, so that the truncation in
`int64(ttl.Seconds())` is visible. The three comparisons with an expiry are
kept as they are in the code: `Before` in the status, in purging and for write
tokens, `After` in rotation and in `consumerForToken`.
Whether the caller's own write token is valid does not restrict the model:
`requireWriteToken` judges it in an earlier critical section.

`TokenLedger` has one map from values to (consumer, expiry) and a set of used
values. Ids, revoked records and the split over two maps are hidden: creation
issues a value, rotation exchanges a good one for another of the same consumer,
revocation and purging withdraw one, and what happens to a record whose value
is gone already is a stutter. `ImplementsLedger` says that the records and the
lookup, read together, are such a ledger.

### AuditStore, AuditQuery, AuditPager

An entry's id is its position in the log. `QueryAuditLog` describes a page by
its contents: the first `limit` matching ids past the cursor, in order.
`AuditPager`'s `Fetch` is one turn of the client's loop, from request to
decision; `Record` is any other client. `Break` is any error or interrupt.
`AuditQuery` replaces the loop by one `Answer` step; the refinement mapping
hides the entries collected while the loop runs. `EveryPageAdvances` is the
safety half of `QueryEnds`: a request followed by another has brought a full
page of entries behind the cursor.

### ConsumerPager

Consumer names are numbers, ordered as names are. `Slice` is the window of the
sorted matching names that the server cuts for a page. `stayed`, `removed` and
`joined` are history variables: what was in the directory throughout, and how
many entries left and came. An entry that leaves moves later ones forward, past
the window of the next page (`MissedAtMostRemoved`); one that comes moves
earlier ones back, into it (`RepeatedAtMostJoined`).

### SealedWrite

A sealed value is the set of keys it is sealed to, so `Values` is instantiated
with sets of keys. A writer runs one command at a time: `Begin` (flags parsed),
`Resolve` (one key looked up, or failure), `Seal` (owner key added if asked
for, then sealing), `Write` (the one request that changes the store),
`Interrupt`. `Others` are `ObjectStore`'s actions on consumers, and deletion.
Renaming an object and adding variants are left out of `Others`: they move or
add values and never combine a value with another list of consumers.
`held`, `touched` and `byDirectory` are history variables.
`UndisturbedWritesAreCurrent` is what is left of the promise that
`SealedToRegisteredKeys` finds broken: an applied write whose consumers' entries
nobody else changed while the command ran is sealed to the keys registered when
it is applied.

### CommandRun

A request `r` is one command: `cmd[r]` what was asked, `credential[r]` the
bearer token it carries, `outcome[r]` what became of the process, `stage[r]`
how far the server is with it, `consumer[r]` the local variable of
`handleGetObject`, `answer[r]` what the handler wrote. Process and server step
independently:

- `Begin` starts a command with a configuration (`newGetCmd` and its sisters,
  `config`, `Config.Validate`): it ends as a usage error, or its request is
  sent with the token of `Bearer`.
- `Drop` loses the request on its way; `LoseAnswer` and `Interrupt` end the
  process in whatever stage the server is.
- `Judge` is `requireWriteToken`, or the first half of `handleGetObject`.
- `Handle` is the rest of the handler in one step, with the operation of
  `ObjectStore` or `ConsumerTokens` it calls; `consumerEntryLocked` is the
  second critical section of `handleAddConsumer`.
- `Receive` turns the answer into an error by `mapError` and
  `mapConsumerTokenIDError`, and `ExitStatus` that into 0, 1 or 130.
- `Tick` lets time pass.

The server's `Store` methods ignore the request's context, so nothing in
`Judge` or `Handle` asks whether the process is still there.
A 2xx of the store is 200 here, whichever it is; a success body is the part of
it the properties read. `get` looks its credential up in two tables under two
locks; a value drawn for one table never gets into the other, so `Judge` does
both at once. Plaintext, `mapConsumerError` (another noun in the message) and
the malformed requests the commands cannot send are left out.

`applied` (what took effect, in order), `wasLive`, `doneBefore`, `issuedUnder`
and `outdated` are history variables. `wasLive[r]` is whether the credential
was good at any time between sending and answering: for `get` nothing stronger
holds, since there need be no single instant at which the token is live *and*
the object names its consumer. `EndedTokenReadsNothing` says what remains:
a command begun after a successful revocation gets nothing. Neither does
`EffectWasAuthorized` exclude a write whose token expires between
`requireWriteToken` and the handler; it excludes one whose token was good at no
time after the command began. `StrippedConsumerReadsNothing` is about the other
way to end a token's reach: once `consumer delete`, or a rename, has exited with
0, the token, still valid, is served no object for the old name, unless a later
rename put that name into the lists again. (`inject` and `update`, which may name it
again too, are in `SealedWrite`, not among these commands.) Further variants are
exempt: the server's walks over `used_by` leave them out.
`EffectsFollowExits` is the order of effects: `doneBefore[r]` are the commands
that had exited with 0 when `r` began, and none of them takes effect after `r`,
although `r`'s request may be late and its answer lost. Since each effect is
one step (two for `add`, whose `applied` is the first) and happens at most
once (`ExitTellsTruth`), the commands that write are linearizable.

`CommandContract` puts this as a specification of its own, with nothing left of
requests, credentials and handlers: a command is started, takes effect in one
step or not at all, and succeeds, fails or ends unclear. The effect comes
before a success and never with a failure; after an unclear end (answer lost,
Ctrl-C) it may still come. `ImplementsContract` is the refinement; the mapping
takes `outcome[r]` to what it tells the user.

### ConfigFile

`file` is what the config file makes of the two credentials `init` asks for:
`Absent`, `Empty` (between the open and the write of `os.WriteFile`), `Torn`
(two writes on top of each other that are not YAML any more), or per field a
literal and a command as `Render` writes them. `keyring` has one entry per
field. A process goes through `Start` (`newRootCmd` reads the file),
`OfferInit` or `RunInit` (is there a file, may it be written), `Decline` or
`PromptConfig`, one `Persist` per field (keyring first), `Truncate`, `Fill`
and `Reload`; `Exit` may follow any of them: an error, an interrupt, a crash,
or the end. Processes run concurrently. `disturbed`, `overtaken` and `kept` are
history variables: whether another process has touched file or keyring, whether
one has opened the file since this one found none, and what users asked to keep. Running a retrieval command yields `Output(command)`, and the
generated one, `KeyringGet`, the keyring entry. A short write is left out.

## 3. Runs

| Run | Configuration | Shows |
|---|---|---|
| `object_directory` | 2 slugs, 2 consumers, 2 keys, 1 further variant | `TypeOK`, `DirectoryCoversCreated`, `KeyNeverForgotten` |
| `object_variants` | 2 slugs, 2 random ids (names of up to 3 variants), 2 values | `NoOrphanVariants`, `VariantIDsDistinct`, `ImplementsCatalog` |
| `consumer_tokens` | 2 consumers, 5 suffixes, durations of -1, 1 and 3 half seconds, 4 ticks | `LookupMatchesRecords`, `ListedActionsWork`, `DeadStaysDead`, `ImplementsLedger` |
| `token_expiry_instant` | the same | violation of `ListedExpiredIsRefused` |
| `audit_pager` | log of up to 5 entries of 3 kinds, pages of 2, 5 filters, limits none/1/2/3 | `ResultIsPrefix`, `ImplementsQuery`, `EveryPageAdvances`, `QueryEnds` |
| `consumer_pager` | 5 names, pages of 2, up to 2 removals during a listing | `MissedAtMostRemoved`, `RepeatedAtMostJoined` |
| `consumer_whole_set` | the same | violation of `WholeSet` |
| `sealed_write` | 1 slug, 2 consumers, 2 keys and the owner's, 1 writer | `SealedForItsConsumers`, `UndisturbedRecipientsAreCurrent`, `UndisturbedWritesAreCurrent` |
| `sealed_keys_current` | as `sealed_write` | violation of `SealedToRegisteredKeys` |
| `command_run` | 2 commands of any of 12 requests, with a write token or a consumer token; 2 consumers, 1 slug, 4 fresh suffixes, 1 tick, at most 1 tag | `ExitTellsTruth`, `EffectsFollowExits`, `EffectWasAuthorized`, `EndedTokenReadsNothing`, `ShownTokenWorks`, `AddShowsItsEntry`, `StrippedConsumerReadsNothing`, `ImplementsContract` |
| `config_file` | 2 processes, 1 secret, 1 command, something typed for `identity` only | `KeyringBacksFile`, `ResolvedWasKept`, `SavedIsUsed`, `NeverOverwrittenUnasked` |
| `config_skip_unused` | 1 process, something typed for `token` | violation of `SkippedIsUsed` |

**Why the bounds are enough.** Two slugs are a source and a (free or taken)
target of a rename; two random ids give a name three variants, so that a
first, a middle and a last one can be deleted. Two consumers are the source
and target of a merge, two keys tell a kept key from a lost one. Five suffixes
allow two consumer tokens (each needs an id and a value) and one rotation or
write token besides; four ticks take a token past its expiry and leave time to
rotate; two consumers tell an exchange that keeps the consumer from one that does
not. Five entries with pages of two make three pages, the last one short;
the filters let through everything, the middle of the log, or are refused.
Five names with pages of two make three pages too, and with two removals the
bound in `MissedAtMostRemoved` is not just 0 or 1 (joins need no bound: a name
has to leave before it can come again). Two config processes are one
that writes and one that interferes at any of its steps; `Asked` bounds the
fields something is typed for, the other one getting a bare Enter; `identity`
is the one whose line, the file's last, can outlive a shorter write. In
`command_run`, `MaxRequests` is 2: each property relates two commands (a get
and a revocation, two rotations, an add and a deletion), and either may be
handled before, between or after the steps of the other; `Ask` bounds what is
asked to a request of every kind and the two that conflict over tags,
`Configured` the credentials to a writer's and a reader's, `Early` the
consumers that are there from the start; four fresh suffixes are enough for
two creations, one tick ends the write token, takes the
first consumer token from the instant of its expiry past it, and a fresh one to
that instant. The theorems of `CommandRunProofs` and
`SealedWriteProofs` are for any number of commands and writers. What the two
runs leave to them: `sealed_write` has one writer, so that two commands writing
the same name at once are covered by `AlwaysSealedForItsConsumers` only; and the
commands of `command_run` carry the values the tokens had at the start, so that
of a fresh value that was rotated away only `EndedTokensReadNothing` says that
it reads nothing. `MaxEntries`,
`MaxTime` and `MaxRemoved` bound counters that the code does not bound.
`SYMMETRY` permutes model values only; none of the liveness runs uses it. The
sealing runs leave the last reply out of the state (`VIEW`): no guard reads it
and no property but the type invariant does; `command_run` also identifies the
two ways of ending without an answer, which no property tells apart.
Deadlock is checked in every run.

**Fairness.** Only `AuditPager` assumes any: weak fairness of `Fetch \/ Refuse`,
because the client's loop sends its next request at once and the server
answers. No fairness is assumed of other clients, of the clock or of an
interrupt. `QueryEnds` is shown for a log that stops growing: against one that
gains a full matching page per request for ever the loop does not end, and the
code does not promise it to.

**Violations found.** Each of the four violation runs states what a comment or
document of the repository says, and TLC shows the code doing otherwise.

- `consumer_whole_set`: `client/consumers.go:32` says "the caller always gets
  the whole set"; when an entry of an earlier page leaves between two pages,
  the first entry of the next page is never listed.
- `token_expiry_instant`: at `now = ExpiresAt` a token's status is `expired`
  (`!now.Before`), and `consumerForToken`, "false for an unknown, revoked, or
  expired value", accepts it (`now.After` is false). Its listed action `purge`
  works at that instant as well.
- `sealed_keys_current`: `README.md:154` says `update --used-by` seals to the
  consumers' registered keys. The keys are those registered when each was
  looked up; one that changes before the write is not noticed. If the consumer
  is removed in between, the write brings it back to the directory without a
  key.

- `config_skip_unused`: `prompt.go:63` says of a credential that is not to be
  saved "it's used for this invocation only". `PersistCredential` drops it, and
  the command the offer precedes reads its settings back from the file, so it
  runs without the credential just typed.

Other divergences have no run of their own. `cmd/audit_log.go:18` says the
command "makes exactly one request per invocation"; `Fetch` in `AuditPager`
sends one per page. `cliconfig.go:66` says of an existing file "never overwrite
it unasked"; a file that another process writes while the prompts are open is
overwritten all the same. The `overtaken[p]` in `NeverOverwrittenUnasked` is that
case and no other: it is set only when another process opens the file between
this one's look and its write, and the run fails without it. `handleGetObject`'s comment
(`testserver.go:1309`) says that an object outside a consumer token's scope
gets "the same 404 an unknown slug would"; a name with several variants and no
selector is answered 409 before the scope is looked at (`FindError` in
`handleGetObject`). `testserver.go:1364` calls `handleGetObjectUsedBy`
"unauthenticated, matching handleGetObject", which is not unauthenticated any
more.

## 4. Proofs

Every theorem holds for all values of the constants that satisfy the modules'
named assumptions. The table leaves out the invariants they rest on (named
`Invariance`, `RunInvariance`, `EndInvariance`, `InvariantFromAnyStart`); where
the right column is in words, no run checks the statement as such.

| Theorem | Property |
|---|---|
| `ObjectStoreProofs!TypeCorrect` | `TypeOK` |
| `ObjectStoreProofs!NoOrphans` | `NoOrphanVariants` |
| `ObjectStoreProofs!DistinctIDs` | `VariantIDsDistinct` |
| `ObjectStoreProofs!DirectoryCovers` | `DirectoryCoversCreated` |
| `ObjectStoreProofs!KeysNeverForgotten` | `KeyNeverForgotten` |
| `ConsumerTokensProofs!TypeCorrect` | `TypeOK` |
| `ConsumerTokensProofs!LookupInStep` | `LookupMatchesRecords` |
| `ConsumerTokensProofs!DeadCredentialsStayDead` | `DeadStaysDead` |
| `ConsumerTokensProofs!ListedActionsAreTaken` | `ListedActionsWork` |
| `ConsumerTokensProofs!TokensImplementLedger` | `ImplementsLedger` |
| `ConsumerTokensProofs!ListedStatusIsEnforced` | a listing's status is what the server enforces, but for the instant of expiry |
| `ConsumerTokensProofs!GrantsAreFinal` | consumer and expiry of a value never change, and a withdrawn value never returns |
| `ConsumerTokensProofs!TablesStayApart` | no value is both a write token and a consumer token |
| `AuditPagerProofs!TypeCorrect` | `TypeOK` |
| `AuditPagerProofs!CollectedIsPrefix` | `ResultIsPrefix` |
| `AuditPagerProofs!PagingIsOneQuery` | `ImplementsQuery` |
| `AuditPagerProofs!PagesAdvance` | `EveryPageAdvances` |
| `ConsumerPagerProofs!TypeCorrect` | `TypeOK` |
| `ConsumerPagerProofs!ListingMissesAtMostRemoved` | `MissedAtMostRemoved` |
| `ConsumerPagerProofs!ListingRepeatsAtMostJoined` | `RepeatedAtMostJoined` |
| `ConsumerPagerProofs!QuietListingIsWhole` | `WholeSet` if nothing left; no entry twice if nothing came |
| `CatalogRefinement!StoreImplementsCatalog` | `ImplementsCatalog` |
| `SealedWriteProofs!WriteTypesCorrect` | `WriteTypeOK` |
| `SealedWriteProofs!AlwaysSealedForItsConsumers` | `SealedForItsConsumers` |
| `SealedWriteProofs!AlwaysCurrentRecipients` | `UndisturbedRecipientsAreCurrent` |
| `SealedWriteProofs!UndisturbedWritesStayCurrent` | `UndisturbedWritesAreCurrent` |
| `SealedWriteProofs!WritersImplementStore` | `WriteSpec` implements `ObjectStore`'s `Spec` |
| `SealedWriteProofs!WritersKeepStore` | the theorems of `ObjectStore` and `Catalog`, among writers |
| `CommandRunProofs!RunTypesCorrect` | `RunTypeOK` |
| `CommandRunProofs!ExitsTellTruth` | `ExitTellsTruth` |
| `CommandRunProofs!EffectsAreInOrder` | `EffectsFollowExits` |
| `CommandRunProofs!EffectsAuthorized` | `EffectWasAuthorized` |
| `CommandRunProofs!EndedTokensReadNothing` | `EndedTokenReadsNothing` |
| `CommandRunProofs!ShownTokensWork` | `ShownTokenWorks` |
| `CommandRunProofs!AddsShowTheirEntry` | `AddShowsItsEntry` |
| `CommandRunProofs!StrippedConsumersReadNothing` | `StrippedConsumerReadsNothing` |
| `CommandRunProofs!PromisesFromAnyStart`, `RunsAreStarts` | all of these, on a server with anything in it |
| `CommandRunProofs!CommandsKeepContract` | `ImplementsContract`, on such a server |
| `CommandRunProofs!CommandsAreOperations` | every step of the commands is one operation of the store and one of the tokens, or none |
| `CommandRunProofs!CommandsKeepTheState` | the invariants of store and tokens, among commands |
| `CommandRunProofs!CommandsKeepKeys` | `KeyNeverForgotten`, among commands |
| `CommandRunProofs!CommandsKeepCatalog` | the steps of `Catalog`, among commands |
| `CommandRunProofs!CommandsKeepDead` | `DeadStaysDead`, among commands |
| `CommandRunProofs!CommandsKeepGrants` | `GrantsAreFinal`, among commands |
| `ConfigFileProofs!TypeCorrect` | `TypeOK` |
| `ConfigFileProofs!KeyringAlwaysBacksFile` | `KeyringBacksFile` |
| `ConfigFileProofs!OnlyKeptIsResolved` | `ResolvedWasKept` |
| `ConfigFileProofs!SavedIsAlwaysUsed` | `SavedIsUsed` |
| `ConfigFileProofs!OnlyForceOverwrites` | `NeverOverwrittenUnasked` |

**ObjectStore.** `VariantIDsDistinct` is not inductive by itself: an appended
variant has a fresh random id, but only if every stored random id has been
issued, and a created object's derived id is fresh in its name only because
the name has no variants left (`NoOrphanVariants`). `IDsIssued` adds that a
random id in the store was issued and that a derived id is always the first of
its name. `DirectoryCoversCreated` needs the same: the walks over `used_by`
visit first variants only, which is enough because an object made by
`createObject` never stands behind another. The invariant is the conjunction of
`TypeOK`, `NoOrphanVariants`, `VariantIDsDistinct`, `IDsIssued` and
`DirectoryCoversCreated`; the proof has one step per action, over lemmas on
what writing back the variants of a name does.

**ConsumerTokens.** The two maps are inverse to each other on the records, and
ids and values were all drawn before; a fresh suffix therefore collides with
neither. `DeadStaysDead` follows by cases of the action: a value that is drawn
and not accepted is either not in the lookup, and only fresh values enter it,
or its record is revoked or expired, and rotation refuses those.
`TokensImplementLedger` maps a value to the consumer and expiry of the record
its lookup leads to. The mapping is well defined because the maps are inverse;
one lemma per operation says at which values it changes: none, one, or the two
of a rotation. `GrantsAreFinal` follows from the ledger: every step of it leaves
an entry as it is or removes it for good. `ListedStatusIsEnforced` is what
remains of the comment that `token_expiry_instant` finds wrong: for every time
but `expiresAt` itself, a record listed as `active` is one whose value
`consumerForToken` takes, and any other is refused. `TablesStayApart` needs that
write tokens and ids come from the same never repeating source; it is what lets
`CommandRun` judge a credential against both tables in one step.

**AuditPager.** The invariant says that while the loop runs the collected ids
are exactly the matching ids up to the cursor, and fewer than the limit.
Appending an entry adds an id above all others; a page then extends the prefix.
The refinement follows: when the loop stops because of the limit the prefix has
`limit` elements, and when it stops because a page is short nothing lies
beyond. A page that does not end the loop is full, so its last id, the new
cursor, is above the old one: that is `PagesAdvance`, and together with a log
that does not grow the reason why the loop ends; the step from it to `QueryEnds`
needs fairness and is left to TLC.

**ConsumerPager.** Matching entries are compared by rank. The invariant bounds
the staying entries not collected so far by the window they still have to pass:
an entry leaving moves at most one entry across the boundary, an entry joining
moves none past it. Repetitions are counted the other way round: `RepeatInv`
bounds the entries repeated so far, together with the printed ones that lie
ahead again, by the entries that joined. `QuietListingIsWhole` is the case in
which one bound or the other is 0.

**ConfigFile.** `AllSound` says of every config, in the file or about to be
written, that what it names was kept for its field and is in the keyring; it is
inductive because entries and `kept` only grow and the keyring comes first.
`Undisturbed` follows one process from its first prompt to its reload: as long
as nobody else stores or writes, what it has stored and written is there.
`LookHolds` is the invariant behind `NeverOverwrittenUnasked`: a process on its
way to the write still finds no file, or was started with `init --force`, or has
been overtaken. It needs that no step takes a file away, in particular that what
a write leaves (`Overwritten`) is a file.

**Catalog.** The refinement mapping shows `variantsLocked` of every name as a
list of pairs. Per operation one lemma says what it does to these lists:
nothing (metadata, consumers), one pair more, one replaced, one dropped, or all
of them under a free name; each is a step of `Catalog` or a stutter. It rests
on the invariant of `ObjectStoreProofs`.

**SealedWrite.** `SealedForItsConsumers` is not inductive: while a command
resolves, its recipients must already meet `held` for the names it is past.
`WriteInv` says so (`Collected`), that `held` knows every registered key
(`HeldIsKnown`), and that a command nobody disturbed has collected exactly the
current keys so far, and the owner's once it is sealed if that was asked for
(`Current`, from which `UndisturbedRecipientsAreCurrent` follows). A
command's variables are its own, so other commands' steps matter only through
the directory and the written object; that is why the number of writers does
not. `UndisturbedWritesStayCurrent` is about the directory after the write:
`Fresh` says of each consumer looked up that its key is there and was
collected, so that its entry exists, and `Joined` leaves existing entries
alone.
`WritersImplementStore` shows every step of the writers to be an operation of
the store or a stutter; `ObjectStore` therefore keeps its theorems among them.

**CommandRun.** The invariants of the store and of the tokens carry over: every
step of `CommandRun` is a step or a stutter of each. On top of them,
`CommandOK` relates, for one command, its stage, its answer, its outcome and
whether it took effect, and no handler step reads another command's part of
it; with `AppliedOnce` this is `RunInv`, which gives `RunTypeOK`,
`ExitTellsTruth` and `EffectWasAuthorized`. For tokens, `EndInv` adds
which id each value was issued under (`IssuedInv`), that a value a command has
outdated is not accepted any more (`OutdatedOK`; it stays so by
`DeadCredentialsStayDead`'s argument), that no handler is past its judgement
for a command begun after that (`EndedOK`: judging it would have needed a live
value), and that what was shown is what the records say until a later effect
(`ShownOK`). `AddedOK` says the same of the entry an add has made.
`StrippedOK` says of every delete or rename that took effect that no object made
by `createObject` names the consumer it took out, or that a rename behind it in
`applied` put the name in again; no operation that these commands run brings a name
into the lists but from the lists before it or as a rename's target. `ServedOK` carries it over to what `get` was served: the object is read
and checked in one critical section, after the judgement. `OrderOK` says of every command of `doneBefore[r]` that it is done
and not applied behind `r`; what is added to `applied` is a command still to be
handled, and a done one has been answered.

**Composition.** `FromAnyStart` is `RunSpec` without its particular start: the
store and the tokens are in any state their invariants allow, with any number of
objects, consumers and tokens, and no command has begun. `CommandInv`
conjoins the invariants above with those of the store and the tokens, and every
step of the commands is shown to be one operation of each or none
(`StepIsOperation`). What was proved of the operations, as state invariant,
action property or refinement, then holds among commands that are lost,
interrupted and judged in other critical sections than they act in
(`CommandsKeep...`), and what `command_run` checks from one small start holds
from all of them (`PromisesFromAnyStart`). `CommandsKeepContract` goes over the
same steps once more, seen by the users: a handler's step is an effect or a
stutter, and `CommandOK` says that it finds the command running or given up,
that an answered success has been applied, and that a refusal has not. The assumptions are those named in the module: the
starting credentials are three suffixes, tags are spelled in some finite way or
another, `Nil` and `Absent` are nothing else.

Model-checked only: `QueryEnds`, since liveness under fairness is out of the
prover's reach; `PagesAdvance` proves what it rests on. Every invariant and every other property of a passing run is a
theorem.

## 5. Plan

The order in which the modules were written, and what would come next:

1. Done: `ObjectStore` and `Catalog`; `ConsumerTokens` and `TokenLedger`; the
   audit log and its pager; the consumers pager; `SealedWrite`; `ConfigFile`;
   `CommandRun` and `CommandContract`.
2. Done: a theorem for each of their safety properties, and the four
   refinements (catalog, ledger, query, contract).
3. Done: the compositions (`SealedWrite`, `CommandRun`) shown to implement their
   parts, so that the parts' theorems hold in them, from any start.
4. Next to prove: what a file written by one process and read by another
   resolves to, as a specification that `ConfigFile` implements; a bound on the
   requests of an audit query in terms of its result.
5. Next to model: `list` with its filters and pages and `used-by` as requests of
   `CommandRun`; reading back with several identities (`seal.Unseal`) against
   what `SealedWrite` stores; the precedence of flag, environment and file in
   `config`.

## 6. Not modelled

Rendering, man pages, completions and the cobra tree hold no state. `status`
and `health` read one value; `list` and `used-by` are one request each that
changes nothing. Encryption is age's: a value can be read with the
keys it is sealed to, and what `get` does with a value after reading it is left
out. The transport is reduced to a request that does not get through or whose
answer is lost afterwards; the client retries nothing. That a command ends at
all depends on the server answering or on Ctrl-C: there is no timeout in the
client, so no liveness is claimed of single commands. The real server
is another repository: everything here is about the one in this repository.
