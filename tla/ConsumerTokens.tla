--------------------------- MODULE ConsumerTokens ---------------------------
(***************************************************************************)
(* The credentials half of testserver.Store: write tokens, and consumer    *)
(* read tokens with their two maps - records by id and the lookup from a   *)
(* raw value to the id that issued it, which the operations must keep in   *)
(* step.  The actions are the token commands as the client sends them and  *)
(* the handlers answer them: durations are truncated to seconds on the     *)
(* way, time passes between any two of them.  requireWriteToken is not a   *)
(* guard here: it looks the caller's token up in a critical section of its *)
(* own, and that token may expire before the method it lets through runs,  *)
(* so the methods may run at any time.                                     *)
(*                                                                         *)
(* Abstractions.  randomSuffix returns a suffix it never returned before   *)
(* (128 random bits; crypto/rand does not fail on the Go version go.mod    *)
(* names).  A value is its suffix: the "consumer-<name>-" before it adds   *)
(* nothing to tell two values apart.  Description and created_at are left  *)
(* out, and last_used_at, which nothing sets.                              *)
(***************************************************************************)
EXTENDS Integers

CONSTANTS
    RandomSuffixes,       \* what randomSuffix may return
    Consumers,
    Durations,      \* what --ttl may be parsed to, in ticks of the clock
    Second,         \* ticks in a second
    MaxTime,        \* bound on the clock
    Absent          \* no entry in a Go map

ASSUME DurationsAssumption ==
    Durations \subseteq Int /\ Second \in Nat \ {0} /\ MaxTime \in Nat

VARIABLES
    now,                  \* the server's clock
    tokens,               \* write token -> expiry, or Absent
    consumerTokens,       \* id -> record, or Absent
    consumerTokenValues,  \* raw value -> id, or Absent
    drawn,                \* the suffixes randomSuffix has returned
    reply                 \* status of the last answer

vars == <<now, tokens, consumerTokens, consumerTokenValues, drawn, reply>>

consumerToken == [consumer : Consumers, expiresAt : Int, revoked : BOOLEAN, value : RandomSuffixes]

ASSUME AbsentAssumption ==
    /\ Absent \notin RandomSuffixes /\ Absent \notin Int /\ Absent \notin consumerToken
    /\ Absent \notin [consumer : Consumers, expiresAt : Int]

\* Every variable holds a value of its kind.
TypeOK ==
    /\ now \in 0..MaxTime
    /\ tokens \in [RandomSuffixes -> Int \cup {Absent}]
    /\ consumerTokens \in [RandomSuffixes -> consumerToken \cup {Absent}]
    /\ consumerTokenValues \in [RandomSuffixes -> RandomSuffixes \cup {Absent}]
    /\ drawn \subseteq RandomSuffixes
    /\ reply \in {200, 201, 204, 400, 404, 409}

Init ==
    /\ now = 0
    /\ tokens = [w \in RandomSuffixes |-> Absent]
    /\ consumerTokens = [i \in RandomSuffixes |-> Absent]
    /\ consumerTokenValues = [v \in RandomSuffixes |-> Absent]
    /\ drawn = {}
    /\ reply = 200

-----------------------------------------------------------------------------
(* Reading.                                                                *)

\* validateToken: the write token is known and not expired yet.
validateToken(w) == tokens[w] # Absent /\ now < tokens[w]

\* consumerForToken: the value is looked up, then its record is judged.
\* The record is read without a check that it is there.
consumerForToken(v) ==
    /\ consumerTokenValues[v] # Absent
    /\ LET rec == consumerTokens[consumerTokenValues[v]]
       IN  ~rec.revoked /\ ~(now > rec.expiresAt)

\* toConsumerTokenMetadata's status, and withDerivedState's when the server
\* sends none.
Status(rec) ==
    CASE rec.revoked -> "revoked"
      [] ~rec.revoked /\ ~(now < rec.expiresAt) -> "expired"
      [] OTHER -> "active"

AllowedActions(rec) ==
    IF Status(rec) = "active" THEN {"rotate", "revoke"} ELSE {"purge"}

\* What RotateConsumerToken and PurgeConsumerToken ask of a token.
MayRotate(i) ==
    /\ consumerTokens[i] # Absent
    /\ ~consumerTokens[i].revoked
    /\ ~(now > consumerTokens[i].expiresAt)

\* Mutant: a token is still active at the very instant it expires.
MayPurgeAfter(i) ==
    /\ consumerTokens[i] # Absent
    /\ ~(~consumerTokens[i].revoked /\ ~(now > consumerTokens[i].expiresAt))

MayPurge(i) ==
    /\ consumerTokens[i] # Absent
    /\ ~(~consumerTokens[i].revoked /\ now < consumerTokens[i].expiresAt)

-----------------------------------------------------------------------------
(* Writing.                                                                *)

\* int64(ttl.Seconds()) drops the fraction.  (Go rounds a negative duration up
\* and \div rounds it down: both are refused as not positive.)
TtlSeconds(d) == d \div Second

Answer(status) ==
    /\ reply' = status
    /\ UNCHANGED <<now, tokens, consumerTokens, consumerTokenValues, drawn>>

CreateWriteToken(d) ==
    \E w \in RandomSuffixes \ drawn :
        /\ tokens' = [tokens EXCEPT ![w] = now + d]
        /\ drawn' = drawn \cup {w}
        /\ reply' = 201
        /\ UNCHANGED <<now, consumerTokens, consumerTokenValues>>

\* Mutant: a ttl that is not positive is not refused.
CreateConsumerTokenUnchecked(consumer, d) ==
    /\ \E i, v \in RandomSuffixes \ drawn :
         /\ i # v
         /\ consumerTokens' = [consumerTokens EXCEPT ![i] =
               [consumer |-> consumer, expiresAt |-> now + TtlSeconds(d) * Second,
                revoked |-> FALSE, value |-> v]]
         /\ consumerTokenValues' = [consumerTokenValues EXCEPT ![v] = i]
         /\ drawn' = drawn \cup {i, v}
    /\ reply' = 201
    /\ UNCHANGED <<now, tokens>>

CreateConsumerToken(consumer, d) ==
    \/ TtlSeconds(d) <= 0 /\ Answer(400)
    \/ /\ TtlSeconds(d) > 0
       /\ \E i, v \in RandomSuffixes \ drawn :
            /\ i # v
            /\ consumerTokens' = [consumerTokens EXCEPT ![i] =
                  [consumer |-> consumer, expiresAt |-> now + TtlSeconds(d) * Second,
                   revoked |-> FALSE, value |-> v]]
            /\ consumerTokenValues' = [consumerTokenValues EXCEPT ![v] = i]
            /\ drawn' = drawn \cup {i, v}
       /\ reply' = 201
       /\ UNCHANGED <<now, tokens>>

\* Mutant: the old value stays in the lookup.
RotateConsumerTokenKeepsOld(i, d) ==
    /\ TtlSeconds(d) > 0 /\ MayRotate(i)
    /\ \E v \in RandomSuffixes \ drawn :
         /\ consumerTokens' = [consumerTokens EXCEPT ![i] =
               [@ EXCEPT !.value = v, !.expiresAt = now + TtlSeconds(d) * Second]]
         /\ consumerTokenValues' = [consumerTokenValues EXCEPT ![v] = i]
         /\ drawn' = drawn \cup {v}
    /\ reply' = 200
    /\ UNCHANGED <<now, tokens>>

\* Mutant: an expired token is rotated too.
RotateConsumerTokenRevives(i, d) ==
    /\ TtlSeconds(d) > 0
    /\ consumerTokens[i] # Absent /\ ~consumerTokens[i].revoked
    /\ consumerTokens' = [consumerTokens EXCEPT ![i].expiresAt = now + TtlSeconds(d) * Second]
    /\ reply' = 200
    /\ UNCHANGED <<now, tokens, consumerTokenValues, drawn>>

RotateConsumerToken(i, d) ==
    \/ TtlSeconds(d) <= 0 /\ Answer(400)
    \/ TtlSeconds(d) > 0 /\ ~MayRotate(i) /\ Answer(404)
    \/ /\ TtlSeconds(d) > 0 /\ MayRotate(i)
       /\ \E v \in RandomSuffixes \ drawn :
            /\ consumerTokens' = [consumerTokens EXCEPT ![i] =
                  [@ EXCEPT !.value = v, !.expiresAt = now + TtlSeconds(d) * Second]]
            /\ consumerTokenValues' = [consumerTokenValues EXCEPT
                  ![consumerTokens[i].value] = Absent, ![v] = i]
            /\ drawn' = drawn \cup {v}
       /\ reply' = 200
       /\ UNCHANGED <<now, tokens>>

RevokeConsumerToken(i) ==
    \/ consumerTokens[i] = Absent /\ Answer(204)
    \/ /\ consumerTokens[i] # Absent
       /\ consumerTokens' = [consumerTokens EXCEPT ![i].revoked = TRUE]
       /\ reply' = 204
       /\ UNCHANGED <<now, tokens, consumerTokenValues, drawn>>

\* Mutant: the value stays in the lookup after its record is gone.
PurgeConsumerTokenRecordOnly(i) ==
    /\ MayPurge(i)
    /\ consumerTokens' = [consumerTokens EXCEPT ![i] = Absent]
    /\ reply' = 204
    /\ UNCHANGED <<now, tokens, consumerTokenValues, drawn>>

\* Mutant: an error of PurgeConsumerToken has no status of its own.
PurgeConsumerTokenUnmapped(i) == ~MayPurge(i) /\ Answer(500)

PurgeConsumerToken(i) ==
    \/ consumerTokens[i] = Absent /\ Answer(404)
    \/ consumerTokens[i] # Absent /\ ~MayPurge(i) /\ Answer(409)
    \/ /\ MayPurge(i)
       /\ consumerTokens' = [consumerTokens EXCEPT ![i] = Absent]
       /\ consumerTokenValues' =
             [consumerTokenValues EXCEPT ![consumerTokens[i].value] = Absent]
       /\ reply' = 204
       /\ UNCHANGED <<now, tokens, drawn>>

Tick ==
    /\ now < MaxTime
    /\ now' = now + 1
    /\ UNCHANGED <<tokens, consumerTokens, consumerTokenValues, drawn, reply>>

Next ==
    \/ \E d \in Durations : CreateWriteToken(d)
    \/ \E c \in Consumers, d \in Durations : CreateConsumerToken(c, d)
    \/ \E i \in RandomSuffixes, d \in Durations : RotateConsumerToken(i, d)
    \/ \E i \in RandomSuffixes : RevokeConsumerToken(i)
    \/ \E i \in RandomSuffixes : PurgeConsumerToken(i)
    \/ Tick

Spec == Init /\ [][Next]_vars

-----------------------------------------------------------------------------
(* Properties.                                                             *)

\* The lookup and the records are in step: every value in the lookup leads
\* to a record that is there and whose current value it is, and every
\* record's value leads back to it.  consumerForToken reads the record
\* without a check, so a value left behind would crash the handler.
LookupMatchesRecords ==
    /\ \A v \in RandomSuffixes : consumerTokenValues[v] # Absent =>
         /\ consumerTokens[consumerTokenValues[v]] # Absent
         /\ consumerTokens[consumerTokenValues[v]].value = v
    /\ \A i \in RandomSuffixes : consumerTokens[i] # Absent =>
         consumerTokenValues[consumerTokens[i].value] = i

Accepted(v) == consumerForToken(v) \/ validateToken(v)

\* A value that was handed out and has stopped being accepted - rotated out,
\* revoked, expired or purged - is never accepted again, whatever is rotated,
\* revoked, purged or issued afterwards.
DeadStaysDead ==
    [][\A v \in drawn : ~Accepted(v) => ~Accepted(v)']_vars

\* What a value stands for: nothing, unless it leads to a record that has
\* not been revoked.
GrantOf(v) ==
    LET rec == consumerTokens[consumerTokenValues[v]]
    IN  IF consumerTokenValues[v] # Absent /\ ~rec.revoked
        THEN [consumer |-> rec.consumer, expiresAt |-> rec.expiresAt]
        ELSE Absent

granted == [v \in RandomSuffixes |-> GrantOf(v)]

Ledger == INSTANCE TokenLedger WITH
             Values <- RandomSuffixes,
             grants <- granted,
             used <- drawn

\* The two maps are one ledger: through every rotation, revocation and purge
\* a value keeps its consumer and its expiry until it goes for good, and a
\* rotation trades one good value for one new value of the same consumer.
ImplementsLedger == Ledger!Spec

\* The actions a listing offers for a token are the ones the server would
\* take at that instant: "purge" exactly when purging it is not refused, and
\* "rotate" only when rotating it is not.
ListedActionsWork ==
    \A i \in RandomSuffixes : consumerTokens[i] # Absent =>
        /\ "purge" \in AllowedActions(consumerTokens[i]) <=> MayPurge(i)
        /\ "rotate" \in AllowedActions(consumerTokens[i]) => MayRotate(i)

\* A token listed as expired is refused as a credential, as consumerForToken
\* says of "an unknown, revoked, or expired value".
ListedExpiredIsRefused ==
    \A i \in RandomSuffixes : consumerTokens[i] # Absent =>
        (Status(consumerTokens[i]) = "expired" => ~consumerForToken(consumerTokens[i].value))
=============================================================================
