------------------------ MODULE ConsumerTokensProofs ------------------------
(***************************************************************************)
(* Proofs about ConsumerTokens, for every supply of random suffixes, every *)
(* set of durations and every bound on the clock.                          *)
(***************************************************************************)
EXTENDS ConsumerTokens, TLAPS

\* What has not been drawn is in no map.
UndrawnUnused ==
    \A x \in RandomSuffixes \ drawn :
        consumerTokens[x] = Absent /\ consumerTokenValues[x] = Absent /\ tokens[x] = Absent

\* The lookup and the records stay in step because a fresh suffix is in
\* neither: that is what UndrawnUnused adds.
IndInv == TypeOK /\ UndrawnUnused /\ LookupMatchesRecords

\* A duration in whole seconds is a number of ticks.
LEMMA TtlIsInt == \A d \in Durations : TtlSeconds(d) * Second \in Int
BY DurationsAssumption DEF TtlSeconds

\* An answer that changes nothing keeps the invariant.
LEMMA AnswerIndInv ==
    ASSUME IndInv, NEW status \in {200, 201, 204, 400, 404, 409}, Answer(status)
    PROVE  IndInv'
BY DEF Answer, IndInv, TypeOK, UndrawnUnused, LookupMatchesRecords

\* The empty store satisfies the invariant.
LEMMA InitIndInv == Init => IndInv
BY DurationsAssumption DEF Init, IndInv, TypeOK, UndrawnUnused, LookupMatchesRecords

\* CreateWriteToken keeps the invariant: the write token is a fresh suffix.
LEMMA CreateWriteIndInv ==
    ASSUME IndInv, NEW d \in Durations, CreateWriteToken(d)
    PROVE  IndInv'
<1>1. PICK w \in RandomSuffixes \ drawn :
        /\ tokens' = [tokens EXCEPT ![w] = now + d]
        /\ drawn' = drawn \cup {w} /\ reply' = 201
        /\ now' = now /\ consumerTokens' = consumerTokens
        /\ consumerTokenValues' = consumerTokenValues
  BY DEF CreateWriteToken
<1>2. now + d \in Int
  BY DurationsAssumption DEF IndInv, TypeOK
<1>3. TypeOK'
  BY <1>1, <1>2 DEF IndInv, TypeOK
<1>4. UndrawnUnused'
  BY <1>1 DEF IndInv, TypeOK, UndrawnUnused
<1>5. LookupMatchesRecords'
  BY <1>1 DEF IndInv, LookupMatchesRecords
<1> QED BY <1>3, <1>4, <1>5 DEF IndInv

\* IssueConsumerToken keeps the invariant: id and value are fresh suffixes.
LEMMA CreateIndInv ==
    ASSUME IndInv, NEW c \in Consumers, NEW d \in Durations, CreateConsumerToken(c, d)
    PROVE  IndInv'
<1>1. CASE Answer(400)
  BY <1>1, AnswerIndInv
<1>2. ASSUME NEW i \in RandomSuffixes \ drawn, NEW v \in RandomSuffixes \ drawn, i # v,
             consumerTokens' = [consumerTokens EXCEPT ![i] =
                 [consumer |-> c, expiresAt |-> now + TtlSeconds(d) * Second,
                  revoked |-> FALSE, value |-> v]],
             consumerTokenValues' = [consumerTokenValues EXCEPT ![v] = i],
             drawn' = drawn \cup {i, v}, reply' = 201, now' = now, tokens' = tokens
      PROVE  IndInv'
  <2> DEFINE rec == [consumer |-> c, expiresAt |-> now + TtlSeconds(d) * Second,
                     revoked |-> FALSE, value |-> v]
  <2>1. rec \in consumerToken /\ rec.value = v
    BY TtlIsInt DEF IndInv, TypeOK, consumerToken
  <2> HIDE DEF rec
  <2>2. consumerTokens' = [consumerTokens EXCEPT ![i] = rec]
    BY <1>2 DEF rec
  <2>3. TypeOK'
    <3>1. consumerTokens' \in [RandomSuffixes -> consumerToken \cup {Absent}]
      BY <2>1, <2>2 DEF IndInv, TypeOK
    <3>2. consumerTokenValues' \in [RandomSuffixes -> RandomSuffixes \cup {Absent}]
      BY <1>2 DEF IndInv, TypeOK
    <3>3. drawn' \subseteq RandomSuffixes
      BY <1>2 DEF IndInv, TypeOK
    <3> QED BY <1>2, <3>1, <3>2, <3>3 DEF IndInv, TypeOK
  <2>4. UndrawnUnused'
    BY <1>2, <2>2 DEF IndInv, TypeOK, UndrawnUnused
  <2>5. LookupMatchesRecords'
    <3>1. /\ consumerTokens[i] = Absent /\ consumerTokenValues[v] = Absent
          /\ rec # Absent /\ i # Absent
      BY <2>1, AbsentAssumption DEF IndInv, UndrawnUnused
    <3>2. \A u \in RandomSuffixes : consumerTokenValues'[u] # Absent =>
            /\ consumerTokens'[consumerTokenValues'[u]] # Absent
            /\ consumerTokens'[consumerTokenValues'[u]].value = u
      <4> SUFFICES ASSUME NEW u \in RandomSuffixes, consumerTokenValues'[u] # Absent
                   PROVE  /\ consumerTokens'[consumerTokenValues'[u]] # Absent
                          /\ consumerTokens'[consumerTokenValues'[u]].value = u
        OBVIOUS
      <4>1. CASE u = v
        <5>1. consumerTokenValues'[u] = i /\ consumerTokens'[i] = rec
          BY <1>2, <2>2, <4>1 DEF IndInv, TypeOK
        <5> QED BY <2>1, <3>1, <4>1, <5>1
      <4>2. CASE u # v
        <5>1. consumerTokenValues'[u] = consumerTokenValues[u]
          BY <1>2, <4>2 DEF IndInv, TypeOK
        <5>2. /\ consumerTokenValues[u] \in RandomSuffixes
              /\ consumerTokens[consumerTokenValues[u]] # Absent
              /\ consumerTokens[consumerTokenValues[u]].value = u
          BY <5>1 DEF IndInv, TypeOK, LookupMatchesRecords
        <5>3. consumerTokenValues[u] # i
          BY <3>1, <5>2
        <5> QED BY <2>2, <5>1, <5>2, <5>3 DEF IndInv, TypeOK
      <4> QED BY <4>1, <4>2
    <3>3. \A j \in RandomSuffixes : consumerTokens'[j] # Absent =>
            consumerTokenValues'[consumerTokens'[j].value] = j
      <4> SUFFICES ASSUME NEW j \in RandomSuffixes, consumerTokens'[j] # Absent
                   PROVE  consumerTokenValues'[consumerTokens'[j].value] = j
        OBVIOUS
      <4>1. CASE j = i
        BY <1>2, <2>1, <2>2, <4>1 DEF IndInv, TypeOK
      <4>2. CASE j # i
        <5>1. consumerTokens'[j] = consumerTokens[j] /\ consumerTokens[j] # Absent
          BY <2>2, <4>2 DEF IndInv, TypeOK
        <5>2. /\ consumerTokens[j].value \in RandomSuffixes
              /\ consumerTokenValues[consumerTokens[j].value] = j
          BY <5>1 DEF IndInv, TypeOK, LookupMatchesRecords, consumerToken
        <5>3. consumerTokens[j].value # v
          BY <3>1, <5>2, AbsentAssumption
        <5> QED BY <1>2, <5>1, <5>2, <5>3 DEF IndInv, TypeOK
      <4> QED BY <4>1, <4>2
    <3> QED BY <3>2, <3>3 DEF LookupMatchesRecords
  <2> QED BY <2>3, <2>4, <2>5 DEF IndInv
<1> QED BY <1>1, <1>2 DEF CreateConsumerToken

\* RotateConsumerToken keeps the invariant: the old value leaves the lookup.
LEMMA RotateIndInv ==
    ASSUME IndInv, NEW i \in RandomSuffixes, NEW d \in Durations, RotateConsumerToken(i, d)
    PROVE  IndInv'
<1>1. CASE Answer(400)
  BY <1>1, AnswerIndInv
<1>2. CASE Answer(404)
  BY <1>2, AnswerIndInv
<1>3. ASSUME MayRotate(i), NEW v \in RandomSuffixes \ drawn,
             consumerTokens' = [consumerTokens EXCEPT ![i] =
                 [@ EXCEPT !.value = v, !.expiresAt = now + TtlSeconds(d) * Second]],
             consumerTokenValues' = [consumerTokenValues EXCEPT
                 ![consumerTokens[i].value] = Absent, ![v] = i],
             drawn' = drawn \cup {v}, reply' = 200, now' = now, tokens' = tokens
      PROVE  IndInv'
  <2> DEFINE rec == [consumerTokens[i] EXCEPT
                        !.value = v, !.expiresAt = now + TtlSeconds(d) * Second]
             old == consumerTokens[i].value
  <2>1. consumerTokens[i] # Absent /\ consumerTokens[i] \in consumerToken /\ old \in RandomSuffixes
    BY <1>3 DEF MayRotate, IndInv, TypeOK, consumerToken
  <2>2. rec \in consumerToken /\ rec.value = v
    <3> DEFINE e == now + TtlSeconds(d) * Second
    <3>1. e \in Int
      BY TtlIsInt DEF IndInv, TypeOK
    <3> HIDE DEF e
    <3>2. /\ [consumerTokens[i] EXCEPT !.value = v, !.expiresAt = e] \in consumerToken
          /\ [consumerTokens[i] EXCEPT !.value = v, !.expiresAt = e].value = v
      BY <2>1, <3>1 DEF consumerToken
    <3> QED BY <3>2 DEF e
  <2>3. consumerTokens' = [consumerTokens EXCEPT ![i] = rec]
    BY <1>3
  <2> HIDE DEF rec
  <2>4. /\ consumerTokenValues[v] = Absent /\ v # old /\ i # Absent /\ rec # Absent
        /\ consumerTokenValues[old] = i
    BY <2>1, <2>2, AbsentAssumption DEF IndInv, UndrawnUnused, LookupMatchesRecords
  <2> HIDE DEF old
  <2>5. /\ consumerTokenValues' \in [RandomSuffixes -> RandomSuffixes \cup {Absent}]
        /\ consumerTokenValues'[v] = i /\ consumerTokenValues'[old] = Absent
        /\ \A u \in RandomSuffixes \ {v, old} : consumerTokenValues'[u] = consumerTokenValues[u]
    BY <1>3, <2>1, <2>4 DEF IndInv, TypeOK, old
  <2>6. /\ consumerTokens' \in [RandomSuffixes -> consumerToken \cup {Absent}]
        /\ consumerTokens'[i] = rec
        /\ \A j \in RandomSuffixes \ {i} : consumerTokens'[j] = consumerTokens[j]
    BY <2>2, <2>3 DEF IndInv, TypeOK
  <2>7. TypeOK'
    <3>1. drawn' \subseteq RandomSuffixes
      BY <1>3 DEF IndInv, TypeOK
    <3> QED BY <1>3, <2>5, <2>6, <3>1 DEF IndInv, TypeOK
  <2>8. UndrawnUnused'
    <3> SUFFICES ASSUME NEW x \in RandomSuffixes, x \notin drawn'
                 PROVE  /\ consumerTokens'[x] = Absent /\ consumerTokenValues'[x] = Absent
                        /\ tokens'[x] = Absent
      BY DEF UndrawnUnused
    <3>1. /\ x # v /\ consumerTokens[x] = Absent /\ consumerTokenValues[x] = Absent
          /\ tokens[x] = Absent
      BY <1>3 DEF IndInv, UndrawnUnused
    <3>2. x # i
      BY <2>1, <3>1
    <3> QED BY <1>3, <2>5, <2>6, <3>1, <3>2
  <2>9. LookupMatchesRecords'
    <3>1. ASSUME NEW u \in RandomSuffixes, consumerTokenValues'[u] # Absent
          PROVE  /\ consumerTokens'[consumerTokenValues'[u]] # Absent
                 /\ consumerTokens'[consumerTokenValues'[u]].value = u
      <4>1. CASE u = v
        BY <2>2, <2>4, <2>5, <2>6, <4>1
      <4>2. CASE u # v
        <5>1. u # old /\ consumerTokenValues'[u] = consumerTokenValues[u]
          BY <2>5, <3>1, <4>2
        <5>2. /\ consumerTokenValues[u] \in RandomSuffixes
              /\ consumerTokens[consumerTokenValues[u]] # Absent
              /\ consumerTokens[consumerTokenValues[u]].value = u
          BY <3>1, <5>1 DEF IndInv, TypeOK, LookupMatchesRecords
        <5>3. consumerTokenValues[u] # i
          BY <5>1, <5>2 DEF old
        <5> QED BY <2>6, <5>1, <5>2, <5>3
      <4> QED BY <4>1, <4>2
    <3>2. ASSUME NEW j \in RandomSuffixes, consumerTokens'[j] # Absent
          PROVE  consumerTokenValues'[consumerTokens'[j].value] = j
      <4>1. CASE j = i
        BY <2>2, <2>5, <2>6, <4>1
      <4>2. CASE j # i
        <5>1. consumerTokens'[j] = consumerTokens[j] /\ consumerTokens[j] \in consumerToken
          BY <2>6, <3>2, <4>2 DEF IndInv, TypeOK
        <5>2. /\ consumerTokens[j].value \in RandomSuffixes
              /\ consumerTokenValues[consumerTokens[j].value] = j
          BY <3>2, <5>1 DEF IndInv, LookupMatchesRecords, consumerToken
        <5>3. consumerTokens[j].value # v /\ consumerTokens[j].value # old
          BY <2>4, <4>2, <5>2, AbsentAssumption
        <5> QED BY <2>5, <5>1, <5>2, <5>3
      <4> QED BY <4>1, <4>2
    <3> QED BY <3>1, <3>2 DEF LookupMatchesRecords
  <2> QED BY <2>7, <2>8, <2>9 DEF IndInv
<1> QED BY <1>1, <1>2, <1>3 DEF RotateConsumerToken

\* RevokeConsumerToken keeps the invariant: the record stays where it is.
LEMMA RevokeIndInv ==
    ASSUME IndInv, NEW i \in RandomSuffixes, RevokeConsumerToken(i)
    PROVE  IndInv'
<1>1. CASE Answer(204)
  BY <1>1, AnswerIndInv
<1>2. CASE /\ consumerTokens[i] # Absent
           /\ consumerTokens' = [consumerTokens EXCEPT ![i].revoked = TRUE]
           /\ reply' = 204
           /\ UNCHANGED <<now, tokens, consumerTokenValues, drawn>>
  <2> DEFINE rec == [consumerTokens[i] EXCEPT !.revoked = TRUE]
  <2>1. consumerTokens[i] \in consumerToken
    BY <1>2 DEF IndInv, TypeOK
  <2>2. rec \in consumerToken /\ rec.value = consumerTokens[i].value
    BY <2>1 DEF consumerToken
  <2>3. consumerTokens' = [consumerTokens EXCEPT ![i] = rec]
    BY <1>2
  <2> HIDE DEF rec
  <2>4. /\ consumerTokens' \in [RandomSuffixes -> consumerToken \cup {Absent}]
        /\ consumerTokens'[i] = rec /\ rec # Absent
        /\ \A j \in RandomSuffixes \ {i} : consumerTokens'[j] = consumerTokens[j]
    BY <2>2, <2>3, AbsentAssumption DEF IndInv, TypeOK
  <2>5. TypeOK'
    BY <1>2, <2>4 DEF IndInv, TypeOK
  <2>6. UndrawnUnused'
    BY <1>2, <2>4 DEF IndInv, UndrawnUnused
  <2>7. \A j \in RandomSuffixes :
           /\ consumerTokens'[j] # Absent <=> consumerTokens[j] # Absent
           /\ consumerTokens[j] # Absent =>
                consumerTokens'[j].value = consumerTokens[j].value
    BY <1>2, <2>2, <2>4
  <2>8. LookupMatchesRecords'
    <3>1. consumerTokenValues' = consumerTokenValues
      BY <1>2
    <3>2. \A u \in RandomSuffixes : consumerTokenValues[u] # Absent =>
             consumerTokenValues[u] \in RandomSuffixes
      BY DEF IndInv, TypeOK
    <3>3. \A u \in RandomSuffixes : consumerTokenValues[u] # Absent =>
             /\ consumerTokens'[consumerTokenValues[u]] # Absent
             /\ consumerTokens'[consumerTokenValues[u]].value = u
      BY <2>7, <3>2 DEF IndInv, LookupMatchesRecords
    <3>4. \A j \in RandomSuffixes : consumerTokens'[j] # Absent =>
             consumerTokenValues[consumerTokens'[j].value] = j
      BY <2>7 DEF IndInv, LookupMatchesRecords
    <3> QED BY <3>1, <3>3, <3>4 DEF LookupMatchesRecords
  <2> QED BY <2>5, <2>6, <2>8 DEF IndInv
<1> QED BY <1>1, <1>2 DEF RevokeConsumerToken

\* PurgeConsumerToken keeps the invariant: record and value go together.
LEMMA PurgeIndInv ==
    ASSUME IndInv, NEW i \in RandomSuffixes, PurgeConsumerToken(i)
    PROVE  IndInv'
<1>1. CASE Answer(404) \/ Answer(409)
  BY <1>1, AnswerIndInv
<1>2. CASE /\ MayPurge(i)
           /\ consumerTokens' = [consumerTokens EXCEPT ![i] = Absent]
           /\ consumerTokenValues' =
                 [consumerTokenValues EXCEPT ![consumerTokens[i].value] = Absent]
           /\ reply' = 204
           /\ UNCHANGED <<now, tokens, drawn>>
  <2> DEFINE old == consumerTokens[i].value
  <2>1. /\ consumerTokens[i] # Absent /\ old \in RandomSuffixes /\ consumerTokenValues[old] = i
    BY <1>2 DEF MayPurge, IndInv, TypeOK, consumerToken, LookupMatchesRecords
  <2>2. /\ consumerTokens' \in [RandomSuffixes -> consumerToken \cup {Absent}]
        /\ consumerTokens'[i] = Absent
        /\ \A j \in RandomSuffixes \ {i} : consumerTokens'[j] = consumerTokens[j]
    BY <1>2 DEF IndInv, TypeOK
  <2>3. /\ consumerTokenValues' \in [RandomSuffixes -> RandomSuffixes \cup {Absent}]
        /\ consumerTokenValues'[old] = Absent
        /\ \A u \in RandomSuffixes \ {old} : consumerTokenValues'[u] = consumerTokenValues[u]
    BY <1>2, <2>1 DEF IndInv, TypeOK
  <2> HIDE DEF old
  <2>4. TypeOK'
    BY <1>2, <2>2, <2>3 DEF IndInv, TypeOK
  <2>5. UndrawnUnused'
    BY <1>2, <2>2, <2>3 DEF IndInv, UndrawnUnused
  <2>6. ASSUME NEW u \in RandomSuffixes, consumerTokenValues'[u] # Absent
        PROVE  /\ consumerTokens'[consumerTokenValues'[u]] # Absent
               /\ consumerTokens'[consumerTokenValues'[u]].value = u
    <3>1. u # old /\ consumerTokenValues'[u] = consumerTokenValues[u]
      BY <2>3, <2>6
    <3>2. /\ consumerTokenValues[u] \in RandomSuffixes
          /\ consumerTokens[consumerTokenValues[u]] # Absent
          /\ consumerTokens[consumerTokenValues[u]].value = u
      BY <2>6, <3>1 DEF IndInv, TypeOK, LookupMatchesRecords
    <3>3. consumerTokenValues[u] # i
      BY <3>1, <3>2 DEF old
    <3> QED BY <2>2, <3>1, <3>2, <3>3
  <2>7. ASSUME NEW j \in RandomSuffixes, consumerTokens'[j] # Absent
        PROVE  consumerTokenValues'[consumerTokens'[j].value] = j
    <3>1. j # i /\ consumerTokens'[j] = consumerTokens[j]
      BY <2>2, <2>7
    <3>2. /\ consumerTokens[j].value \in RandomSuffixes
          /\ consumerTokenValues[consumerTokens[j].value] = j
      BY <2>7, <3>1 DEF IndInv, TypeOK, LookupMatchesRecords, consumerToken
    <3> QED BY <2>1, <2>3, <3>1, <3>2
  <2> QED BY <2>4, <2>5, <2>6, <2>7 DEF IndInv, LookupMatchesRecords
<1> QED BY <1>1, <1>2 DEF PurgeConsumerToken

\* The passing of time keeps the invariant.
LEMMA TickIndInv ==
    ASSUME IndInv, Tick
    PROVE  IndInv'
<1>1. now' \in 0..MaxTime
  BY DurationsAssumption DEF Tick, IndInv, TypeOK
<1> QED BY <1>1 DEF Tick, IndInv, TypeOK, UndrawnUnused, LookupMatchesRecords

\* Every step keeps the invariant.
LEMMA NextIndInv == IndInv /\ [Next]_vars => IndInv'
<1> SUFFICES ASSUME IndInv, [Next]_vars PROVE IndInv'
  OBVIOUS
<1>1. ASSUME NEW d \in Durations, CreateWriteToken(d) PROVE IndInv'
  BY <1>1, CreateWriteIndInv
<1>2. ASSUME NEW c \in Consumers, NEW d \in Durations, CreateConsumerToken(c, d) PROVE IndInv'
  BY <1>2, CreateIndInv
<1>3. ASSUME NEW i \in RandomSuffixes, NEW d \in Durations, RotateConsumerToken(i, d) PROVE IndInv'
  BY <1>3, RotateIndInv
<1>4. ASSUME NEW i \in RandomSuffixes, RevokeConsumerToken(i) PROVE IndInv'
  BY <1>4, RevokeIndInv
<1>5. ASSUME NEW i \in RandomSuffixes, PurgeConsumerToken(i) PROVE IndInv'
  BY <1>5, PurgeIndInv
<1>6. CASE Tick
  BY <1>6, TickIndInv
<1>7. CASE UNCHANGED vars
  BY <1>7 DEF vars, IndInv, TypeOK, UndrawnUnused, LookupMatchesRecords
<1> QED BY <1>1, <1>2, <1>3, <1>4, <1>5, <1>6, <1>7 DEF Next

\* The inductive invariant holds in every reachable state.
THEOREM Invariance == Spec => []IndInv
BY InitIndInv, NextIndInv, PTL DEF Spec

\* Type correctness of the two token maps, the clock and the write tokens.
THEOREM TypeCorrect == Spec => []TypeOK
<1>1. IndInv => TypeOK
  BY DEF IndInv
<1> QED BY <1>1, Invariance, PTL

\* consumerForToken never reads a record that is not there: the lookup holds
\* exactly the current values of the records, through every rotation,
\* revocation and purge.
THEOREM LookupInStep == Spec => []LookupMatchesRecords
<1>1. IndInv => LookupMatchesRecords
  BY DEF IndInv
<1> QED BY <1>1, Invariance, PTL

-----------------------------------------------------------------------------
(* A credential that has stopped working never works again.                *)

StayDead == \A v \in drawn : ~Accepted(v) => ~Accepted(v)'

\* A step that lets no credential in keeps the dead dead.
LEMMA NoNewAccess ==
    ASSUME \A v \in drawn : /\ consumerForToken(v)' => consumerForToken(v)
                            /\ validateToken(v)' => validateToken(v)
    PROVE  StayDead
BY DEF StayDead, Accepted

\* Every step leaves a value dead that was handed out and is dead.
LEMMA StepsKeepDead == IndInv /\ [Next]_vars => StayDead
<1> SUFFICES ASSUME IndInv, [Next]_vars PROVE StayDead
  OBVIOUS
<1>0. /\ now \in Int /\ drawn \subseteq RandomSuffixes
      /\ \A v \in RandomSuffixes : consumerTokenValues[v] # Absent =>
            /\ consumerTokenValues[v] \in RandomSuffixes
            /\ consumerTokens[consumerTokenValues[v]] \in consumerToken
            /\ consumerTokens[consumerTokenValues[v]].value = v
  BY DEF IndInv, TypeOK, LookupMatchesRecords
<1>1. ASSUME now' = now, tokens' = tokens, consumerTokens' = consumerTokens,
             consumerTokenValues' = consumerTokenValues
      PROVE  StayDead
  BY <1>1, NoNewAccess DEF consumerForToken, validateToken
<1>2. ASSUME NEW d \in Durations, CreateWriteToken(d) PROVE StayDead
  <2>1. PICK w \in RandomSuffixes \ drawn : tokens' = [tokens EXCEPT ![w] = now + d]
    BY <1>2 DEF CreateWriteToken
  <2>2. /\ \A v \in drawn : tokens'[v] = tokens[v]
        /\ now' = now /\ consumerTokens' = consumerTokens
        /\ consumerTokenValues' = consumerTokenValues
    BY <1>0, <1>2, <2>1 DEF CreateWriteToken, IndInv, TypeOK
  <2> QED BY <2>2, NoNewAccess DEF consumerForToken, validateToken
<1>3. ASSUME NEW c \in Consumers, NEW d \in Durations, CreateConsumerToken(c, d)
      PROVE  StayDead
  <2>1. CASE Answer(400)
    BY <1>1, <2>1 DEF Answer
  <2>2. ASSUME NEW i \in RandomSuffixes \ drawn, NEW v \in RandomSuffixes \ drawn, NEW rec,
               consumerTokens' = [consumerTokens EXCEPT ![i] = rec],
               consumerTokenValues' = [consumerTokenValues EXCEPT ![v] = i],
               now' = now, tokens' = tokens
        PROVE  StayDead
    <3>1. consumerTokens[i] = Absent
      BY <2>2 DEF IndInv, UndrawnUnused
    <3>2. ASSUME NEW u \in drawn
          PROVE  /\ consumerTokenValues'[u] = consumerTokenValues[u]
                 /\ consumerTokenValues[u] # Absent =>
                      consumerTokens'[consumerTokenValues[u]] = consumerTokens[consumerTokenValues[u]]
      <4>1. u \in RandomSuffixes /\ u # v
        BY <1>0, <2>2
      <4>2. consumerTokenValues[u] # Absent => consumerTokenValues[u] # i
        BY <1>0, <3>1, <4>1, AbsentAssumption
      <4> QED BY <1>0, <2>2, <4>1, <4>2 DEF IndInv, TypeOK
    <3> QED BY <2>2, <3>2, NoNewAccess DEF consumerForToken, validateToken
  <2> QED BY <1>3, <2>1, <2>2 DEF CreateConsumerToken
<1>4. ASSUME NEW i \in RandomSuffixes, NEW d \in Durations, RotateConsumerToken(i, d)
      PROVE  StayDead
  <2>1. CASE Answer(400) \/ Answer(404)
    BY <1>1, <2>1 DEF Answer
  <2>2. ASSUME MayRotate(i), NEW v \in RandomSuffixes \ drawn, NEW rec,
               consumerTokens' = [consumerTokens EXCEPT ![i] = rec],
               consumerTokenValues' = [consumerTokenValues EXCEPT
                   ![consumerTokens[i].value] = Absent, ![v] = i],
               now' = now, tokens' = tokens
        PROVE  StayDead
    <3>1. ASSUME NEW u \in drawn, consumerTokenValues'[u] # Absent
          PROVE  /\ consumerTokenValues'[u] = consumerTokenValues[u]
                 /\ consumerTokens'[consumerTokenValues[u]] = consumerTokens[consumerTokenValues[u]]
      <4>1. u \in RandomSuffixes /\ u # v
        BY <1>0, <2>2
      <4>2. /\ u # consumerTokens[i].value
            /\ consumerTokenValues'[u] = consumerTokenValues[u]
        BY <2>2, <3>1, <4>1 DEF IndInv, TypeOK
      <4>3. consumerTokenValues[u] # i
        BY <1>0, <3>1, <4>1, <4>2
      <4> QED BY <1>0, <2>2, <3>1, <4>1, <4>2, <4>3 DEF IndInv, TypeOK
    <3> QED BY <2>2, <3>1, NoNewAccess DEF consumerForToken, validateToken
  <2> QED BY <1>4, <2>1, <2>2 DEF RotateConsumerToken
<1>5. ASSUME NEW i \in RandomSuffixes, RevokeConsumerToken(i) PROVE StayDead
  <2>1. CASE Answer(204)
    BY <1>1, <2>1 DEF Answer
  <2>2. CASE /\ consumerTokens[i] # Absent
             /\ consumerTokens' = [consumerTokens EXCEPT ![i].revoked = TRUE]
             /\ UNCHANGED <<now, tokens, consumerTokenValues>>
    <3>0. consumerTokens[i] \in consumerToken
      BY <2>2 DEF IndInv, TypeOK
    <3>1. /\ consumerTokens'[i] = [consumerTokens[i] EXCEPT !.revoked = TRUE]
          /\ consumerTokens'[i].revoked = TRUE
          /\ \A j \in RandomSuffixes \ {i} : consumerTokens'[j] = consumerTokens[j]
      BY <2>2, <3>0 DEF IndInv, TypeOK, consumerToken
    <3>2. \A v \in drawn : consumerForToken(v)' => consumerForToken(v)
      BY <1>0, <2>2, <3>1 DEF consumerForToken
    <3>3. \A v \in drawn : validateToken(v)' => validateToken(v)
      BY <2>2 DEF validateToken
    <3> QED BY <3>2, <3>3, NoNewAccess
  <2> QED BY <1>5, <2>1, <2>2 DEF RevokeConsumerToken
<1>6. ASSUME NEW i \in RandomSuffixes, PurgeConsumerToken(i) PROVE StayDead
  <2>1. CASE Answer(404) \/ Answer(409)
    BY <1>1, <2>1 DEF Answer
  <2>2. CASE /\ MayPurge(i)
             /\ consumerTokens' = [consumerTokens EXCEPT ![i] = Absent]
             /\ consumerTokenValues' =
                   [consumerTokenValues EXCEPT ![consumerTokens[i].value] = Absent]
             /\ UNCHANGED <<now, tokens>>
    <3>1. ASSUME NEW u \in drawn, consumerTokenValues'[u] # Absent
          PROVE  /\ consumerTokenValues'[u] = consumerTokenValues[u]
                 /\ consumerTokens'[consumerTokenValues[u]] = consumerTokens[consumerTokenValues[u]]
      <4>1. u \in RandomSuffixes
        BY <1>0
      <4>2. /\ u # consumerTokens[i].value
            /\ consumerTokenValues'[u] = consumerTokenValues[u]
        BY <2>2, <3>1, <4>1 DEF IndInv, TypeOK
      <4>3. consumerTokenValues[u] # i
        BY <1>0, <3>1, <4>1, <4>2
      <4> QED BY <1>0, <2>2, <3>1, <4>1, <4>2, <4>3 DEF IndInv, TypeOK
    <3> QED BY <2>2, <3>1, NoNewAccess DEF consumerForToken, validateToken
  <2> QED BY <1>6, <2>1, <2>2 DEF PurgeConsumerToken
<1>7. CASE Tick
  <2>1. \A v \in drawn : consumerTokenValues[v] # Absent =>
          consumerTokens[consumerTokenValues[v]].expiresAt \in Int
    BY <1>0 DEF consumerToken
  <2>2. \A v \in drawn : tokens[v] # Absent => tokens[v] \in Int
    BY <1>0 DEF IndInv, TypeOK
  <2>3. \A v \in drawn : consumerForToken(v)' => consumerForToken(v)
    BY <1>0, <1>7, <2>1 DEF Tick, consumerForToken
  <2>4. \A v \in drawn : validateToken(v)' => validateToken(v)
    BY <1>0, <1>7, <2>2 DEF Tick, validateToken
  <2> QED BY <2>3, <2>4, NoNewAccess
<1>8. CASE UNCHANGED vars
  BY <1>1, <1>8 DEF vars
<1> QED BY <1>2, <1>3, <1>4, <1>5, <1>6, <1>7, <1>8 DEF Next

\* No rotation, revocation, purge or new token, and no passing of time, ever
\* brings a credential back once it has stopped being accepted.
THEOREM DeadCredentialsStayDead == Spec => DeadStaysDead
<1>1. IndInv /\ [Next]_vars => [StayDead]_vars
  BY StepsKeepDead
<1> QED BY <1>1, Invariance, PTL DEF Spec, DeadStaysDead, StayDead

\* What a listing offers for a token is what the server would take: from the
\* types alone, for every time and every expiry.
THEOREM ListedActionsAreTaken == Spec => []ListedActionsWork
<1>1. TypeOK => ListedActionsWork
  <2> SUFFICES ASSUME TypeOK, NEW i \in RandomSuffixes, consumerTokens[i] # Absent
               PROVE  /\ "purge" \in AllowedActions(consumerTokens[i]) <=> MayPurge(i)
                      /\ "rotate" \in AllowedActions(consumerTokens[i]) => MayRotate(i)
    BY DEF ListedActionsWork
  <2>1. /\ now \in Int /\ consumerTokens[i].expiresAt \in Int
        /\ consumerTokens[i].revoked \in BOOLEAN
    BY DEF TypeOK, consumerToken
  <2>2. Status(consumerTokens[i]) = "active" <=>
          ~consumerTokens[i].revoked /\ now < consumerTokens[i].expiresAt
    BY <2>1 DEF Status
  <2> QED
    BY <2>1, <2>2 DEF AllowedActions, MayPurge, MayRotate
<1> QED
  BY <1>1, TypeCorrect, PTL

\* What a listing says of a token is what the server enforces at every time
\* but one: at the instant it expires it is listed as expired and accepted.
THEOREM ListedStatusIsEnforced ==
    Spec => [](\A i \in RandomSuffixes :
                  consumerTokens[i] # Absent /\ now # consumerTokens[i].expiresAt =>
                      (Status(consumerTokens[i]) = "active" <=>
                          consumerForToken(consumerTokens[i].value)))
<1>1. IndInv => \A i \in RandomSuffixes :
                   consumerTokens[i] # Absent /\ now # consumerTokens[i].expiresAt =>
                       (Status(consumerTokens[i]) = "active" <=>
                           consumerForToken(consumerTokens[i].value))
  <2> SUFFICES ASSUME TypeOK, LookupMatchesRecords, NEW i \in RandomSuffixes,
                      consumerTokens[i] # Absent, now # consumerTokens[i].expiresAt
               PROVE  Status(consumerTokens[i]) = "active" <=>
                          consumerForToken(consumerTokens[i].value)
    BY DEF IndInv
  <2> DEFINE rec == consumerTokens[i]
  <2>1. /\ now \in Int /\ rec.expiresAt \in Int
        /\ rec.revoked \in BOOLEAN /\ rec.value \in RandomSuffixes
    BY DEF TypeOK, consumerToken
  <2>2. Status(rec) = "active" <=> ~rec.revoked /\ now < rec.expiresAt
    BY <2>1 DEF Status
  <2>3. consumerTokenValues[rec.value] = i /\ i # Absent
    BY AbsentAssumption DEF LookupMatchesRecords
  <2>4. consumerForToken(rec.value) <=> ~rec.revoked /\ ~(now > rec.expiresAt)
    BY <2>3 DEF consumerForToken
  <2>5. now < rec.expiresAt <=> ~(now > rec.expiresAt)
    BY <2>1
  <2> QED BY <2>2, <2>4, <2>5
<1> QED BY <1>1, Invariance, PTL DEF Spec

-----------------------------------------------------------------------------
(* The two maps implement one ledger.                                      *)

\* What a value stands for, with its parts.
PartsOK == \A v \in RandomSuffixes :
    /\ granted[v] \in Ledger!Grant \cup {Absent}
    /\ consumerTokenValues[v] = Absent => granted[v] = Absent
    /\ granted[v] # Absent <=> /\ consumerTokenValues[v] # Absent
                               /\ ~consumerTokens[consumerTokenValues[v]].revoked
    /\ granted[v] # Absent =>
         /\ granted[v].consumer = consumerTokens[consumerTokenValues[v]].consumer
         /\ granted[v].expiresAt = consumerTokens[consumerTokenValues[v]].expiresAt

LEMMA GrantParts == IndInv => PartsOK
<1> SUFFICES ASSUME IndInv, NEW v \in RandomSuffixes
             PROVE  /\ granted[v] \in Ledger!Grant \cup {Absent}
                    /\ consumerTokenValues[v] = Absent => granted[v] = Absent
                    /\ granted[v] # Absent <=>
                         /\ consumerTokenValues[v] # Absent
                         /\ ~consumerTokens[consumerTokenValues[v]].revoked
                    /\ granted[v] # Absent =>
                         /\ granted[v].consumer = consumerTokens[consumerTokenValues[v]].consumer
                         /\ granted[v].expiresAt = consumerTokens[consumerTokenValues[v]].expiresAt
  BY DEF PartsOK
<1> DEFINE rec == consumerTokens[consumerTokenValues[v]]
           g == [consumer |-> rec.consumer, expiresAt |-> rec.expiresAt]
<1>1. granted[v] = IF consumerTokenValues[v] # Absent /\ ~rec.revoked THEN g ELSE Absent
  BY DEF granted, GrantOf
<1>2. consumerTokenValues[v] # Absent => rec \in consumerToken
  BY DEF IndInv, TypeOK, LookupMatchesRecords
<1>3. consumerTokenValues[v] # Absent =>
        /\ g \in Ledger!Grant /\ g # Absent
        /\ g.consumer = rec.consumer /\ g.expiresAt = rec.expiresAt
  BY <1>2, AbsentAssumption DEF consumerToken, Ledger!Grant
<1> HIDE DEF g
<1> QED BY <1>1, <1>3

\* The same after a step.
LEMMA GrantPartsNext == IndInv' => PartsOK'
BY GrantParts, PTL

\* A value whose entry and record stay keeps what it stands for.
LEMMA GrantStays ==
    ASSUME NEW v \in RandomSuffixes, consumerTokenValues'[v] = consumerTokenValues[v],
           consumerTokenValues[v] # Absent =>
              consumerTokens'[consumerTokenValues[v]] = consumerTokens[consumerTokenValues[v]]
    PROVE  granted'[v] = granted[v]
<1>1. granted[v] = GrantOf(v) /\ granted'[v] = GrantOf(v)'
  BY DEF granted
<1>2. GrantOf(v)' = GrantOf(v)
  <2>1. CASE consumerTokenValues[v] = Absent
    BY <2>1 DEF GrantOf
  <2>2. CASE consumerTokenValues[v] # Absent
    BY <2>2 DEF GrantOf
  <2> QED BY <2>1, <2>2
<1> QED BY <1>1, <1>2

\* The gate accepts a value exactly while the ledger calls it good.
LEMMA GoodIsAccepted ==
    ASSUME IndInv, NEW v \in RandomSuffixes
    PROVE  Ledger!Good(v) <=> consumerForToken(v)
BY GrantParts DEF PartsOK, Ledger!Good, consumerForToken

\* A ttl that is not refused ends in the future.
LEMMA TtlAhead ==
    ASSUME NEW d \in Durations, TtlSeconds(d) > 0, now \in Int
    PROVE  now + TtlSeconds(d) * Second > now
<1>1. TtlSeconds(d) \in Int /\ Second \in Nat /\ Second > 0
  BY DurationsAssumption DEF TtlSeconds
<1>2. \A a, b \in Nat : a > 0 /\ b > 0 => a * b > 0 /\ a * b \in Nat
  OBVIOUS
<1>3. TtlSeconds(d) * Second > 0 /\ TtlSeconds(d) * Second \in Nat
  BY <1>1, <1>2
<1> QED BY <1>3

\* What is left of a step is the change it makes to the ledger.
LEMMA LedgerMove ==
    ASSUME IndInv', drawn \subseteq drawn',
           \/ \E v \in RandomSuffixes : Ledger!Issue(v) \/ Ledger!Withdraw(v)
           \/ \E old, new \in RandomSuffixes : Ledger!Exchange(old, new)
           \/ Ledger!Reserve
           \/ Ledger!Pass
    PROVE  Ledger!Next
<1>1. granted' \in [RandomSuffixes -> Ledger!Grant \cup {Absent}]
  BY GrantPartsNext DEF PartsOK, granted
<1> QED BY <1>1 DEF Ledger!Next

\* A step that leaves the two maps alone at most uses up suffixes.
LEMMA MapsStayLedger ==
    ASSUME IndInv', consumerTokens' = consumerTokens,
           consumerTokenValues' = consumerTokenValues, drawn \subseteq drawn',
           now' = now
    PROVE  Ledger!Next
<1>1. granted' = granted
  BY DEF granted, GrantOf
<1> QED BY <1>1, LedgerMove DEF Ledger!Reserve

\* Issuing a token enters one fresh value.
LEMMA CreateLedger ==
    ASSUME IndInv, IndInv', NEW c \in Consumers, NEW d \in Durations, CreateConsumerToken(c, d)
    PROVE  Ledger!Next
<1>1. CASE Answer(400)
  BY <1>1, MapsStayLedger DEF Answer
<1>2. ASSUME TtlSeconds(d) > 0,
             NEW i \in RandomSuffixes \ drawn, NEW v \in RandomSuffixes \ drawn, i # v,
             consumerTokens' = [consumerTokens EXCEPT ![i] =
                 [consumer |-> c, expiresAt |-> now + TtlSeconds(d) * Second,
                  revoked |-> FALSE, value |-> v]],
             consumerTokenValues' = [consumerTokenValues EXCEPT ![v] = i],
             drawn' = drawn \cup {i, v}, now' = now
      PROVE  Ledger!Next
  <2>1. /\ consumerTokens'[i].expiresAt > now /\ ~consumerTokens'[i].revoked
        /\ consumerTokenValues'[v] = i /\ i # Absent
        /\ \A j \in RandomSuffixes \ {i} : consumerTokens'[j] = consumerTokens[j]
        /\ \A u \in RandomSuffixes \ {v} : consumerTokenValues'[u] = consumerTokenValues[u]
    <3>1. now + TtlSeconds(d) * Second > now
      BY <1>2, TtlAhead DEF IndInv, TypeOK
    <3> QED BY <1>2, <3>1, AbsentAssumption DEF IndInv, TypeOK
  <2>2. granted'[v] # Absent /\ granted'[v].expiresAt > now
    BY <2>1, GrantPartsNext DEF PartsOK
  <2>3. ASSUME NEW u \in RandomSuffixes \ {v} PROVE granted'[u] = granted[u]
    <3>1. consumerTokenValues[u] # Absent =>
            consumerTokenValues[u] \in RandomSuffixes \ {i}
      BY <1>2 DEF IndInv, TypeOK, UndrawnUnused, LookupMatchesRecords
    <3> QED BY <2>1, <3>1, GrantStays
  <2>4. Ledger!Issue(v)
    BY <1>2, <2>2, <2>3 DEF Ledger!Issue, Ledger!Enter, Ledger!OnlyAt
  <2> QED BY <1>2, <2>4, LedgerMove
<1> QED BY <1>1, <1>2 DEF CreateConsumerToken

\* Rotating a token trades its good value for a fresh one.
LEMMA RotateLedger ==
    ASSUME IndInv, IndInv', NEW i \in RandomSuffixes, NEW d \in Durations,
           RotateConsumerToken(i, d)
    PROVE  Ledger!Next
<1>1. CASE Answer(400) \/ Answer(404)
  BY <1>1, MapsStayLedger DEF Answer
<1>2. ASSUME TtlSeconds(d) > 0, MayRotate(i), NEW v \in RandomSuffixes \ drawn,
             consumerTokens' = [consumerTokens EXCEPT ![i] =
                 [@ EXCEPT !.value = v, !.expiresAt = now + TtlSeconds(d) * Second]],
             consumerTokenValues' = [consumerTokenValues EXCEPT
                 ![consumerTokens[i].value] = Absent, ![v] = i],
             drawn' = drawn \cup {v}, now' = now
      PROVE  Ledger!Next
  <2> DEFINE old == consumerTokens[i].value
             e == now + TtlSeconds(d) * Second
  <2>1. /\ consumerTokens[i] \in consumerToken /\ old \in RandomSuffixes
        /\ consumerTokenValues[old] = i /\ v # old /\ i # Absent
        /\ ~consumerTokens[i].revoked /\ ~(now > consumerTokens[i].expiresAt)
    BY <1>2, AbsentAssumption
       DEF MayRotate, IndInv, TypeOK, consumerToken, UndrawnUnused, LookupMatchesRecords
  <2>2. e > now
    BY <1>2, TtlAhead DEF IndInv, TypeOK
  <2> HIDE DEF e, old
  <2>3. consumerTokens'[i] = [consumerTokens[i] EXCEPT !.value = v, !.expiresAt = e]
    BY <1>2 DEF IndInv, TypeOK, e
  <2>4. /\ consumerTokens'[i].expiresAt = e /\ ~consumerTokens'[i].revoked
        /\ consumerTokens'[i].consumer = consumerTokens[i].consumer
    BY <2>1, <2>3 DEF consumerToken
  <2>5. /\ consumerTokenValues'[v] = i /\ consumerTokenValues'[old] = Absent
        /\ \A u \in RandomSuffixes \ {v, old} : consumerTokenValues'[u] = consumerTokenValues[u]
        /\ \A j \in RandomSuffixes \ {i} : consumerTokens'[j] = consumerTokens[j]
    BY <1>2, <2>1 DEF IndInv, TypeOK, old
  <2>6. /\ granted'[v] # Absent /\ granted'[v].expiresAt > now
        /\ granted'[v].consumer = consumerTokens[i].consumer
        /\ granted'[old] = Absent
    BY <2>1, <2>2, <2>4, <2>5, GrantPartsNext DEF PartsOK
  <2>7. Ledger!Good(old) /\ granted[old].consumer = consumerTokens[i].consumer
    BY <2>1, GrantParts DEF PartsOK, Ledger!Good
  <2>8. ASSUME NEW u \in RandomSuffixes \ {v, old} PROVE granted'[u] = granted[u]
    <3>1. consumerTokenValues[u] # Absent =>
            consumerTokenValues[u] \in RandomSuffixes \ {i}
      BY DEF IndInv, TypeOK, LookupMatchesRecords, old
    <3> QED BY <2>5, <3>1, GrantStays
  <2>9. Ledger!Exchange(old, v)
    BY <1>2, <2>6, <2>7, <2>8 DEF Ledger!Exchange, Ledger!Enter, Ledger!OnlyAt
  <2> QED BY <1>2, <2>1, <2>9, LedgerMove
<1> QED BY <1>1, <1>2 DEF RotateConsumerToken

\* A record that goes, or is revoked, takes at most its value off the ledger.
LEMMA RecordGoesLedger ==
    ASSUME IndInv, IndInv', NEW i \in RandomSuffixes, consumerTokens[i] # Absent,
           \A j \in RandomSuffixes \ {i} : consumerTokens'[j] = consumerTokens[j],
           \A u \in RandomSuffixes \ {consumerTokens[i].value} :
               consumerTokenValues'[u] = consumerTokenValues[u],
           granted'[consumerTokens[i].value] = Absent,
           drawn' = drawn, now' = now
    PROVE  Ledger!Next
<1> DEFINE old == consumerTokens[i].value
<1>1. old \in RandomSuffixes /\ consumerTokenValues[old] = i
  BY DEF IndInv, TypeOK, consumerToken, LookupMatchesRecords
<1>2. ASSUME NEW u \in RandomSuffixes \ {old} PROVE granted'[u] = granted[u]
  <2>1. consumerTokenValues[u] # Absent =>
          consumerTokenValues[u] \in RandomSuffixes \ {i}
    BY DEF IndInv, TypeOK, LookupMatchesRecords
  <2> QED BY <2>1, GrantStays
<1> HIDE DEF old
<1>3. CASE granted[old] # Absent
  <2>1. Ledger!Withdraw(old)
    BY <1>2, <1>3 DEF Ledger!Withdraw, Ledger!OnlyAt, old
  <2> QED BY <1>1, <2>1, LedgerMove
<1>4. CASE granted[old] = Absent
  <2>1. \A u \in RandomSuffixes : granted'[u] = granted[u]
    BY <1>2, <1>4 DEF old
  <2>2. granted' = granted
    BY <2>1 DEF granted
  <2> QED BY <2>2, LedgerMove DEF Ledger!Reserve
<1> QED BY <1>3, <1>4

\* Revoking a token withdraws its value.
LEMMA RevokeLedger ==
    ASSUME IndInv, IndInv', NEW i \in RandomSuffixes, RevokeConsumerToken(i)
    PROVE  Ledger!Next
<1>1. CASE Answer(204)
  BY <1>1, MapsStayLedger DEF Answer
<1>2. CASE /\ consumerTokens[i] # Absent
           /\ consumerTokens' = [consumerTokens EXCEPT ![i].revoked = TRUE]
           /\ UNCHANGED <<now, tokens, consumerTokenValues, drawn>>
  <2>1. /\ consumerTokens[i] \in consumerToken
        /\ consumerTokens[i].value \in RandomSuffixes
        /\ consumerTokenValues[consumerTokens[i].value] = i
    BY <1>2 DEF IndInv, TypeOK, consumerToken, LookupMatchesRecords
  <2>2. /\ consumerTokens'[i].revoked
        /\ \A j \in RandomSuffixes \ {i} : consumerTokens'[j] = consumerTokens[j]
    BY <1>2, <2>1 DEF IndInv, TypeOK, consumerToken
  <2>3. granted'[consumerTokens[i].value] = Absent
    BY <1>2, <2>1, <2>2, GrantPartsNext DEF PartsOK
  <2> QED BY <1>2, <2>2, <2>3, RecordGoesLedger
<1> QED BY <1>1, <1>2 DEF RevokeConsumerToken

\* Purging a token takes what is left of it off the ledger.
LEMMA PurgeLedger ==
    ASSUME IndInv, IndInv', NEW i \in RandomSuffixes, PurgeConsumerToken(i)
    PROVE  Ledger!Next
<1>1. CASE Answer(404) \/ Answer(409)
  BY <1>1, MapsStayLedger DEF Answer
<1>2. CASE /\ MayPurge(i)
           /\ consumerTokens' = [consumerTokens EXCEPT ![i] = Absent]
           /\ consumerTokenValues' =
                 [consumerTokenValues EXCEPT ![consumerTokens[i].value] = Absent]
           /\ UNCHANGED <<now, tokens, drawn>>
  <2>1. consumerTokens[i] # Absent /\ consumerTokens[i].value \in RandomSuffixes
    BY <1>2 DEF MayPurge, IndInv, TypeOK, consumerToken
  <2>2. /\ consumerTokenValues'[consumerTokens[i].value] = Absent
        /\ \A u \in RandomSuffixes \ {consumerTokens[i].value} :
              consumerTokenValues'[u] = consumerTokenValues[u]
        /\ \A j \in RandomSuffixes \ {i} : consumerTokens'[j] = consumerTokens[j]
    BY <1>2, <2>1 DEF IndInv, TypeOK
  <2>3. granted'[consumerTokens[i].value] = Absent
    BY <2>1, <2>2, GrantPartsNext DEF PartsOK
  <2> QED BY <1>2, <2>1, <2>2, <2>3, RecordGoesLedger
<1> QED BY <1>1, <1>2 DEF PurgeConsumerToken

\* Every step of the tokens is a step of the ledger.
LEMMA NextLedger == IndInv /\ [Next]_vars => Ledger!Next
<1> SUFFICES ASSUME IndInv, [Next]_vars PROVE Ledger!Next
  OBVIOUS
<1>0. IndInv'
  BY NextIndInv
<1>1. ASSUME NEW d \in Durations, CreateWriteToken(d) PROVE Ledger!Next
  BY <1>0, <1>1, MapsStayLedger DEF CreateWriteToken
<1>2. ASSUME NEW c \in Consumers, NEW d \in Durations, CreateConsumerToken(c, d)
      PROVE  Ledger!Next
  BY <1>0, <1>2, CreateLedger
<1>3. ASSUME NEW i \in RandomSuffixes, NEW d \in Durations, RotateConsumerToken(i, d)
      PROVE  Ledger!Next
  BY <1>0, <1>3, RotateLedger
<1>4. ASSUME NEW i \in RandomSuffixes, RevokeConsumerToken(i) PROVE Ledger!Next
  BY <1>0, <1>4, RevokeLedger
<1>5. ASSUME NEW i \in RandomSuffixes, PurgeConsumerToken(i) PROVE Ledger!Next
  BY <1>0, <1>5, PurgeLedger
<1>6. CASE Tick
  <2>1. granted' = granted /\ now' > now /\ drawn' = drawn
    BY <1>6 DEF Tick, granted, GrantOf, IndInv, TypeOK
  <2> QED BY <1>0, <2>1, LedgerMove DEF Ledger!Pass
<1>7. CASE UNCHANGED vars
  BY <1>0, <1>7, MapsStayLedger DEF vars
<1> QED BY <1>1, <1>2, <1>3, <1>4, <1>5, <1>6, <1>7 DEF Next

\* The records and the lookup together are one ledger of values: whatever is
\* rotated, revoked, purged and issued, and however time passes, a value keeps
\* its consumer and its expiry until it leaves, and never returns.
THEOREM TokensImplementLedger == Spec => ImplementsLedger
<1>1. Init => Ledger!Init
  BY DEF Init, Ledger!Init, granted, GrantOf
<1>2. IndInv /\ [Next]_vars => [Ledger!Next]_(<<now, granted, drawn>>)
  BY NextLedger
<1> QED BY <1>1, <1>2, Invariance, PTL DEF Spec, ImplementsLedger, Ledger!Spec, Ledger!vars

\* What the ledger is for: an entry stays as it was made until it goes.
EntryFinal ==
    \A v \in RandomSuffixes :
        /\ granted[v] # Absent => granted'[v] \in {granted[v], Absent}
        /\ granted[v] = Absent /\ v \in drawn => granted'[v] = Absent

LEMMA LedgerIsFinal == IndInv /\ Ledger!Next => EntryFinal
<1> SUFFICES ASSUME IndInv, Ledger!Next, NEW v \in RandomSuffixes
             PROVE  /\ granted[v] # Absent => granted'[v] \in {granted[v], Absent}
                    /\ granted[v] = Absent /\ v \in drawn => granted'[v] = Absent
  BY DEF EntryFinal
<1>1. granted[v] # Absent => v \in drawn
  BY GrantParts DEF PartsOK, IndInv, UndrawnUnused
<1>2. ASSUME NEW u \in RandomSuffixes, Ledger!Issue(u) \/ Ledger!Withdraw(u)
      PROVE  v \in drawn => granted'[v] \in {granted[v], Absent}
  BY <1>2 DEF Ledger!Issue, Ledger!Withdraw, Ledger!Enter, Ledger!OnlyAt
<1>3. ASSUME NEW old \in RandomSuffixes, NEW new \in RandomSuffixes, Ledger!Exchange(old, new)
      PROVE  v \in drawn => granted'[v] \in {granted[v], Absent}
  BY <1>3 DEF Ledger!Exchange, Ledger!Enter, Ledger!OnlyAt
<1>4. CASE Ledger!Reserve \/ Ledger!Pass
  BY <1>4 DEF Ledger!Reserve, Ledger!Pass
<1> QED BY <1>1, <1>2, <1>3, <1>4 DEF Ledger!Next

LEMMA NextFinal == IndInv /\ [Next]_vars => EntryFinal
BY NextLedger, LedgerIsFinal

\* Nobody's deadline is moved and no value changes hands: a value keeps its
\* consumer and its expiry for as long as it is there, and once it has gone,
\* or was used for anything else, it never stands for a consumer again.
THEOREM GrantsAreFinal == Spec => [][EntryFinal]_vars
<1>1. IndInv /\ [Next]_vars => [EntryFinal]_vars
  BY NextFinal
<1> QED BY <1>1, Invariance, PTL DEF Spec

-----------------------------------------------------------------------------
(* The two tables of credentials.                                          *)

\* No value is a write token and a consumer token.
TablesApart == \A v \in RandomSuffixes : consumerTokenValues[v] # Absent => tokens[v] = Absent

LEMMA NextApart == IndInv /\ TablesApart /\ [Next]_vars => TablesApart'
<1> SUFFICES ASSUME IndInv, TablesApart, [Next]_vars PROVE TablesApart'
  OBVIOUS
<1>0. /\ tokens \in [RandomSuffixes -> Int \cup {Absent}]
      /\ consumerTokenValues \in [RandomSuffixes -> RandomSuffixes \cup {Absent}]
      /\ \A x \in RandomSuffixes \ drawn : consumerTokenValues[x] = Absent /\ tokens[x] = Absent
  BY DEF IndInv, TypeOK, UndrawnUnused
<1>1. ASSUME UNCHANGED <<tokens, consumerTokenValues>> PROVE TablesApart'
  BY <1>1 DEF TablesApart
<1>2. ASSUME NEW d \in Durations, CreateWriteToken(d) PROVE TablesApart'
  <2>1. PICK w \in RandomSuffixes \ drawn : tokens' = [tokens EXCEPT ![w] = now + d]
    BY <1>2 DEF CreateWriteToken
  <2>2. consumerTokenValues' = consumerTokenValues
    BY <1>2 DEF CreateWriteToken
  <2> QED BY <1>0, <2>1, <2>2 DEF TablesApart
<1>3. ASSUME NEW c \in Consumers, NEW d \in Durations, CreateConsumerToken(c, d)
      PROVE  TablesApart'
  <2>1. ASSUME NEW i, NEW v \in RandomSuffixes \ drawn,
               consumerTokenValues' = [consumerTokenValues EXCEPT ![v] = i], tokens' = tokens
        PROVE  TablesApart'
    BY <1>0, <2>1 DEF TablesApart
  <2> QED BY <1>1, <1>3, <2>1 DEF CreateConsumerToken, Answer
<1>4. ASSUME NEW i \in RandomSuffixes, NEW d \in Durations, RotateConsumerToken(i, d)
      PROVE  TablesApart'
  <2>1. ASSUME NEW old, NEW v \in RandomSuffixes \ drawn,
               consumerTokenValues' = [consumerTokenValues EXCEPT ![old] = Absent, ![v] = i],
               tokens' = tokens
        PROVE  TablesApart'
    BY <1>0, <2>1 DEF TablesApart
  <2> QED BY <1>1, <1>4, <2>1 DEF RotateConsumerToken, Answer
<1>5. ASSUME NEW i \in RandomSuffixes, RevokeConsumerToken(i) PROVE TablesApart'
  BY <1>1, <1>5 DEF RevokeConsumerToken, Answer
<1>6. ASSUME NEW i \in RandomSuffixes, PurgeConsumerToken(i) PROVE TablesApart'
  <2>1. ASSUME NEW old, consumerTokenValues' = [consumerTokenValues EXCEPT ![old] = Absent],
               tokens' = tokens
        PROVE  TablesApart'
    BY <1>0, <2>1 DEF TablesApart
  <2> QED BY <1>1, <1>6, <2>1 DEF PurgeConsumerToken, Answer
<1>7. CASE Tick \/ UNCHANGED vars
  BY <1>1, <1>7 DEF Tick, vars
<1> QED BY <1>2, <1>3, <1>4, <1>5, <1>6, <1>7 DEF Next

\* handleGetObject may look a credential up in one table and then, under
\* another lock, in the second: it is never in both, whatever was issued,
\* rotated or purged in between.
THEOREM TablesStayApart == Spec => []TablesApart
<1>1. Init => TablesApart
  BY DEF Init, TablesApart
<1> QED BY <1>1, NextApart, Invariance, PTL DEF Spec
=============================================================================
