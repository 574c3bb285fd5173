-------------------------- MODULE ConfigFileProofs --------------------------
(* Proofs about ConfigFile.                                                *)
EXTENDS ConfigFile, TLAPS

\* What Render writes for an answer is of the right form, and a value never
\* blank goes to the keyring.
LEMMA PersistType ==
    ASSUME NEW a \in CredentialAnswer
    PROVE  /\ PersistCredential(a) \in RenderedSecret
           /\ a.choice = "keyring" => a.value \in Secrets
BY DEF PersistCredential, CredentialAnswer, RenderedSecret, NoSecret

\* Every answer of the prompts keeps the rule of CredentialAnswer.
LEMMA PromptType ==
    /\ promptCredential \subseteq CredentialAnswer
    /\ Blank \in CredentialAnswer
    /\ NoSecret \in RenderedSecret
BY NilAssumption DEF promptCredential, CredentialAnswer, Blank, NoSecret, RenderedSecret

\* Keeping an answer keeps values and outputs of commands.
LEMMA KeptType ==
    ASSUME NEW a \in CredentialAnswer
    PROVE  Kept(a) \subseteq Secrets \cup {Output(c) : c \in Commands}
BY DEF Kept, CredentialAnswer

\* A write over another one leaves a config of the right form, or none.
LEMMA OverwrittenType ==
    ASSUME NEW cfg \in Config, NEW g \in Overwritten(cfg)
    PROVE  g \in Config \cup {Torn}
<1>1. CASE g = cfg
  BY <1>1
<1>2. CASE g = Torn
  BY <1>2
<1>3. CASE /\ file \in Config
           /\ g = [cfg EXCEPT !["identity"].command = file["identity"].command]
  BY <1>3 DEF Config, RenderedSecret, Fields
<1> QED
  BY <1>1, <1>2, <1>3 DEF Overwritten

\* The first state is of the right type.
LEMMA TypeInit == Init => TypeOK
BY PromptType DEF Init, TypeOK, StarterConfig, NoAnswers, Config, Fields

\* Every step keeps the types.
LEMMA TypeStays == TypeOK /\ [Next]_vars => TypeOK'
<1> SUFFICES ASSUME TypeOK, [Next]_vars PROVE TypeOK'
  OBVIOUS
<1> USE DEF TypeOK
<1>1. ASSUME NEW p \in Processes, Start(p) PROVE TypeOK'
  <2>1. Read \in Config
    BY PromptType DEF Read, StarterConfig, Config
  <2> QED
    BY <1>1, <2>1 DEF Start
<1>2. ASSUME NEW p \in Processes, OfferInit(p) PROVE TypeOK'
  BY <1>2 DEF OfferInit
<1>3. ASSUME NEW p \in Processes, RunInit(p) PROVE TypeOK'
  BY <1>3 DEF RunInit
<1>4. ASSUME NEW p \in Processes, Decline(p) PROVE TypeOK'
  BY <1>4 DEF Decline
<1>5. ASSUME NEW p \in Processes, PromptConfig(p) PROVE TypeOK'
  <2>1. PICK a \in [Fields -> promptCredential] :
          /\ answers' = [answers EXCEPT ![p] = a]
          /\ kept' = [f \in Fields |-> kept[f] \cup Kept(a[f])]
    BY <1>5 DEF PromptConfig
  <2>2. a \in [Fields -> CredentialAnswer]
    BY PromptType
  <2>3. \A f \in Fields : Kept(a[f]) \subseteq Secrets \cup {Output(c) : c \in Commands}
    BY <2>2, KeptType
  <2>4. kept' \in [Fields -> SUBSET (Secrets \cup {Output(c) : c \in Commands})]
    BY <2>1, <2>3
  <2> QED
    BY <1>5, <2>1, <2>2, <2>4 DEF PromptConfig
<1>6. ASSUME NEW p \in Processes, NEW f \in Fields,
             NEW next \in {"identity", "truncate"}, Persist(p, f, next)
      PROVE  TypeOK'
  <2>1. answers[p][f] \in CredentialAnswer
    OBVIOUS
  <2>2. content' \in [Processes -> Config]
    BY <1>6, <2>1, PersistType DEF Persist, Config
  <2>3. keyring' \in [Fields -> Secrets \cup {Absent}]
    BY <1>6, <2>1, PersistType DEF Persist
  <2>4. disturbed' \in [Processes -> BOOLEAN]
    BY <1>6 DEF Persist, Disturb
  <2> QED
    BY <1>6, <2>2, <2>3, <2>4 DEF Persist
<1>7. ASSUME NEW p \in Processes, Truncate(p) PROVE TypeOK'
  BY <1>7 DEF Truncate, Disturb
<1>8. ASSUME NEW p \in Processes, Fill(p) PROVE TypeOK'
  <2>1. file' \in Config \cup {Torn}
    BY <1>8, OverwrittenType DEF Fill
  <2> QED
    BY <1>8, <2>1 DEF Fill, Disturb
<1>9. ASSUME NEW p \in Processes, Reload(p) PROVE TypeOK'
  <2>1. Read \in Config
    BY PromptType DEF Read, StarterConfig, Config
  <2> QED
    BY <1>9, <2>1 DEF Reload
<1>10. ASSUME NEW p \in Processes, Exit(p) PROVE TypeOK'
  <2>1. StarterConfig \in Config /\ NoAnswers \in [Fields -> CredentialAnswer]
    BY PromptType DEF StarterConfig, NoAnswers, Config
  <2> QED
    BY <1>10, <2>1 DEF Exit
<1>11. CASE UNCHANGED vars
  BY <1>11 DEF vars
<1> QED
  BY <1>1, <1>2, <1>3, <1>4, <1>5, <1>6, <1>7, <1>8, <1>9, <1>10, <1>11 DEF Next, Fields

\* The type invariant, for any processes, secrets and commands.
THEOREM TypeCorrect == Spec => []TypeOK
BY TypeInit, TypeStays, PTL DEF Spec

-----------------------------------------------------------------------------
(* What the file makes of a credential.                                    *)

\* A field of a config is in order if what it names, given what was kept for
\* the field (k) and its keyring entry (e), is there and was to be kept.
Sound(r, k, e) ==
    /\ r.literal \in k \cup {Nil}
    /\ r.command \in {Nil, KeyringGet} \/ Output(r.command) \in k
    /\ r.command = KeyringGet => e # Absent

\* Every config, written or about to be, is in order; so is the keyring.
AllSound ==
    /\ \A f \in Fields : keyring[f] \in kept[f] \cup {Absent}
    /\ \A p \in Processes, f \in Fields : Kept(answers[p][f]) \subseteq kept[f]
    /\ \A p \in Processes, f \in Fields : Sound(content[p][f], kept[f], keyring[f])
    /\ file \in Config => \A f \in Fields : Sound(file[f], kept[f], keyring[f])

SoundInv == TypeOK /\ AllSound

\* No order of stores and writes takes back what a config relies on.
LEMMA SoundStays ==
    ASSUME NEW r, NEW k, NEW e, NEW k2, NEW e2, Sound(r, k, e),
           k \subseteq k2, e # Absent => e2 # Absent
    PROVE  Sound(r, k2, e2)
BY DEF Sound

\* What is written for an answer is in order once the keyring has the value.
LEMMA PersistSound ==
    ASSUME NEW a \in CredentialAnswer, NEW k, NEW e, Kept(a) \subseteq k,
           a.choice = "keyring" => e # Absent
    PROVE  Sound(PersistCredential(a), k, e)
<1>1. CASE a.choice = "skip"
  BY <1>1, NilAssumption DEF Sound, PersistCredential, NoSecret
<1>2. CASE a.choice = "literal"
  <2>1. a.value \in k
    BY <1>2 DEF Kept
  <2> QED
    BY <1>2, <2>1, NilAssumption DEF Sound, PersistCredential
<1>3. CASE a.choice = "keyring"
  BY <1>3 DEF Sound, PersistCredential
<1>4. CASE a.choice = "command"
  <2>1. a.extra = Nil \/ Output(a.extra) \in k
    BY <1>4 DEF Kept
  <2>2. a.extra \in Commands \cup {Nil}
    BY DEF CredentialAnswer
  <2> QED
    BY <1>4, <2>1, <2>2, NilAssumption DEF Sound, PersistCredential
<1> QED
  BY <1>1, <1>2, <1>3, <1>4 DEF CredentialAnswer

\* The empty config is in order.
LEMMA NoSecretSound ==
    /\ \A k, e : Sound(NoSecret, k, e)
    /\ Kept(Blank) = {}
BY NilAssumption DEF Sound, NoSecret, Kept, Blank

\* Every step keeps every config in order.
LEMMA SoundStep == SoundInv /\ [Next]_vars => SoundInv'
<1> SUFFICES ASSUME SoundInv, [Next]_vars PROVE AllSound'
  BY TypeStays DEF SoundInv
<1> TypeOK /\ AllSound
  BY DEF SoundInv
<1>0. StarterConfig = [f \in Fields |-> NoSecret] /\ NoAnswers = [f \in Fields |-> Blank]
  BY DEF StarterConfig, NoAnswers
<1>1. ASSUME NEW p \in Processes,
             Start(p) \/ OfferInit(p) \/ RunInit(p) \/ Decline(p) \/ Reload(p)
      PROVE  AllSound'
  BY <1>1 DEF Start, OfferInit, RunInit, Decline, Reload, AllSound
<1>2. ASSUME NEW p \in Processes, PromptConfig(p) PROVE AllSound'
  <2>1. PICK a \in [Fields -> promptCredential] :
          /\ answers' = [answers EXCEPT ![p] = a]
          /\ kept' = [f \in Fields |-> kept[f] \cup Kept(a[f])]
    BY <1>2 DEF PromptConfig
  <2>2. \A f \in Fields : kept[f] \subseteq kept'[f] /\ Kept(a[f]) \subseteq kept'[f]
    BY <2>1
  <2>3. UNCHANGED <<file, keyring, content>>
    BY <1>2 DEF PromptConfig
  <2>4. \A q \in Processes, f \in Fields : Kept(answers'[q][f]) \subseteq kept'[f]
    BY <2>1, <2>2 DEF AllSound, TypeOK
  <2>5. \A q \in Processes, f \in Fields : Sound(content'[q][f], kept'[f], keyring'[f])
    BY <2>2, <2>3, SoundStays DEF AllSound
  <2>6. file' \in Config => \A f \in Fields : Sound(file'[f], kept'[f], keyring'[f])
    BY <2>2, <2>3, SoundStays DEF AllSound
  <2> QED
    BY <2>2, <2>3, <2>4, <2>5, <2>6 DEF AllSound
<1>3. ASSUME NEW p \in Processes, NEW g \in Fields,
             NEW next \in {"identity", "truncate"}, Persist(p, g, next)
      PROVE  AllSound'
  <2>1. answers[p][g] \in CredentialAnswer /\ Kept(answers[p][g]) \subseteq kept[g]
    BY DEF AllSound, TypeOK
  <2>2. answers[p][g].choice = "keyring" =>
          answers[p][g].value \in kept[g] /\ answers[p][g].value # Absent
    BY <2>1, PersistType, NilAssumption DEF Kept
  <2>3. UNCHANGED <<file, answers, kept>>
    BY <1>3 DEF Persist
  <2>4. \A f \in Fields : /\ keyring'[f] \in kept[f] \cup {Absent}
                          /\ keyring[f] # Absent => keyring'[f] # Absent
    BY <1>3, <2>2 DEF Persist, AllSound, TypeOK
  <2>5. answers[p][g].choice = "keyring" => keyring'[g] # Absent
    BY <1>3, <2>2 DEF Persist, TypeOK
  <2>6. content' = [content EXCEPT ![p][g] = PersistCredential(answers[p][g])]
    BY <1>3 DEF Persist
  <2>7. Sound(PersistCredential(answers[p][g]), kept[g], keyring'[g])
    BY <2>1, <2>5, PersistSound
  <2>8. \A q \in Processes, f \in Fields : Sound(content[q][f], kept[f], keyring'[f])
    BY <2>4, SoundStays DEF AllSound
  <2>9. \A q \in Processes, f \in Fields :
          content'[q][f] = IF q = p /\ f = g THEN PersistCredential(answers[p][g])
                           ELSE content[q][f]
    BY <2>6 DEF TypeOK, Config
  <2>10. file \in Config => \A f \in Fields : Sound(file[f], kept[f], keyring'[f])
    BY <2>4, SoundStays DEF AllSound
  <2> QED
    BY <2>3, <2>4, <2>7, <2>8, <2>9, <2>10 DEF AllSound
<1>4. ASSUME NEW p \in Processes, Truncate(p) PROVE AllSound'
  BY <1>4, FileAssumption DEF Truncate, AllSound
<1>5. ASSUME NEW p \in Processes, Fill(p) PROVE AllSound'
  <2>1. UNCHANGED <<keyring, answers, content, kept>> /\ file' \in Overwritten(content[p])
    BY <1>5 DEF Fill
  <2>2. content[p] \in Config
    BY DEF TypeOK
  <2>3. file' \in Config => \A f \in Fields : Sound(file'[f], kept[f], keyring[f])
    <3>1. CASE file' = content[p]
      BY <3>1 DEF AllSound
    <3>2. CASE file' = Torn
      BY <3>2, FileAssumption
    <3>3. CASE /\ file \in Config
               /\ file' = [content[p] EXCEPT !["identity"].command = file["identity"].command]
      <4>1. \A f \in Fields : Sound(content[p][f], kept[f], keyring[f])
                              /\ Sound(file[f], kept[f], keyring[f])
        BY <3>3 DEF AllSound
      <4>2. /\ file'["token"] = content[p]["token"]
            /\ file'["identity"].literal = content[p]["identity"].literal
            /\ file'["identity"].command = file["identity"].command
        BY <3>3, <2>2 DEF Config, RenderedSecret, Fields
      <4>3. Sound(file'["token"], kept["token"], keyring["token"])
        BY <4>1, <4>2 DEF Fields
      <4>4. Sound(file'["identity"], kept["identity"], keyring["identity"])
        BY <4>1, <4>2 DEF Sound, Fields
      <4> QED
        BY <4>3, <4>4 DEF Fields
    <3> QED
      BY <2>1, <3>1, <3>2, <3>3 DEF Overwritten
  <2> QED
    BY <2>1, <2>3 DEF AllSound
<1>6. ASSUME NEW p \in Processes, Exit(p) PROVE AllSound'
  <2>1. /\ UNCHANGED <<file, keyring, kept>>
        /\ answers' = [answers EXCEPT ![p] = NoAnswers]
        /\ content' = [content EXCEPT ![p] = StarterConfig]
    BY <1>6 DEF Exit
  <2>2. \A q \in Processes, f \in Fields :
          /\ Kept(answers'[q][f]) \subseteq kept[f]
          /\ Sound(content'[q][f], kept[f], keyring[f])
    BY <2>1, <1>0, NoSecretSound DEF AllSound, TypeOK
  <2> QED
    BY <2>1, <2>2 DEF AllSound
<1>7. CASE UNCHANGED vars
  BY <1>7 DEF vars, AllSound
<1> QED
  BY <1>1, <1>2, <1>3, <1>4, <1>5, <1>6, <1>7 DEF Next, Fields

\* SoundInv holds throughout.
LEMMA SoundAlways == Spec => []SoundInv
<1>1. Init => SoundInv
  <2>1. Init => TypeOK
    BY TypeInit
  <2>2. Init => AllSound
    BY NoSecretSound, FileAssumption DEF Init, AllSound, StarterConfig, NoAnswers
  <2> QED
    BY <2>1, <2>2 DEF SoundInv
<1> QED
  BY <1>1, SoundStep, PTL DEF Spec

\* A file never refers to a keyring entry that is not there.
THEOREM KeyringAlwaysBacksFile == Spec => []KeyringBacksFile
<1>1. SoundInv => KeyringBacksFile
  BY DEF SoundInv, AllSound, Sound, KeyringBacksFile
<1> QED
  BY <1>1, SoundAlways, PTL

\* The file only ever yields what a user asked to keep for that field.
THEOREM OnlyKeptIsResolved == Spec => []ResolvedWasKept
<1>1. SoundInv => ResolvedWasKept
  <2> SUFFICES ASSUME SoundInv, file \in Config, NEW f \in Fields
               PROVE  ResolveSecret(file, f) \in kept[f] \cup {Nil}
    BY DEF ResolvedWasKept
  <2>1. Sound(file[f], kept[f], keyring[f]) /\ keyring[f] \in kept[f] \cup {Absent}
    BY DEF SoundInv, AllSound
  <2>2. CASE file[f].command = Nil
    BY <2>1, <2>2 DEF Sound, ResolveSecret
  <2>3. CASE file[f].command = KeyringGet
    BY <2>1, <2>3, NilAssumption DEF Sound, ResolveSecret
  <2>4. CASE file[f].command \notin {Nil, KeyringGet}
    BY <2>1, <2>4 DEF Sound, ResolveSecret
  <2> QED
    BY <2>2, <2>3, <2>4
<1> QED
  BY <1>1, SoundAlways, PTL

-----------------------------------------------------------------------------
(* What an undisturbed process relies on.                                  *)

\* An answer has been stored: in the content to be written and, if asked
\* for, in the keyring.
Stored(p, f) ==
    /\ content[p][f] = PersistCredential(answers[p][f])
    /\ answers[p][f].choice = "keyring" => keyring[f] = answers[p][f].value

\* Where a process has got to, as long as no other one has changed anything:
\* what it stored and wrote is there.
Undisturbed(p) ==
    /\ pc[p] \in {"idle", "check", "prompt"} =>
          answers[p] = NoAnswers /\ content[p] = StarterConfig
    /\ ~disturbed[p] =>
         /\ pc[p] \in {"identity", "truncate", "fill", "written"} => Stored(p, "token")
         /\ pc[p] \in {"truncate", "fill", "written"} => Stored(p, "identity")
         /\ pc[p] = "fill" => file = Empty
         /\ pc[p] = "written" => file = content[p]
         /\ pc[p] = "body" =>
               \A f \in Fields : Kept(answers[p][f]) \subseteq {ResolveSecret(settings[p], f)}

AllUndisturbed == \A p \in Processes : Undisturbed(p)

UndisturbedInv == TypeOK /\ AllUndisturbed

\* A user who kept nothing has everything kept; nothing typed is nothing
\* stored.
LEMMA BlankStored ==
    ASSUME NEW p \in Processes, answers[p] = NoAnswers, content[p] = StarterConfig,
           NEW f \in Fields
    PROVE  Stored(p, f) /\ Kept(answers[p][f]) = {}
BY DEF Stored, NoAnswers, StarterConfig, Blank, PersistCredential, Kept

\* A process that no step of its own has moved, and that was disturbed if the
\* file or the keyring has changed, relies on the same as before.
LEMMA OtherStays ==
    ASSUME TypeOK, NEW q \in Processes, Undisturbed(q),
           pc'[q] = pc[q], command'[q] = command[q], settings'[q] = settings[q],
           answers'[q] = answers[q], content'[q] = content[q],
           \/ file' = file /\ keyring' = keyring /\ (disturbed[q] => disturbed'[q])
           \/ disturbed'[q] = (disturbed[q] \/ pc[q] # "idle")
    PROVE  Undisturbed(q)'
<1>1. CASE file' = file /\ keyring' = keyring /\ (disturbed[q] => disturbed'[q])
  BY <1>1 DEF Undisturbed, Stored, ResolveSecret
<1>2. CASE disturbed'[q] /\ pc[q] # "idle"
  BY <1>2 DEF Undisturbed
<1>3. CASE pc[q] = "idle"
  BY <1>3 DEF Undisturbed
<1> QED
  BY <1>1, <1>2, <1>3

\* Every step keeps what an undisturbed process relies on.
LEMMA UndisturbedStep == UndisturbedInv /\ [Next]_vars => UndisturbedInv'
<1> SUFFICES ASSUME UndisturbedInv, [Next]_vars PROVE AllUndisturbed'
  BY TypeStays DEF UndisturbedInv
<1> TypeOK /\ \A q \in Processes : Undisturbed(q)
  BY DEF UndisturbedInv, AllUndisturbed
<1>1. ASSUME NEW p \in Processes, NEW f \in Fields,
             NEW next \in {"identity", "truncate"}, Persist(p, f, next),
             (f = "token" /\ next = "identity") \/ (f = "identity" /\ next = "truncate")
      PROVE  AllUndisturbed'
  <2>1. Undisturbed(p)'
    <3>1. /\ pc'[p] = next /\ disturbed'[p] = disturbed[p]
          /\ UNCHANGED <<file, command, settings, answers>>
      BY <1>1 DEF Persist, Disturb, TypeOK
    <3>2. /\ content'[p][f] = PersistCredential(answers[p][f])
          /\ \A g \in Fields : g # f => content'[p][g] = content[p][g]
      BY <1>1 DEF Persist, TypeOK, Config
    <3>3. /\ answers[p][f].choice = "keyring" => keyring'[f] = answers[p][f].value
          /\ \A g \in Fields : g # f => keyring'[g] = keyring[g]
      BY <1>1 DEF Persist, TypeOK
    <3>4. Stored(p, f)' /\ (next = "truncate" /\ Stored(p, "token") => Stored(p, "token")')
      BY <1>1, <3>1, <3>2, <3>3 DEF Stored, Fields
    <3> QED
      BY <1>1, <3>1, <3>4 DEF Undisturbed, Persist
  <2>2. ASSUME NEW q \in Processes, q # p PROVE Undisturbed(q)'
    BY <1>1, <2>2, OtherStays DEF Persist, Disturb, TypeOK
  <2> QED
    BY <2>1, <2>2 DEF AllUndisturbed
<1>2. ASSUME NEW p \in Processes,
             Start(p) \/ OfferInit(p) \/ RunInit(p) \/ Decline(p) \/ PromptConfig(p)
      PROVE  AllUndisturbed'
  <2>1. Undisturbed(p)'
    <3>1. pc[p] \in {"idle", "check", "prompt"} /\ answers[p] = NoAnswers
          /\ content[p] = StarterConfig
      BY <1>2 DEF Start, OfferInit, RunInit, Decline, PromptConfig, Undisturbed
    <3>2. CASE Start(p)
      BY <3>1, <3>2 DEF Start, Undisturbed, TypeOK
    <3>3. CASE OfferInit(p)
      <4>1. Stored(p, "token")' /\ Stored(p, "identity")'
            /\ \A f \in Fields : Kept(answers'[p][f]) = {}
        BY <3>1, <3>3, BlankStored DEF OfferInit, Stored, Fields
      <4>2. pc'[p] \in {"body", "truncate", "prompt"}
        BY <3>3 DEF OfferInit, TypeOK
      <4>3. answers'[p] = NoAnswers /\ content'[p] = StarterConfig
        BY <3>1, <3>3 DEF OfferInit
      <4> QED
        BY <4>1, <4>2, <4>3 DEF Undisturbed
    <3>4. CASE RunInit(p)
      <4>1. Stored(p, "token")' /\ Stored(p, "identity")'
        BY <3>1, <3>4, BlankStored DEF RunInit, Stored, Fields
      <4>2. pc'[p] \in {"truncate", "prompt"}
        BY <3>4 DEF RunInit, TypeOK
      <4>3. answers'[p] = NoAnswers /\ content'[p] = StarterConfig
        BY <3>1, <3>4 DEF RunInit
      <4> QED
        BY <4>1, <4>2, <4>3 DEF Undisturbed
    <3>5. CASE Decline(p)
      <4>1. \A f \in Fields : Kept(answers'[p][f]) = {}
        BY <3>1, <3>5, BlankStored DEF Decline
      <4> QED
        BY <3>5, <4>1 DEF Decline, Undisturbed, TypeOK
    <3>6. CASE PromptConfig(p)
      BY <3>6 DEF PromptConfig, Undisturbed, TypeOK
    <3> QED
      BY <1>2, <3>2, <3>3, <3>4, <3>5, <3>6
  <2>2. ASSUME NEW q \in Processes, q # p PROVE Undisturbed(q)'
    BY <1>2, <2>2, OtherStays DEF Start, OfferInit, RunInit, Decline, PromptConfig, TypeOK
  <2> QED
    BY <2>1, <2>2 DEF AllUndisturbed
<1>3. ASSUME NEW p \in Processes, Truncate(p) PROVE AllUndisturbed'
  <2>1. Undisturbed(p)'
    BY <1>3 DEF Truncate, Disturb, Undisturbed, Stored, TypeOK
  <2>2. ASSUME NEW q \in Processes, q # p PROVE Undisturbed(q)'
    BY <1>3, <2>2, OtherStays DEF Truncate, Disturb, TypeOK
  <2> QED
    BY <2>1, <2>2 DEF AllUndisturbed
<1>4. ASSUME NEW p \in Processes, Fill(p) PROVE AllUndisturbed'
  <2>1. Undisturbed(p)'
    <3>1. file = Empty => file' = content[p]
      BY <1>4, FileAssumption DEF Fill, Overwritten
    <3> QED
      BY <1>4, <3>1 DEF Fill, Disturb, Undisturbed, Stored, TypeOK
  <2>2. ASSUME NEW q \in Processes, q # p PROVE Undisturbed(q)'
    BY <1>4, <2>2, OtherStays DEF Fill, Disturb, TypeOK
  <2> QED
    BY <2>1, <2>2 DEF AllUndisturbed
<1>5. ASSUME NEW p \in Processes, Reload(p) PROVE AllUndisturbed'
  <2>1. Undisturbed(p)'
    <3>1. pc[p] = "written" /\ pc'[p] = "body" /\ settings'[p] = Read
          /\ UNCHANGED <<keyring, answers, disturbed>>
      BY <1>5 DEF Reload, TypeOK
    <3>2. ASSUME ~disturbed[p], NEW f \in Fields
          PROVE  Kept(answers[p][f]) \subseteq {ResolveSecret(settings[p], f)'}
      <4>1. settings'[p] = content[p] /\ Stored(p, f)
        <5>1. file = content[p] /\ Stored(p, "token") /\ Stored(p, "identity")
          BY <3>1, <3>2 DEF Undisturbed
        <5>2. content[p] \in Config
          BY DEF TypeOK
        <5> QED
          BY <3>1, <5>1, <5>2 DEF Read, Fields
      <4>2. answers[p][f] \in CredentialAnswer
        BY DEF TypeOK
      <4> DEFINE a == answers[p][f]
      <4>3. LET r == content[p][f] IN
            /\ r.command = Nil => ResolveSecret(settings[p], f)' = r.literal
            /\ r.command = KeyringGet => ResolveSecret(settings[p], f)' = keyring[f]
            /\ r.command \notin {Nil, KeyringGet} =>
                  ResolveSecret(settings[p], f)' = Output(r.command)
        <5>1. settings'[p][f] = content[p][f] /\ keyring' = keyring
          BY <3>1, <4>1
        <5>2. CASE content[p][f].command = Nil
          BY <5>1, <5>2, NilAssumption DEF ResolveSecret
        <5>3. CASE content[p][f].command = KeyringGet
          BY <5>1, <5>3, NilAssumption DEF ResolveSecret
        <5>4. CASE content[p][f].command \notin {Nil, KeyringGet}
          BY <5>1, <5>4 DEF ResolveSecret
        <5> QED
          BY <5>2, <5>3, <5>4
      <4>4. content[p][f] = PersistCredential(a)
            /\ (a.choice = "keyring" => keyring[f] = a.value)
        BY <4>1 DEF Stored
      <4>5. CASE a.choice = "keyring"
        BY <4>3, <4>4, <4>5, NilAssumption DEF PersistCredential, Kept
      <4>6. CASE a.choice = "literal"
        BY <4>3, <4>4, <4>6 DEF PersistCredential, Kept
      <4>7. CASE a.choice = "command"
        <5>1. a.extra \in Commands \cup {Nil}
          BY <4>2 DEF CredentialAnswer
        <5> QED
          BY <4>3, <4>4, <4>7, <5>1, NilAssumption DEF PersistCredential, Kept
      <4>8. CASE a.choice = "skip"
        BY <4>8 DEF Kept
      <4> QED
        BY <4>2, <4>5, <4>6, <4>7, <4>8 DEF CredentialAnswer
    <3> QED
      BY <3>1, <3>2 DEF Undisturbed
  <2>2. ASSUME NEW q \in Processes, q # p PROVE Undisturbed(q)'
    BY <1>5, <2>2, OtherStays DEF Reload, TypeOK
  <2> QED
    BY <2>1, <2>2 DEF AllUndisturbed
<1>6. ASSUME NEW p \in Processes, Exit(p) PROVE AllUndisturbed'
  <2>1. Undisturbed(p)'
    BY <1>6 DEF Exit, Undisturbed, TypeOK
  <2>2. ASSUME NEW q \in Processes, q # p PROVE Undisturbed(q)'
    BY <1>6, <2>2, OtherStays DEF Exit, TypeOK
  <2> QED
    BY <2>1, <2>2 DEF AllUndisturbed
<1>7. CASE UNCHANGED vars
  BY <1>7 DEF vars, AllUndisturbed, Undisturbed, Stored, ResolveSecret
<1> QED
  BY <1>1, <1>2, <1>3, <1>4, <1>5, <1>6, <1>7 DEF Next, Fields

\* UndisturbedInv holds throughout.
LEMMA UndisturbedAlways == Spec => []UndisturbedInv
<1>1. Init => UndisturbedInv
  BY TypeInit DEF Init, UndisturbedInv, AllUndisturbed, Undisturbed
<1> QED
  BY <1>1, UndisturbedStep, PTL DEF Spec

\* An accepted offer's command goes on with what its user kept.
THEOREM SavedIsAlwaysUsed == Spec => []SavedIsUsed
<1>1. UndisturbedInv => SavedIsUsed
  BY DEF UndisturbedInv, AllUndisturbed, Undisturbed, SavedIsUsed
<1> QED
  BY <1>1, UndisturbedAlways, PTL

-----------------------------------------------------------------------------
(* Whose file a process may truncate.                                      *)

\* A file that a process did not find is there now only because another one
\* has opened it meanwhile.  No step takes a file away.
LookHolds(p) ==
    /\ pc[p] \in Looked => file = Absent \/ command[p] = "init --force" \/ overtaken[p]
    /\ pc[p] = "fill" => file # Absent

LookInv == TypeOK /\ \A p \in Processes : LookHolds(p)

\* Steps that leave the file alone: whoever goes on to write has just looked.
LEMMA LookQuiet ==
    ASSUME LookInv, NEW p \in Processes, file' = file,
           \/ Start(p) \/ OfferInit(p) \/ RunInit(p) \/ Decline(p) \/ PromptConfig(p)
           \/ Persist(p, "token", "identity") \/ Persist(p, "identity", "truncate")
           \/ Reload(p) \/ Exit(p),
           NEW q \in Processes
    PROVE  LookHolds(q)'
<1> TypeOK /\ LookHolds(q)
  BY DEF LookInv
<1>1. CASE q # p
  <2>1. pc'[q] = pc[q] /\ command'[q] = command[q] /\ overtaken'[q] = overtaken[q]
    BY <1>1 DEF TypeOK, Start, OfferInit, RunInit, Decline, PromptConfig, Persist, Reload, Exit
  <2> QED
    BY <2>1 DEF LookHolds
<1>2. CASE q = p
  <2>1. CASE pc'[p] \notin Looked \cup {"fill"}
    BY <1>2, <2>1 DEF LookHolds
  <2>2. CASE OfferInit(p)
    BY <1>2, <2>1, <2>2 DEF OfferInit, ShouldWriteStarter, Exists, LookHolds, Looked, TypeOK
  <2>3. CASE RunInit(p)
    BY <1>2, <2>3 DEF RunInit, Exists, LookHolds, Looked, TypeOK
  <2>4. CASE PromptConfig(p) \/ Persist(p, "token", "identity") \/ Persist(p, "identity", "truncate")
    BY <1>2, <2>4 DEF PromptConfig, Persist, LookHolds, Looked, TypeOK
  <2>5. CASE Start(p) \/ Decline(p) \/ Reload(p) \/ Exit(p)
    BY <2>1, <2>5 DEF Start, Decline, Reload, Exit, Looked, TypeOK
  <2> QED
    BY <2>2, <2>3, <2>4, <2>5
<1> QED
  BY <1>1, <1>2

\* Every step keeps it; the one that opens the file overtakes who has looked.
LEMMA LookStep == LookInv /\ [Next]_vars => LookInv'
<1> SUFFICES ASSUME LookInv, [Next]_vars, NEW q \in Processes PROVE LookHolds(q)'
  BY TypeStays DEF LookInv
<1> TypeOK /\ LookHolds(q)
  BY DEF LookInv
<1>1. ASSUME NEW p \in Processes,
             \/ Start(p) \/ OfferInit(p) \/ RunInit(p) \/ Decline(p) \/ PromptConfig(p)
             \/ Persist(p, "token", "identity") \/ Persist(p, "identity", "truncate")
             \/ Reload(p) \/ Exit(p)
      PROVE  LookHolds(q)'
  <2>1. file' = file
    BY <1>1 DEF Start, OfferInit, RunInit, Decline, PromptConfig, Persist, Reload, Exit
  <2> QED
    BY <1>1, <2>1, LookQuiet
<1>2. ASSUME NEW p \in Processes, Truncate(p) PROVE LookHolds(q)'
  <2>1. file' # Absent
    BY <1>2, FileAssumption DEF Truncate
  <2>2. CASE q = p
    BY <1>2, <2>1, <2>2 DEF Truncate, LookHolds, Looked, TypeOK
  <2>3. CASE q # p
    BY <1>2, <2>1, <2>3 DEF Truncate, LookHolds, TypeOK
  <2> QED
    BY <2>2, <2>3
<1>3. ASSUME NEW p \in Processes, Fill(p) PROVE LookHolds(q)'
  <2>1. file # Absent
    BY <1>3 DEF Fill, LookInv, LookHolds
  <2>2. file' # Absent
    <3>1. file' \in Config \cup {Torn}
      BY <1>3, OverwrittenType DEF Fill, TypeOK
    <3> QED
      BY <3>1, FileAssumption
  <2>3. CASE q = p
    BY <1>3, <2>2, <2>3 DEF Fill, LookHolds, Looked, TypeOK
  <2>4. CASE q # p
    BY <1>3, <2>1, <2>2, <2>4 DEF Fill, LookHolds, TypeOK
  <2> QED
    BY <2>3, <2>4
<1>4. CASE UNCHANGED vars
  BY <1>4 DEF vars, LookHolds
<1> QED
  BY <1>1, <1>2, <1>3, <1>4 DEF Next

\* A file that is there is truncated only for init --force, or after another
\* process opened it between this one's look and its write.
THEOREM OnlyForceOverwrites == Spec => NeverOverwrittenUnasked
<1>1. Init => LookInv
  BY TypeInit DEF Init, LookInv, LookHolds, Looked
<1>2. LookInv =>
        \A p \in Processes :
            Truncate(p) => file = Absent \/ command[p] = "init --force" \/ overtaken[p]
  BY DEF LookInv, LookHolds, Looked, Truncate
<1> QED
  BY <1>1, <1>2, LookStep, PTL DEF Spec, NeverOverwrittenUnasked
=============================================================================
