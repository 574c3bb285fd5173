----------------------------- MODULE ConfigFile -----------------------------
(***************************************************************************)
(* The config file and the OS keyring: what init and the offer before any  *)
(* other command check, ask, store and write, in several processes at a    *)
(* time, each of which may die between any two steps.                      *)
(*                                                                         *)
(* Abstractions.  The file is the way it gives each of the two credentials *)
(* init asks for; the other settings, which are never stored elsewhere,    *)
(* flags and the values of HUSH_HUSH_* variables are left out.  Finding    *)
(* the path never fails.                                                   *)
(***************************************************************************)
CONSTANTS
    Processes,
    Secrets,    \* what a user may type as a credential
    Commands,   \* the retrieval commands a user may give
    Asked,      \* the fields users type something for (a bound)
    Nil,        \* the empty string
    Absent,     \* no file, no keyring entry
    Empty,      \* the file between the two steps of os.WriteFile
    Torn        \* two writes on top of each other, not YAML any more

Fields == {"token", "identity"}

\* The command that Render writes for a value in the keyring.
KeyringGet == "hush-hush-cli config keyring-get"

\* What a retrieval command prints.
Output(command) == <<"output", command>>

ASSUME NilAssumption ==
    /\ Nil \notin Secrets \cup Commands \cup {KeyringGet}
    /\ KeyringGet \notin Commands
    /\ Absent \notin Secrets

RenderedSecret == [literal : Secrets \cup {Nil}, command : Commands \cup {KeyringGet, Nil}]

NoSecret == [literal |-> Nil, command |-> Nil]

Config == [Fields -> RenderedSecret]

\* StarterConfig holds the defaults, as no file does.
StarterConfig == [f \in Fields |-> NoSecret]

ASSUME FileAssumption ==
    /\ {Absent, Empty, Torn} \cap Config = {}
    /\ Absent \notin {Empty, Torn} /\ Empty # Torn
    /\ Asked \subseteq Fields

\* The answer to one credential's prompts.
CredentialAnswer ==
    {a \in [value : Secrets \cup {Nil}, extra : Commands \cup {Nil},
            choice : {"skip", "keyring", "command", "literal"}] :
        a.value = Nil => a.choice = "skip"}

Blank == [value |-> Nil, extra |-> Nil, choice |-> "skip"]

VARIABLES
    file,       \* the config file
    keyring,    \* field -> value
    pc,         \* where a process is
    command,    \* what it runs: init, init --force or any other command
    settings,   \* the file as it last read it (viper)
    answers,    \* what its user answered
    content,    \* what it is going to write
    disturbed,  \* another process changed file or keyring since it started
    overtaken,  \* another one has opened the file since it found none
    kept        \* field -> what users asked to keep for it

vars == <<file, keyring, pc, command, settings, answers, content, disturbed, overtaken, kept>>

\* Every variable holds a value of its kind; a blank value is never kept.
TypeOK ==
    /\ file \in Config \cup {Absent, Empty, Torn}
    /\ keyring \in [Fields -> Secrets \cup {Absent}]
    /\ pc \in [Processes -> {"idle", "check", "prompt", "token", "identity",
                             "truncate", "fill", "written", "body"}]
    /\ command \in [Processes -> {"init", "init --force", "other"}]
    /\ settings \in [Processes -> Config]
    /\ answers \in [Processes -> [Fields -> CredentialAnswer]]
    /\ content \in [Processes -> Config]
    /\ disturbed \in [Processes -> BOOLEAN]
    /\ overtaken \in [Processes -> BOOLEAN]
    /\ kept \in [Fields -> SUBSET (Secrets \cup {Output(c) : c \in Commands})]

NoAnswers == [f \in Fields |-> Blank]

Init ==
    /\ file = Absent
    /\ keyring = [f \in Fields |-> Absent]
    /\ pc = [p \in Processes |-> "idle"]
    /\ command = [p \in Processes |-> "other"]
    /\ settings = [p \in Processes |-> StarterConfig]
    /\ answers = [p \in Processes |-> NoAnswers]
    /\ content = [p \in Processes |-> StarterConfig]
    /\ disturbed = [p \in Processes |-> FALSE]
    /\ overtaken = [p \in Processes |-> FALSE]
    /\ kept = [f \in Fields |-> {}]

-----------------------------------------------------------------------------
\* A file that cannot be parsed is ignored when a process starts.
Read == IF file \in Config THEN file ELSE StarterConfig

Exists == file # Absent

\* ResolveSecret: the command wins over the literal.
ResolveSecret(cfg, f) ==
    CASE cfg[f].command = Nil -> cfg[f].literal
      [] cfg[f].command = KeyringGet -> keyring[f]
      [] OTHER -> Output(cfg[f].command)

\* Mutant: the choice is asked for a blank value too.
promptCredentialAsking ==
    [value : Secrets \cup {Nil}, extra : {Nil}, choice : {"skip", "keyring", "literal"}]
        \cup [value : Secrets, extra : Commands \cup {Nil}, choice : {"command"}]

\* Nothing typed, or a value with one of the four choices.  A command may be
\* left empty.
promptCredential ==
    {Blank} \cup [value : Secrets, extra : {Nil}, choice : {"skip", "keyring", "literal"}]
            \cup [value : Secrets, extra : Commands \cup {Nil}, choice : {"command"}]

\* Mutant: what is not to be saved goes into the file.
PersistCredentialInFile(a) ==
    CASE a.choice = "keyring" -> [literal |-> Nil, command |-> KeyringGet]
      [] a.choice = "command" -> [literal |-> Nil, command |-> a.extra]
      [] OTHER -> [literal |-> a.value, command |-> Nil]

\* PersistCredential's result.
PersistCredential(a) ==
    CASE a.choice = "keyring" -> [literal |-> Nil, command |-> KeyringGet]
      [] a.choice = "command" -> [literal |-> Nil, command |-> a.extra]
      [] a.choice = "literal" -> [literal |-> a.value, command |-> Nil]
      [] a.choice = "skip" -> NoSecret

\* What a user who gave this answer expects to be used from now on.
Kept(a) ==
    CASE a.choice \in {"keyring", "literal"} -> {a.value}
      [] a.choice = "command" /\ a.extra # Nil -> {Output(a.extra)}
      [] OTHER -> {}

\* Another process's step on the file or the keyring.
Disturb(p) ==
    disturbed' = [q \in Processes |-> disturbed[q] \/ (q # p /\ pc[q] # "idle")]

-----------------------------------------------------------------------------
(* A process.                                                              *)

\* newRootCmd reads the file.
Start(p) ==
    /\ pc[p] = "idle"
    /\ pc' = [pc EXCEPT ![p] = "check"]
    /\ \E c \in {"init", "init --force", "other"} : command' = [command EXCEPT ![p] = c]
    /\ settings' = [settings EXCEPT ![p] = Read]
    /\ UNCHANGED <<file, keyring, answers, content, disturbed, overtaken, kept>>

\* Mutant: the offer forgets that a file may exist.
ShouldWriteStarterAlways(yes, interactive) == yes \/ interactive

\* There is no file, and --yes was given or the user can be asked (Decline is
\* Confirm's other answer).
ShouldWriteStarter(yes, interactive) == ~Exists /\ (yes \/ interactive)

\* OfferInit, up to the first prompt, before any command but init.  (man and
\* config keyring-get, which are not offered anything, use none of this.)
OfferInit(p) ==
    /\ pc[p] = "check" /\ command[p] = "other"
    /\ \E yes, interactive, anyEnvSet \in BOOLEAN :
         \/ /\ ~anyEnvSet /\ ShouldWriteStarter(yes, interactive)
            /\ pc' = [pc EXCEPT ![p] = IF yes THEN "truncate" ELSE "prompt"]
         \/ /\ anyEnvSet \/ ~ShouldWriteStarter(yes, interactive)
            /\ pc' = [pc EXCEPT ![p] = "body"]
    /\ UNCHANGED <<file, keyring, command, settings, answers, content, disturbed, overtaken, kept>>

\* newInitCmd's RunE, up to the first prompt.  An init that finds a file only
\* exits; one without a terminal, or with --yes, writes the starter config.
RunInit(p) ==
    /\ pc[p] = "check"
    /\ command[p] = "init --force" \/ (command[p] = "init" /\ ~Exists)
    /\ \E next \in {"truncate", "prompt"} : pc' = [pc EXCEPT ![p] = next]
    /\ UNCHANGED <<file, keyring, command, settings, answers, content, disturbed, overtaken, kept>>

\* Confirm's question is declined; the command goes on without a file.
Decline(p) ==
    /\ pc[p] = "prompt" /\ command[p] = "other"
    /\ pc' = [pc EXCEPT ![p] = "body"]
    /\ UNCHANGED <<file, keyring, command, settings, answers, content, disturbed, overtaken, kept>>

\* PromptConfig: every answer is collected before anything is stored.
PromptConfig(p) ==
    /\ pc[p] = "prompt"
    /\ \E a \in [Fields -> promptCredential] :
         /\ \A f \in Fields \ Asked : a[f] = Blank
         /\ answers' = [answers EXCEPT ![p] = a]
         /\ kept' = [f \in Fields |-> kept[f] \cup Kept(a[f])]
    /\ pc' = [pc EXCEPT ![p] = "token"]
    /\ UNCHANGED <<file, keyring, command, settings, content, disturbed, overtaken>>

\* Mutant: an error of keyring.Set is dropped.
PersistUnchecked(p, f, next) ==
    /\ pc[p] = f
    /\ content' = [content EXCEPT ![p][f] = PersistCredential(answers[p][f])]
    /\ pc' = [pc EXCEPT ![p] = next]
    /\ UNCHANGED <<file, keyring, command, settings, answers, disturbed, overtaken, kept>>

\* PersistCredential for one field, the keyring first.
Persist(p, f, next) ==
    /\ pc[p] = f
    /\ IF answers[p][f].choice = "keyring"
       THEN keyring' = [keyring EXCEPT ![f] = answers[p][f].value] /\ Disturb(p)
       ELSE UNCHANGED <<keyring, disturbed>>
    /\ content' = [content EXCEPT ![p][f] = PersistCredential(answers[p][f])]
    /\ pc' = [pc EXCEPT ![p] = next]
    /\ UNCHANGED <<file, command, settings, answers, overtaken, kept>>

\* Between looking for the file and opening it.
Looked == {"prompt", "token", "identity", "truncate"}

\* os.WriteFile opens and truncates the file ...
Truncate(p) ==
    /\ pc[p] = "truncate"
    /\ file' = Empty
    /\ pc' = [pc EXCEPT ![p] = "fill"]
    /\ Disturb(p)
    /\ overtaken' = [q \in Processes |-> overtaken[q] \/ (q # p /\ pc[q] \in Looked)]
    /\ UNCHANGED <<keyring, command, settings, answers, content, kept>>

\* What a write leaves behind it when another process has written since the
\* truncation: nothing, if that was shorter; a rest that spoils the YAML; or
\* just the last line, identity_command.
Overwritten(cfg) ==
    {cfg} \cup (IF file = Empty THEN {} ELSE {Torn})
          \cup (IF file \in Config /\ cfg["identity"].command = Nil
                THEN {[cfg EXCEPT !["identity"].command = file["identity"].command]}
                ELSE {})

\* ... and writes from its start, in one call.
Fill(p) ==
    /\ pc[p] = "fill"
    /\ file' \in Overwritten(content[p])
    /\ pc' = [pc EXCEPT ![p] = "written"]
    /\ Disturb(p)
    /\ UNCHANGED <<keyring, command, settings, answers, content, overtaken, kept>>

\* Mutant: the command goes on with the settings it started with.
ReloadNot(p) ==
    /\ pc[p] = "written" /\ command[p] = "other"
    /\ pc' = [pc EXCEPT ![p] = "body"]
    /\ UNCHANGED <<file, keyring, command, settings, answers, content, disturbed, overtaken, kept>>

\* maybeOfferInit reads the file it has written.  (A file that cannot be
\* parsed, or is gone, ends the command.)
Reload(p) ==
    /\ pc[p] = "written" /\ command[p] = "other" /\ file # Torn
    /\ settings' = [settings EXCEPT ![p] = Read]
    /\ pc' = [pc EXCEPT ![p] = "body"]
    /\ UNCHANGED <<file, keyring, command, answers, content, disturbed, overtaken, kept>>

\* The process ends: the command's body has run, an error was returned, or it
\* was killed, after any step.
Exit(p) ==
    /\ pc[p] # "idle"
    /\ pc' = [pc EXCEPT ![p] = "idle"]
    /\ command' = [command EXCEPT ![p] = "other"]
    /\ settings' = [settings EXCEPT ![p] = StarterConfig]
    /\ answers' = [answers EXCEPT ![p] = NoAnswers]
    /\ content' = [content EXCEPT ![p] = StarterConfig]
    /\ disturbed' = [disturbed EXCEPT ![p] = FALSE]
    /\ overtaken' = [overtaken EXCEPT ![p] = FALSE]
    /\ UNCHANGED <<file, keyring, kept>>

Next ==
    \E p \in Processes :
        \/ Start(p) \/ OfferInit(p) \/ RunInit(p) \/ Decline(p) \/ PromptConfig(p)
        \/ Persist(p, "token", "identity") \/ Persist(p, "identity", "truncate")
        \/ Truncate(p) \/ Fill(p) \/ Reload(p) \/ Exit(p)

Spec == Init /\ [][Next]_vars

-----------------------------------------------------------------------------
(* Properties.                                                             *)

\* A file that refers to the keyring for a credential finds one there, at any
\* moment, in whatever order processes store, write and die.
KeyringBacksFile ==
    file \in Config =>
        \A f \in Fields : file[f].command = KeyringGet => keyring[f] # Absent

\* What the file makes of a credential is something a user asked to keep for
\* that very field: "silence never opts a secret into being written to disk".
ResolvedWasKept ==
    file \in Config =>
        \A f \in Fields : ResolveSecret(file, f) \in kept[f] \cup {Nil}

\* A command whose offer was accepted goes on with what its user asked to
\* keep, unless another process stored or wrote something meanwhile.
SavedIsUsed ==
    \A p \in Processes :
        pc[p] = "body" /\ ~disturbed[p] =>
            \A f \in Fields : Kept(answers[p][f]) \subseteq {ResolveSecret(settings[p], f)}

\* "a config file is already there - never overwrite it unasked": a process
\* truncates a file that is there only for init --force, or when another one
\* has opened it between this one's look and its write; nothing else that
\* happens meanwhile, a store in the keyring or a death, leads to it.
NeverOverwrittenUnasked ==
    [][\A p \in Processes :
          Truncate(p) => file = Absent \/ command[p] = "init --force" \/ overtaken[p]]_vars

\* A credential that is not to be saved "is used for this invocation only".
SkippedIsUsed ==
    \A p \in Processes :
        pc[p] = "body" => \A f \in Fields :
            answers[p][f].choice = "skip" /\ answers[p][f].value # Nil =>
                ResolveSecret(settings[p], f) = answers[p][f].value
=============================================================================
