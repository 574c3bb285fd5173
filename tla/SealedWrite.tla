---------------------------- MODULE SealedWrite ----------------------------
(***************************************************************************)
(* cli.Inject and cli.Update against a live server: a command looks up the *)
(* key of one consumer after another, then the owner's, seals the value on *)
(* the writer's machine and only then sends it, while other clients keep   *)
(* changing the directory and the objects (ObjectStore's own operations).  *)
(*                                                                         *)
(* A sealed value is the set of keys it is sealed to: seal.Seal encrypts   *)
(* to every recipient independently, so these are who can read it.         *)
(***************************************************************************)
EXTENDS ObjectStore, FiniteSets

CONSTANTS
    Writers,    \* people at a terminal, each running one command at a time
    Explicit,   \* what --recipients may be given, {} when it is left out
    OwnerKey    \* the owner's escrowed key, once there is one

ASSUME SealedValuesAssumption == SUBSET (Keys \cup {OwnerKey}) \subseteq Values

ASSUME ExplicitAssumption == {} \in Explicit /\ Explicit \subseteq SUBSET Keys

ASSUME OwnerKeyAssumption == OwnerKey # Nil

VARIABLES
    ownerPublicKey,  \* the server's escrowed owner key, or Nil
    pc,              \* where a command is, "idle" when none is running
    cmd,             \* what it was asked to do, Nil when none is running
    todo,            \* the consumers whose key it still has to look up
    recipients,      \* the keys it will seal to
    held,            \* for a name: the keys it ever had, or had before a rename
    touched,         \* an entry of the command's consumers changed since its start
    byDirectory      \* slugs whose last write was sealed to looked-up keys

writer == <<pc, cmd, todo, recipients>>

history == <<held, touched, byDirectory>>

allVars == <<vars, ownerPublicKey, writer, history>>

\* inject or update, with the flag combinations their RunE lets through: on
\* update no --used-by leaves the list alone, and without --recipients there
\* is a --used-by to look up.
Commands ==
    {c \in [kind : {"inject", "update"}, slug : Slugs, explicit : Explicit,
            usedBy : Opt(SUBSET Consumers), keepReadableCopy : BOOLEAN] :
        /\ c.explicit = {} => c.usedBy \notin {Nil, {}}
        /\ c.kind = "inject" => c.usedBy # Nil}

\* Mutant: update does not look the consumers up.
LookedOnInject(c) == IF c.explicit = {} /\ c.kind = "inject" THEN c.usedBy ELSE {}

\* The consumers a command looks up: none with --recipients.
Looked(c) == IF c.explicit = {} THEN c.usedBy ELSE {}

\* Every variable holds a value of its kind, those of the store included.
WriteTypeOK ==
    /\ TypeOK
    /\ ownerPublicKey \in {Nil, OwnerKey}
    /\ pc \in [Writers -> {"idle", "resolving", "sealed"}]
    /\ cmd \in [Writers -> Opt(Commands)]
    /\ todo \in [Writers -> SUBSET Consumers]
    /\ recipients \in [Writers -> SUBSET (Keys \cup {OwnerKey})]
    /\ held \in [Consumers -> SUBSET Keys]
    /\ touched \in [Writers -> BOOLEAN]
    /\ byDirectory \subseteq Slugs

WriteInit ==
    /\ Init
    /\ ownerPublicKey = Nil
    /\ pc = [w \in Writers |-> "idle"]
    /\ cmd = [w \in Writers |-> Nil]
    /\ todo = [w \in Writers |-> {}]
    /\ recipients = [w \in Writers |-> {}]
    /\ held = [c \in Consumers |-> {}]
    /\ touched = [w \in Writers |-> FALSE]
    /\ byDirectory = {}

-----------------------------------------------------------------------------
(* What the history variables record of a step of the server.              *)

Disturbed(w) ==
    touched[w] \/ /\ pc[w] # "idle"
                  /\ \E c \in Looked(cmd[w]) : consumers'[c] # consumers[c]

\* Keys that a name has got; inherits takes over from another name.
Held(c, inherits) == held[c] \cup inherits \cup ({consumers'[c]} \cap Keys)

-----------------------------------------------------------------------------
(* Other clients.                                                          *)

Others ==
    /\ \/ /\ Register \/ Unregister \/ Delete
          /\ held' = [c \in Consumers |-> Held(c, {})]
       \/ \E c \in Consumers, n \in Opt(Consumers), k \in Opt(Keys) :
            /\ UpdateConsumer(c, n, k)
            /\ held' = [d \in Consumers |-> Held(d, IF d = n THEN held[c] ELSE {})]
    /\ touched' = [w \in Writers |-> Disturbed(w)]
    /\ UNCHANGED <<ownerPublicKey, writer, byDirectory>>

SetOwnerPublicKey ==
    /\ ownerPublicKey' = OwnerKey
    /\ UNCHANGED <<vars, writer, history>>

-----------------------------------------------------------------------------
(* The command.                                                            *)

Begin(w) ==
    /\ pc[w] = "idle"
    /\ \E c \in Commands :
         /\ cmd' = [cmd EXCEPT ![w] = c]
         /\ todo' = [todo EXCEPT ![w] = Looked(c)]
         /\ recipients' = [recipients EXCEPT ![w] = c.explicit]
    /\ pc' = [pc EXCEPT ![w] = "resolving"]
    /\ UNCHANGED <<vars, ownerPublicKey, history>>

\* The process exits: what it held in memory is gone.
End(w) ==
    /\ pc' = [pc EXCEPT ![w] = "idle"]
    /\ cmd' = [cmd EXCEPT ![w] = Nil]
    /\ todo' = [todo EXCEPT ![w] = {}]
    /\ recipients' = [recipients EXCEPT ![w] = {}]

\* It exits before anything is written.
Fail(w) ==
    /\ End(w)
    /\ touched' = [touched EXCEPT ![w] = FALSE]
    /\ UNCHANGED <<vars, ownerPublicKey, held, byDirectory>>

\* Mutant: a consumer without a key is skipped.
ResolveSkipping(w) ==
    \E c \in todo[w] :
        /\ pc[w] = "resolving"
        /\ todo' = [todo EXCEPT ![w] = @ \ {c}]
        /\ recipients' = [recipients EXCEPT ![w] = @ \cup ({consumers[c]} \cap Keys)]
        /\ UNCHANGED <<vars, ownerPublicKey, pc, cmd, history>>

\* resolveRecipients asks for one key, in the order of --used-by, which is
\* any; it fails at the first consumer that is unknown or has none.
Resolve(w) ==
    \E c \in todo[w] :
        /\ pc[w] = "resolving"
        /\ \/ consumers[c] \notin Keys /\ Fail(w)
           \/ /\ consumers[c] \in Keys
              /\ todo' = [todo EXCEPT ![w] = @ \ {c}]
              /\ recipients' = [recipients EXCEPT ![w] = @ \cup {consumers[c]}]
              /\ UNCHANGED <<vars, ownerPublicKey, pc, cmd, history>>

\* Mutant: an owner's key that is not set yet is used as it is.
SealUnchecked(w) ==
    /\ pc[w] = "resolving" /\ todo[w] = {}
    /\ recipients' = [recipients EXCEPT ![w] =
          @ \cup IF cmd[w].keepReadableCopy THEN {ownerPublicKey} ELSE {}]
    /\ pc' = [pc EXCEPT ![w] = "sealed"]
    /\ UNCHANGED <<vars, ownerPublicKey, cmd, todo, history>>

\* withOwnerKey, then seal.Seal.
Seal(w) ==
    /\ pc[w] = "resolving" /\ todo[w] = {}
    /\ \/ cmd[w].keepReadableCopy /\ ownerPublicKey = Nil /\ Fail(w)
       \/ /\ cmd[w].keepReadableCopy => ownerPublicKey # Nil
          /\ recipients' = [recipients EXCEPT ![w] =
                @ \cup IF cmd[w].keepReadableCopy THEN {ownerPublicKey} ELSE {}]
          /\ pc' = [pc EXCEPT ![w] = "sealed"]
          /\ UNCHANGED <<vars, ownerPublicKey, cmd, todo, history>>

\* The one request that writes.  The command ends whether the server applies
\* or refuses it, and also when the answer to an applied request is lost.
Write(w) ==
    /\ pc[w] = "sealed"
    /\ LET c == cmd[w] IN
       /\ \/ /\ c.kind = "inject"
             /\ \E d \in Descriptions, t \in SUBSET Tags :
                   createObject(c.slug, recipients[w], c.usedBy, d, t)
          \/ /\ c.kind = "update"
             /\ \E sel \in Selectors, t \in Opt(SUBSET Tags) :
                   updateVariant(c.slug, sel, recipients[w], t, c.usedBy)
       /\ byDirectory' = IF reply' # "ok" THEN byDirectory
                         ELSE IF c.explicit = {} THEN byDirectory \cup {c.slug}
                         ELSE byDirectory \ {c.slug}
    /\ End(w)
    /\ held' = [c \in Consumers |-> Held(c, {})]
    /\ touched' = [v \in Writers |-> v # w /\ Disturbed(v)]
    /\ UNCHANGED ownerPublicKey

\* A request fails before it reaches the server, or Ctrl-C.
Interrupt(w) == pc[w] # "idle" /\ Fail(w)

WriteNext ==
    \/ Others
    \/ SetOwnerPublicKey
    \/ \E w \in Writers :
         Begin(w) \/ Resolve(w) \/ Seal(w) \/ Write(w) \/ Interrupt(w)

WriteSpec == WriteInit /\ [][WriteNext]_allVars

-----------------------------------------------------------------------------
(* Properties.                                                             *)

\* A value whose recipients were looked up is sealed to a key of every one
\* of its consumers - a key the consumer has or had, under its name or one
\* it was renamed from - whatever other commands did in between and
\* whichever of them wrote last: Inject "fails naming the first consumer
\* with no registered key rather than sealing to fewer recipients".
SealedForItsConsumers ==
    \A s \in byDirectory : objects[s] # Absent =>
        \A c \in objects[s].usedBy : objects[s].value \cap held[c] # {}

\* Just before it writes, a command whose consumers' entries were left alone
\* has collected exactly their current keys, and the owner's just when a
\* readable copy was asked for: nobody is left out, nobody else can read it.
UndisturbedRecipientsAreCurrent ==
    \A w \in Writers :
        pc[w] = "sealed" /\ cmd[w].explicit = {} /\ ~touched[w] =>
            recipients[w] =
                {consumers[c] : c \in cmd[w].usedBy}
                    \cup (IF cmd[w].keepReadableCopy THEN {OwnerKey} ELSE {})

\* "seals the new value to their registered public keys": when the write is
\* applied, the keys are the ones registered then.
SealedToRegisteredKeys ==
    [][\A w \in Writers :
          Write(w) /\ reply' = "ok" /\ cmd[w].explicit = {} =>
              \A c \in cmd[w].usedBy : consumers'[c] \in recipients[w]]_allVars

\* As far as that promise goes: it holds of an applied write whose consumers'
\* entries nobody changed while the command ran, and the write itself takes
\* no consumer's key away when its names join the directory.
UndisturbedWritesAreCurrent ==
    [][\A w \in Writers :
          Write(w) /\ reply' = "ok" /\ cmd[w].explicit = {} /\ ~touched[w] =>
              \A c \in cmd[w].usedBy : consumers'[c] \in recipients[w]]_allVars
=============================================================================
