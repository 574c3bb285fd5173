---------------------------- MODULE MCCommandRun ----------------------------
(* Two commands against a small server.                                    *)
EXTENDS CommandRun

CONSTANTS t1, t2, s1, c1, c2, k1

\* Two spellings of one tag, one of another.
MCSpellings == {"lower", "UPPER", "other"}

MCLower == [t \in MCSpellings |-> IF t = "other" THEN t2 ELSE t1]

UpdateCommand(name, newName, key) ==
    [op |-> "consumer update", name |-> name, newName |-> newName, publicKey |-> key]

EditCommand(tags) ==
    [op |-> "edit", slug |-> s1, sel |-> NoSelector, description |-> Nil,
     newSlug |-> Nil, tags |-> tags]

MCAsk ==
    [op : {"consumer add", "consumer delete"}, name : {c1}]
    \cup {UpdateCommand(c1, c2, Nil), UpdateCommand(c1, Nil, k1)}
    \cup [op : {"token create"}, name : {c1}, ttl : {1}]
    \cup [op : {"token rotate"}, id : {TokenID}, ttl : {1}]
    \cup [op : {"token revoke", "token purge"}, id : {TokenID}]
    \cup [op : {"get"}, slug : {s1}, sel : {NoSelector}]
    \cup [op : {"delete"}, slug : {s1}, sel : {NoSelector}]
    \cup {EditCommand({"lower", "UPPER"}), EditCommand({"lower", "other"})}

\* A writer's configuration and a reader's.
MCConfigured == {<<WriteToken, Nil>>, <<Nil, TokenValue>>}

Fresh == RandomSuffixes \ {WriteToken, TokenID, TokenValue}

\* No guard and no property reads the last replies, or tells the two ways of
\* ending without an answer apart.
Essential ==
    <<objects, extra, consumers, issued, now, tokens, consumerTokens, consumerTokenValues,
      drawn, cmd, credential, stage, consumer, answer,
      [r \in Requests |-> IF outcome[r] = "interrupted" THEN "no answer" ELSE outcome[r]],
      history>>

Symmetry == Permutations(Fresh)
=============================================================================
