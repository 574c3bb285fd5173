---------------------------- MODULE TokenLedger ----------------------------
(***************************************************************************)
(* What the server promises about consumer tokens: a ledger of values.  A  *)
(* value is good for one consumer up to one instant, neither of which ever *)
(* changes; a value that has left the ledger never returns, and none is    *)
(* entered twice.  Ids, revoked records and the split over two maps are    *)
(* hidden.  ConsumerTokens implements this specification.                  *)
(***************************************************************************)
EXTENDS Integers

CONSTANTS Values, Consumers, Absent

VARIABLES
    now,
    grants,    \* value -> whose it is and until when, or Absent
    used       \* the values nobody will be given (again)

vars == <<now, grants, used>>

Grant == [consumer : Consumers, expiresAt : Int]

Init == grants = [v \in Values |-> Absent] /\ used = {}

\* A value that is accepted.
Good(v) == grants[v] # Absent /\ ~(now > grants[v].expiresAt)

\* v is given out, and will not be expired on arrival.
Enter(v) ==
    /\ v \notin used /\ v \in used'
    /\ grants'[v] # Absent /\ grants'[v].expiresAt > now

OnlyAt(S) == \A u \in Values \ S : grants'[u] = grants[u]

Issue(v) == Enter(v) /\ OnlyAt({v}) /\ now' = now

\* A good value is exchanged for a new one of the same consumer.
Exchange(old, new) ==
    /\ Good(old) /\ grants'[old] = Absent
    /\ Enter(new) /\ grants'[new].consumer = grants[old].consumer
    /\ OnlyAt({old, new})
    /\ now' = now

\* A value is withdrawn, expired or not.
Withdraw(v) ==
    /\ grants[v] # Absent /\ grants'[v] = Absent
    /\ OnlyAt({v})
    /\ UNCHANGED <<now, used>>

\* Values are used up for something else.
Reserve == UNCHANGED <<now, grants>>

Pass == now' > now /\ UNCHANGED <<grants, used>>

Next ==
    /\ \/ \E v \in Values : Issue(v) \/ Withdraw(v)
       \/ \E old, new \in Values : Exchange(old, new)
       \/ Reserve
       \/ Pass
    /\ grants' \in [Values -> Grant \cup {Absent}]
    /\ used \subseteq used'

Spec == Init /\ [][Next]_vars
=============================================================================
