-------------------------- MODULE CommandContract --------------------------
(***************************************************************************)
(* What a user of the commands may rely on, whatever happens to processes, *)
(* requests and answers.  A command takes effect at most once, in a single *)
(* step after its start.  One that succeeds has taken effect by then, one  *)
(* that fails has not and never will; of one that ends in any other way    *)
(* nothing is known, and it may take effect at any later time.             *)
(* CommandRun implements this specification.                               *)
(***************************************************************************)
EXTENDS Sequences

CONSTANT Requests

VARIABLES
    known,     \* request -> what its user knows of it
    reads,     \* the requests that only read
    effects    \* the requests that took effect, in order

vars == <<known, reads, effects>>

Init ==
    /\ known = [r \in Requests |-> "idle"]
    /\ reads = {}
    /\ effects = << >>

Effective(r) == \E i \in DOMAIN effects : effects[i] = r

\* A command is sent, or refused on the spot.
Start(r) ==
    /\ known[r] = "idle"
    /\ \E k \in {"running", "failed"} : known' = [known EXCEPT ![r] = k]
    /\ reads' \in {reads, reads \cup {r}}
    /\ UNCHANGED effects

TakeEffect(r) ==
    /\ known[r] \in {"running", "unclear"}
    /\ r \notin reads /\ ~Effective(r)
    /\ effects' = Append(effects, r)
    /\ UNCHANGED <<known, reads>>

End(r, k) ==
    /\ known[r] = "running"
    /\ known' = [known EXCEPT ![r] = k]
    /\ UNCHANGED <<reads, effects>>

Succeed(r) == (r \in reads \/ Effective(r)) /\ End(r, "done")

Fail(r) == ~Effective(r) /\ End(r, "failed")

GiveUp(r) == End(r, "unclear")

Next ==
    \E r \in Requests :
        Start(r) \/ TakeEffect(r) \/ Succeed(r) \/ Fail(r) \/ GiveUp(r)

Spec == Init /\ [][Next]_vars
=============================================================================
