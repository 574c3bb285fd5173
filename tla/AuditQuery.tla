----------------------------- MODULE AuditQuery -----------------------------
(***************************************************************************)
(* What the audit-log command promises, whatever the paging: its answer is *)
(* one atomic query.  At some moment between its start and its end it      *)
(* holds exactly the first limit matching entries of the log (all of them  *)
(* without a limit), oldest first; a command that fails shows nothing.     *)
(***************************************************************************)
EXTENDS AuditStore

CONSTANT Limits    \* what --limit may ask for; Nil is no limit

VARIABLES auditLog, pc, filter, limit, result

vars == <<auditLog, pc, filter, limit, result>>

Init ==
    /\ auditLog = << >>
    /\ pc = "idle"
    /\ filter \in Filters /\ limit \in Limits
    /\ result = << >>

Record ==
    /\ \E e \in Entries : auditLog' = Append(auditLog, e)
    /\ UNCHANGED <<pc, filter, limit, result>>

Start ==
    /\ pc # "paging"
    /\ pc' = "paging" /\ result' = << >>
    /\ filter' \in Filters /\ limit' \in Limits
    /\ UNCHANGED auditLog

Answer ==
    /\ pc = "paging"
    /\ pc' = "done"
    /\ result' \in Seq(Nat)
    /\ LET all == Matching(auditLog, filter, 0)
       IN  IF limit = Nil
           THEN StrictlyIncreasing(result') /\ Range(result') = all
           ELSE FirstOf(all, limit, result')
    /\ UNCHANGED <<auditLog, filter, limit>>

Fail ==
    /\ pc = "paging"
    /\ pc' = "failed" /\ result' = << >>
    /\ UNCHANGED <<auditLog, filter, limit>>

Next == Record \/ Start \/ Answer \/ Fail

Spec == Init /\ [][Next]_vars
=============================================================================
