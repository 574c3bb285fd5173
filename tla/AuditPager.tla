----------------------------- MODULE AuditPager -----------------------------
(***************************************************************************)
(* client.QueryAuditLog: the audit-log command follows the server's cursor *)
(* page by page while other clients keep appending entries.  A page is one *)
(* critical section of the server; what the client does with it before the *)
(* next request touches only its own variables, so one action does both.   *)
(***************************************************************************)
EXTENDS AuditStore

CONSTANTS
    Limits,            \* what --limit may ask for; Nil is no limit
    auditLogPageMax    \* 500

ASSUME LimitsAssumption == Limits \subseteq (Nat \ {0}) \cup {Nil} /\ Nil \notin Nat

ASSUME PageMaxAssumption == auditLogPageMax \in Nat \ {0}

VARIABLES
    auditLog,   \* the server's log
    pc,         \* where the command is
    filter, limit,
    after,      \* the cursor of the next request, 0 before the first
    result      \* the ids collected

vars == <<auditLog, pc, filter, limit, after, result>>

\* Every variable holds a value of its kind.
TypeOK ==
    /\ auditLog \in Logs
    /\ pc \in {"idle", "paging", "done", "failed"}
    /\ filter \in Filters
    /\ limit \in Limits
    /\ after \in 0..MaxEntries
    /\ result \in Seq(Ids)

Init ==
    /\ auditLog = << >>
    /\ pc = "idle"
    /\ filter \in Filters /\ limit \in Limits
    /\ after = 0
    /\ result = << >>

-----------------------------------------------------------------------------
\* Another client's call is recorded.
Record ==
    /\ Len(auditLog) < MaxEntries
    /\ \E e \in Entries : auditLog' = RecordAuditEntry(auditLog, e)
    /\ UNCHANGED <<pc, filter, limit, after, result>>

\* Mutant: ParseAuditLogFilter passes a limit of 0 on.
StartZeroLimit ==
    /\ pc # "paging"
    /\ pc' = "paging" /\ after' = 0 /\ result' = << >>
    /\ filter' \in Filters /\ limit' \in Limits \cup {0}
    /\ UNCHANGED auditLog

\* The command starts: ParseAuditLogFilter leaves a limit of 0 or less out.
Start ==
    /\ pc # "paging"
    /\ pc' = "paging" /\ after' = 0 /\ result' = << >>
    /\ filter' \in Filters /\ limit' \in Limits
    /\ UNCHANGED auditLog

\* The page size asked for, the same in every request.
pageLimit ==
    IF limit # Nil /\ limit < auditLogPageMax THEN limit ELSE auditLogPageMax

\* The server answers 400.
Refused ==
    \/ filter.object # Nil /\ filter.object \in MalformedObjects
    \/ pageLimit < 1 \/ pageLimit > auditLogPageMax

Pages == BoundedSeq(Ids, auditLogPageMax)

\* The entries of a page that are collected before the limit is reached.
Kept(page) ==
    IF limit = Nil \/ limit - Len(result) >= Len(page) THEN page
    ELSE SubSeq(page, 1, limit - Len(result))

\* Mutant: only the limit ends the loop.
ShortPageNever(page) == FALSE

ShortPage(page) == Len(page) < pageLimit

\* Mutant: the cursor counts entries like an offset.
NextCursorByCount(page) == after + Len(page)

\* The cursor is the id of the last entry.  (An empty page is short.)
NextCursor(page) == IF page = << >> THEN after ELSE page[Len(page)]

Fetch ==
    /\ pc = "paging" /\ ~Refused
    /\ \E page \in Pages :
         /\ QueryAuditLog(auditLog, filter, after, pageLimit, page)
         /\ result' = result \o Kept(page)
         /\ IF (limit # Nil /\ Len(result') >= limit) \/ ShortPage(page)
            THEN pc' = "done" /\ UNCHANGED after
            ELSE after' = NextCursor(page) /\ UNCHANGED pc
    /\ UNCHANGED <<auditLog, filter, limit>>

\* Any error loses what was collected: QueryAuditLog returns nil.
GiveUp ==
    /\ pc' = "failed" /\ result' = << >>
    /\ UNCHANGED <<auditLog, filter, limit, after>>

Refuse == pc = "paging" /\ Refused /\ GiveUp

\* The connection breaks, or Ctrl-C cancels the context.
Break == pc = "paging" /\ GiveUp

Next == Record \/ Start \/ Fetch \/ Refuse \/ Break

\* The client's loop runs on and the server answers it.
Fairness == WF_vars(Fetch \/ Refuse)

Spec == Init /\ [][Next]_vars /\ Fairness

-----------------------------------------------------------------------------
(* Properties.                                                             *)

\* What is collected is at any moment a prefix of the matching entries, in
\* the log's order: between pages nothing is skipped, doubled or reordered
\* by entries that are appended meanwhile, whatever the filter lets through.
ResultIsPrefix ==
    pc \in {"paging", "done"} =>
        /\ StrictlyIncreasing(result)
        /\ Range(result) \subseteq Matching(auditLog, filter, 0)
        /\ \A i \in Matching(auditLog, filter, 0) \ Range(result) :
              \A k \in DOMAIN result : result[k] < i

\* A request that is not the last one brings a whole page of entries behind
\* the cursor, so that no page is asked for twice and a command makes no more
\* requests than its matching entries fill pages, and one.
EveryPageAdvances ==
    [][Fetch /\ pc' = "paging" =>
          after' > after /\ Len(result') = Len(result) + pageLimit]_vars

Query == INSTANCE AuditQuery WITH
            result <- IF pc = "done" THEN result ELSE << >>

\* The paged command is one atomic query: what it prints is what a single
\* unlimited request would have returned at some moment of its run.
ImplementsQuery == Query!Spec

\* The command ends once the log stops growing (here at MaxEntries).
QueryEnds == pc = "paging" ~> pc # "paging"
=============================================================================
