----------------------------- MODULE AuditStore -----------------------------
(***************************************************************************)
(* The audit log as testserver.Store keeps and filters it.                 *)
(*                                                                         *)
(* An entry's id is its position in the log: RecordAuditEntry counts up    *)
(* auditSeq and appends in one critical section, and nothing is ever       *)
(* removed.  An answer is the sequence of the ids of its entries; the      *)
(* fields the client copies (toAuditLogEntry) are determined by the id.    *)
(***************************************************************************)
EXTENDS Integers, Sequences, SequencesExt

CONSTANTS
    Entries,           \* [object, caller, actor, timestamp]; caller and
                       \* actor may be Nil
    Filters,           \* [object, caller, actor, from, to], each may be Nil
    MalformedObjects,  \* object ids that objectIDPattern refuses
    MaxEntries,        \* bound on the log
    Nil

ASSUME MaxEntriesAssumption == MaxEntries \in Nat

Ids == 1..MaxEntries

Logs == {log \in Seq(Entries) : Len(log) <= MaxEntries}

auditLogEntryMatches(e, f) ==
    /\ f.object # Nil => e.object = f.object
    /\ f.caller # Nil => e.caller = f.caller
    /\ f.actor # Nil => e.actor = f.actor
    /\ f.from # Nil => ~(e.timestamp < f.from)
    /\ f.to # Nil => ~(e.timestamp > f.to)

\* The ids that match f and are past the cursor; 0 is no cursor.
Matching(log, f, after) ==
    {i \in DOMAIN log : auditLogEntryMatches(log[i], f) /\ i > after}

StrictlyIncreasing(s) == \A j, k \in DOMAIN s : j < k => s[j] < s[k]

\* page holds the first limit elements of S, in order.
FirstOf(S, limit, page) ==
    /\ StrictlyIncreasing(page)
    /\ Len(page) <= limit
    /\ Range(page) \subseteq S
    /\ \A i \in S \ Range(page) :
          Len(page) = limit /\ \A k \in DOMAIN page : page[k] < i

\* What the loop of QueryAuditLog returns.
QueryAuditLog(log, f, after, limit, page) ==
    FirstOf(Matching(log, f, after), limit, page)

RecordAuditEntry(log, e) == Append(log, e)
=============================================================================
