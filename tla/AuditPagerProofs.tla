-------------------------- MODULE AuditPagerProofs --------------------------
(***************************************************************************)
(* Proofs about AuditPager: its invariant, and that the paged command      *)
(* implements the atomic query of AuditQuery, for every page size, limit,  *)
(* filter and length of the log.                                           *)
(***************************************************************************)
EXTENDS AuditPager, SequenceTheorems, TLAPS

\* The cursor splits the matching entries: those up to it are collected,
\* those behind it are what the next page is cut from.
CursorInv ==
    pc = "paging" =>
        /\ after <= Len(auditLog)
        /\ \A i \in Range(result) : i <= after
        /\ \A i \in Matching(auditLog, filter, 0) : i <= after => i \in Range(result)
        /\ limit # Nil => Len(result) < limit

IInv == TypeOK /\ ResultIsPrefix /\ CursorInv

-----------------------------------------------------------------------------
(* Lemmas about sequences of ids.                                          *)

\* The matching ids are ids of the log.
LEMMA MatchingAreIds ==
    ASSUME TypeOK, NEW n \in Nat
    PROVE  /\ Matching(auditLog, filter, n) \subseteq Ids
           /\ Matching(auditLog, filter, n) = {i \in Matching(auditLog, filter, 0) : i > n}
<1>1. DOMAIN auditLog = 1..Len(auditLog) /\ Len(auditLog) \in Nat /\ Len(auditLog) <= MaxEntries
  BY DEF TypeOK, Logs
<1>2. DOMAIN auditLog \subseteq Ids
  BY <1>1, MaxEntriesAssumption DEF Ids
<1> QED
  BY <1>1, <1>2 DEF Matching, Ids

\* Appending an entry leaves the matching ids up to it alone.
LEMMA MatchingGrows ==
    ASSUME TypeOK, NEW e \in Entries
    PROVE  LET log == Append(auditLog, e)
           IN  /\ Matching(auditLog, filter, 0) \subseteq Matching(log, filter, 0)
               /\ \A i \in Matching(log, filter, 0) \ Matching(auditLog, filter, 0) :
                     i = Len(auditLog) + 1
<1> DEFINE log == Append(auditLog, e)
<1>1. auditLog \in Seq(Entries)
  BY DEF TypeOK, Logs
<1>2. /\ Len(auditLog) \in Nat /\ DOMAIN auditLog = 1..Len(auditLog)
      /\ DOMAIN log = 1..(Len(auditLog) + 1)
      /\ \A i \in 1..Len(auditLog) : log[i] = auditLog[i]
  BY <1>1
<1>3. \A i \in DOMAIN log : i # Len(auditLog) + 1 => i \in DOMAIN auditLog
  BY <1>2
<1> QED
  BY <1>2, <1>3 DEF Matching

\* The members of a concatenation.
LEMMA RangeOfConcat ==
    ASSUME NEW s \in Seq(Ids), NEW t \in Seq(Ids)
    PROVE  Range(s \o t) = Range(s) \cup Range(t)
<1> DEFINE u == s \o t
<1>1. /\ DOMAIN u = 1..(Len(s) + Len(t)) /\ DOMAIN s = 1..Len(s) /\ DOMAIN t = 1..Len(t)
      /\ \A k \in 1..Len(s) : u[k] = s[k]
      /\ \A k \in 1..Len(t) : u[Len(s) + k] = t[k]
      /\ Len(s) \in Nat /\ Len(t) \in Nat
  OBVIOUS
<1>2. ASSUME NEW i \in Range(u) PROVE i \in Range(s) \cup Range(t)
  <2>1. PICK k \in DOMAIN u : i = u[k]
    BY DEF Range
  <2>2. CASE k <= Len(s)
    BY <1>1, <2>1, <2>2 DEF Range
  <2>3. CASE k > Len(s)
    <3>1. k - Len(s) \in 1..Len(t) /\ k = Len(s) + (k - Len(s))
      BY <1>1, <2>1, <2>3
    <3>2. i = t[k - Len(s)]
      BY <1>1, <2>1, <3>1
    <3> QED
      BY <1>1, <3>1, <3>2 DEF Range
  <2> QED
    BY <1>1, <2>1, <2>2, <2>3
<1>3. Range(s) \subseteq Range(u)
  BY <1>1 DEF Range
<1>4. ASSUME NEW i \in Range(t) PROVE i \in Range(u)
  <2>1. PICK k \in DOMAIN t : i = t[k]
    BY DEF Range
  <2>2. Len(s) + k \in DOMAIN u /\ u[Len(s) + k] = i
    BY <1>1, <2>1
  <2> QED
    BY <2>2 DEF Range
<1> QED
  BY <1>2, <1>3, <1>4

\* A concatenation is increasing when its parts are and the first part ends
\* below the second.
LEMMA IncreasingConcat ==
    ASSUME NEW s \in Seq(Ids), NEW t \in Seq(Ids),
           StrictlyIncreasing(s), StrictlyIncreasing(t),
           \A i \in Range(s) : \A j \in Range(t) : i < j
    PROVE  StrictlyIncreasing(s \o t)
<1> DEFINE u == s \o t
<1>1. /\ DOMAIN u = 1..(Len(s) + Len(t)) /\ DOMAIN s = 1..Len(s) /\ DOMAIN t = 1..Len(t)
      /\ \A k \in 1..Len(s) : u[k] = s[k]
      /\ \A k \in 1..Len(t) : u[Len(s) + k] = t[k]
      /\ Len(s) \in Nat /\ Len(t) \in Nat
  OBVIOUS
<1>2. ASSUME NEW j \in DOMAIN u, NEW k \in DOMAIN u, j < k PROVE u[j] < u[k]
  <2>1. CASE k <= Len(s)
    BY <1>1, <1>2, <2>1 DEF StrictlyIncreasing
  <2>2. CASE j <= Len(s) /\ k > Len(s)
    <3>1. k - Len(s) \in DOMAIN t /\ k = Len(s) + (k - Len(s)) /\ j \in DOMAIN s
      BY <1>1, <1>2, <2>2
    <3>2. u[j] = s[j] /\ u[k] = t[k - Len(s)]
      BY <1>1, <3>1
    <3> QED
      BY <3>1, <3>2 DEF Range
  <2>3. CASE j > Len(s)
    <3>a. \A m, n, a, b \in Nat : m < a /\ a < b /\ b <= m + n =>
             /\ a - m \in 1..n /\ b - m \in 1..n
             /\ a = m + (a - m) /\ b = m + (b - m) /\ a - m < b - m
      OBVIOUS
    <3>c. /\ j \in Nat /\ k \in Nat /\ Len(s) \in Nat /\ Len(t) \in Nat
          /\ Len(s) < j /\ j < k /\ k <= Len(s) + Len(t)
      BY <1>1, <1>2, <2>3
    <3>b. /\ j - Len(s) \in 1..Len(t) /\ k - Len(s) \in 1..Len(t)
          /\ k = Len(s) + (k - Len(s)) /\ j = Len(s) + (j - Len(s))
          /\ j - Len(s) < k - Len(s)
      BY <3>a, <3>c
    <3>1. /\ k - Len(s) \in DOMAIN t /\ k = Len(s) + (k - Len(s))
          /\ j - Len(s) \in DOMAIN t /\ j = Len(s) + (j - Len(s))
          /\ j - Len(s) < k - Len(s)
      BY <1>1, <3>b
    <3>2. u[j] = t[j - Len(s)] /\ u[k] = t[k - Len(s)]
      BY <1>1, <3>1
    <3> QED
      BY <3>1, <3>2 DEF StrictlyIncreasing
  <2> QED
    BY <1>1, <1>2, <2>1, <2>2, <2>3
<1> QED
  BY <1>2 DEF StrictlyIncreasing

\* What is kept of a page: a prefix, all of it unless the limit cuts it.
LEMMA KeptProperties ==
    ASSUME IInv, pc = "paging", NEW page \in Seq(Ids), StrictlyIncreasing(page)
    PROVE  /\ Kept(page) \in Seq(Ids)
           /\ StrictlyIncreasing(Kept(page))
           /\ Range(Kept(page)) \subseteq Range(page)
           /\ \A i \in Range(page) \ Range(Kept(page)) :
                 \A j \in Range(Kept(page)) : j < i
           /\ \/ Kept(page) = page
              \/ limit # Nil /\ Len(result \o Kept(page)) = limit
           /\ limit # Nil => Len(result \o Kept(page)) <= limit
<1>1. /\ limit \in (Nat \ {0}) \cup {Nil} /\ result \in Seq(Ids) /\ Nil \notin Nat
      /\ limit # Nil => Len(result) < limit
      /\ Len(result) \in Nat /\ Len(page) \in Nat /\ DOMAIN page = 1..Len(page)
  BY LimitsAssumption DEF IInv, TypeOK, CursorInv
<1>2. CASE limit = Nil \/ limit - Len(result) >= Len(page)
  <2>1. Kept(page) = page
    BY <1>2 DEF Kept
  <2>2. limit # Nil => Len(result \o page) <= limit
    BY <1>1, <1>2
  <2> QED
    BY <2>1, <2>2
<1>3. CASE ~(limit = Nil \/ limit - Len(result) >= Len(page))
  <2> DEFINE m == limit - Len(result)
             kept == SubSeq(page, 1, m)
  <2>1. Kept(page) = kept
    BY <1>3 DEF Kept
  <2>2. m \in Nat /\ m \in 1..Len(page) /\ limit \in Nat
    BY <1>1, <1>3
  <2>3. /\ kept \in Seq(Ids) /\ Len(kept) = m /\ DOMAIN kept = 1..m
        /\ \A k \in 1..m : kept[k] = page[k]
    BY <1>1, <2>2
  <2>4. StrictlyIncreasing(kept)
    BY <1>1, <2>2, <2>3 DEF StrictlyIncreasing
  <2>5. Range(kept) \subseteq Range(page)
    BY <1>1, <2>2, <2>3 DEF Range
  <2>6. ASSUME NEW i \in Range(page) \ Range(kept), NEW j \in Range(kept) PROVE j < i
    <3>1. PICK a \in DOMAIN page : i = page[a]
      BY <2>6 DEF Range
    <3>2. PICK b \in DOMAIN kept : j = kept[b]
      BY <2>6 DEF Range
    <3>3. a \notin 1..m
      BY <2>3, <2>6, <3>1 DEF Range
    <3>4. b < a /\ b \in DOMAIN page /\ j = page[b]
      BY <1>1, <2>2, <2>3, <3>1, <3>2, <3>3
    <3> QED
      BY <3>1, <3>4 DEF StrictlyIncreasing
  <2>7. Len(result \o kept) = limit
    BY <1>1, <2>2, <2>3
  <2>8. limit # Nil
    BY <1>3
  <2> QED
    BY <2>1, <2>2, <2>3, <2>4, <2>5, <2>6, <2>7, <2>8
<1> QED
  BY <1>2, <1>3

-----------------------------------------------------------------------------
(* The invariant.                                                          *)

\* The invariant holds initially.
LEMMA InitIInv == Init => IInv
<1> SUFFICES ASSUME Init PROVE IInv
  OBVIOUS
<1>1. TypeOK
  <2>1. << >> \in Logs
    BY MaxEntriesAssumption DEF Logs
  <2> QED
    BY <2>1, MaxEntriesAssumption DEF Init, TypeOK
<1> QED
  BY <1>1 DEF Init, IInv, ResultIsPrefix, CursorInv

\* Record keeps the invariant: the new entry is behind everything collected
\* and behind the cursor.
LEMMA RecordIInv == IInv /\ Record => IInv'
<1> SUFFICES ASSUME IInv, Record PROVE IInv'
  OBVIOUS
<1> USE DEF IInv
<1>1. PICK e \in Entries : auditLog' = Append(auditLog, e)
  BY DEF Record, RecordAuditEntry
<1>2. /\ Len(auditLog) < MaxEntries /\ auditLog \in Seq(Entries) /\ Len(auditLog) \in Nat
      /\ DOMAIN auditLog = 1..Len(auditLog)
      /\ UNCHANGED <<pc, filter, limit, after, result>>
  BY DEF Record, TypeOK, Logs
<1>3. TypeOK'
  <2>1. auditLog' \in Logs
    BY <1>1, <1>2, MaxEntriesAssumption DEF Logs
  <2> QED
    BY <1>2, <2>1 DEF TypeOK
<1> DEFINE old == Matching(auditLog, filter, 0)
           new == Matching(auditLog', filter, 0)
<1>4. old \subseteq new /\ \A i \in new \ old : i = Len(auditLog) + 1
  BY <1>1, MatchingGrows
<1>5. old \subseteq 1..Len(auditLog)
  BY <1>2 DEF Matching
<1>6. ResultIsPrefix'
  <2> SUFFICES ASSUME pc \in {"paging", "done"} PROVE ResultIsPrefix'
    BY <1>2 DEF ResultIsPrefix
  <2>1. StrictlyIncreasing(result) /\ Range(result) \subseteq old
    BY DEF ResultIsPrefix
  <2>2. ASSUME NEW i \in new \ Range(result), NEW k \in DOMAIN result PROVE result[k] < i
    <3>1. CASE i \in old
      BY <2>2, <3>1 DEF ResultIsPrefix
    <3>2. CASE i \notin old
      <4>1. i = Len(auditLog) + 1
        BY <1>4, <2>2, <3>2
      <4>2. result[k] \in 1..Len(auditLog)
        BY <1>5, <2>1, <2>2 DEF Range
      <4> QED
        BY <1>2, <4>1, <4>2
    <3> QED
      BY <3>1, <3>2
  <2> QED
    BY <1>2, <1>4, <2>1, <2>2 DEF ResultIsPrefix
<1>7. CursorInv'
  <2> SUFFICES ASSUME pc = "paging" PROVE CursorInv'
    BY <1>2 DEF CursorInv
  <2>1. ASSUME NEW i \in new, i <= after PROVE i \in Range(result)
    <3>1. CASE i \in old
      BY <2>1, <3>1 DEF CursorInv
    <3>2. CASE i \notin old
      <4>1. i = Len(auditLog) + 1 /\ after <= Len(auditLog) /\ after \in Nat
        BY <1>4, <2>1, <3>2, MaxEntriesAssumption DEF CursorInv, TypeOK
      <4> QED
        BY <1>2, <2>1, <4>1
    <3> QED
      BY <3>1, <3>2
  <2>2. after <= Len(auditLog')
    BY <1>1, <1>2, MaxEntriesAssumption DEF CursorInv, TypeOK
  <2> QED
    BY <1>2, <2>1, <2>2 DEF CursorInv
<1> QED
  BY <1>3, <1>6, <1>7

\* What is common to Start, Refuse and Break: nothing is collected.
LEMMA EmptyIInv ==
    ASSUME IInv, result' = << >>, auditLog' = auditLog,
           pc' \in {"paging", "failed"}, pc' = "paging" => after' = 0,
           after' \in {0, after}, filter' \in Filters, limit' \in Limits
    PROVE  IInv'
<1>1. TypeOK'
  BY MaxEntriesAssumption DEF IInv, TypeOK
<1>2. Range(result') = {} /\ DOMAIN result' = {} /\ Len(result') = 0
  BY DEF Range
<1>3. ResultIsPrefix'
  BY <1>2 DEF ResultIsPrefix, StrictlyIncreasing
<1>4. CursorInv'
  <2> SUFFICES ASSUME pc' = "paging" PROVE CursorInv'
    BY DEF CursorInv
  <2>1. \A i \in Matching(auditLog', filter', 0) : i \in Nat /\ i > 0
    BY <1>1, MatchingAreIds DEF Matching, TypeOK, Logs
  <2>2. limit' # Nil => Len(result') < limit'
    BY <1>2, LimitsAssumption
  <2>3. after' <= Len(auditLog')
    <3>1. Len(auditLog) \in Nat
      BY DEF IInv, TypeOK, Logs
    <3> QED
      BY <3>1
  <2> QED
    BY <1>2, <2>1, <2>2, <2>3 DEF CursorInv
<1> QED
  BY <1>1, <1>3, <1>4 DEF IInv

\* What Fetch leaves behind: the invariant, and, when the command is done,
\* the answer of one query of the log as it is.
LEMMA FetchStep ==
    ASSUME IInv, Fetch
    PROVE  /\ IInv'
           /\ pc' \in {"paging", "done"}
           /\ pc' = "done" =>
                /\ limit # Nil => Len(result') <= limit
                /\ \/ limit # Nil /\ Len(result') = limit
                   \/ Range(result') = Matching(auditLog, filter, 0)
           /\ pc' = "paging" =>
                after' > after /\ Len(result') = Len(result) + pageLimit
<1> USE DEF IInv
<1>1. PICK page \in Pages :
         /\ QueryAuditLog(auditLog, filter, after, pageLimit, page)
         /\ result' = result \o Kept(page)
         /\ IF (limit # Nil /\ Len(result') >= limit) \/ ShortPage(page)
            THEN pc' = "done" /\ UNCHANGED after
            ELSE after' = NextCursor(page) /\ UNCHANGED pc
  BY Zenon DEF Fetch
<1>2. /\ pc = "paging" /\ UNCHANGED <<auditLog, filter, limit>>
      /\ pc' \in {"paging", "done"}
  BY <1>1 DEF Fetch
<1> DEFINE all == Matching(auditLog, filter, 0)
           rest == Matching(auditLog, filter, after)
           kept == Kept(page)
<1>3. page \in Seq(Ids) /\ Len(page) \in Nat /\ DOMAIN page = 1..Len(page)
  <2>1. PICK m \in 0..auditLogPageMax : page \in [1..m -> Ids]
    BY DEF Pages, BoundedSeq, SeqOf
  <2>2. m \in Nat
    BY PageMaxAssumption
  <2>3. page \in Seq(Ids)
    BY <2>1, <2>2, SeqDef
  <2> QED
    BY <2>3
<1>4. /\ after \in Nat /\ result \in Seq(Ids) /\ limit \in (Nat \ {0}) \cup {Nil}
      /\ Len(result) \in Nat
  BY MaxEntriesAssumption, LimitsAssumption DEF TypeOK
<1>5. /\ all \subseteq Ids /\ rest = {i \in all : i > after}
  BY <1>4, MatchingAreIds
<1>6. /\ StrictlyIncreasing(page) /\ Len(page) <= pageLimit /\ Range(page) \subseteq rest
      /\ \A i \in rest \ Range(page) :
            Len(page) = pageLimit /\ \A k \in DOMAIN page : page[k] < i
  BY <1>1 DEF QueryAuditLog, FirstOf
<1>7. /\ kept \in Seq(Ids) /\ StrictlyIncreasing(kept) /\ Range(kept) \subseteq Range(page)
      /\ \A i \in Range(page) \ Range(kept) : \A j \in Range(kept) : j < i
      /\ kept = page \/ (limit # Nil /\ Len(result') = limit)
      /\ limit # Nil => Len(result') <= limit
  BY <1>1, <1>2, <1>3, <1>6, KeptProperties
<1>8. /\ StrictlyIncreasing(result) /\ Range(result) \subseteq all
      /\ \A i \in Range(result) : i <= after
      /\ \A i \in all : i <= after => i \in Range(result)
  BY <1>2 DEF ResultIsPrefix, CursorInv
<1>9. Range(result') = Range(result) \cup Range(kept) /\ result' \in Seq(Ids)
  BY <1>1, <1>4, <1>7, RangeOfConcat
<1>10. /\ StrictlyIncreasing(result') /\ Range(result') \subseteq all
       /\ \A i \in all \ Range(result') : \A k \in DOMAIN result' : result'[k] < i
  <2>1. \A i \in Range(result) : \A j \in Range(kept) : i < j
    <3>1. Range(result) \subseteq Ids /\ Range(kept) \subseteq Ids
      BY <1>5, <1>6, <1>7, <1>8
    <3> QED
      BY <1>4, <1>5, <1>6, <1>7, <1>8, <3>1 DEF Ids
  <2>2. StrictlyIncreasing(result')
    BY <1>1, <1>4, <1>7, <1>8, <2>1, IncreasingConcat
  <2>3. ASSUME NEW i \in all \ Range(result'), NEW j \in Range(result') PROVE j < i
    <3>1. i \in Nat /\ i \in rest /\ i > after
      BY <1>4, <1>5, <1>8, <1>9, <2>3 DEF Ids
    <3>2. CASE j \in Range(result)
      BY <1>4, <1>5, <1>8, <3>1, <3>2 DEF Ids
    <3>3. CASE j \in Range(kept)
      <4>1. CASE i \in Range(page)
        BY <1>7, <1>9, <2>3, <3>3, <4>1
      <4>2. CASE i \notin Range(page)
        BY <1>6, <1>7, <3>1, <3>3, <4>2 DEF Range
      <4> QED
        BY <4>1, <4>2
    <3> QED
      BY <1>9, <2>3, <3>2, <3>3
  <2> QED
    BY <1>5, <1>6, <1>7, <1>8, <1>9, <2>2, <2>3 DEF Range
<1>11. ShortPage(page) /\ kept = page => Range(result') = all
  <2> SUFFICES ASSUME ShortPage(page), kept = page PROVE all \subseteq Range(result')
    BY <1>10
  <2>1. pageLimit \in Nat
    BY <1>4, PageMaxAssumption DEF pageLimit
  <2>2. rest \subseteq Range(page)
    <3> SUFFICES ASSUME NEW i \in rest \ Range(page) PROVE FALSE
      OBVIOUS
    <3>1. Len(page) = pageLimit
      BY <1>6
    <3>2. Len(page) < pageLimit
      BY DEF ShortPage
    <3> QED
      BY <1>3, <2>1, <3>1, <3>2
  <2> QED
    BY <1>4, <1>5, <1>8, <1>9, <2>2 DEF Ids
<1>12. pc' = "done" =>
         /\ limit # Nil => Len(result') <= limit
         /\ \/ limit # Nil /\ Len(result') = limit
            \/ Range(result') = all
  <2> SUFFICES ASSUME pc' = "done" PROVE \/ limit # Nil /\ Len(result') = limit
                                         \/ Range(result') = all
    BY <1>7
  <2>1. (limit # Nil /\ Len(result') >= limit) \/ ShortPage(page)
    BY <1>1, <1>2
  <2>2. Len(result') \in Nat
    BY <1>9
  <2> QED
    BY <1>4, <1>7, <1>11, <2>1, <2>2
<1>13. ASSUME pc' = "paging"
       PROVE  /\ kept = page /\ page # << >>
              /\ limit # Nil => Len(result') < limit
              /\ after' = page[Len(page)]
  <2>1. ~(limit # Nil /\ Len(result') >= limit) /\ ~ShortPage(page) /\ after' = NextCursor(page)
    BY <1>1, <1>13
  <2>2. Len(result') \in Nat /\ (limit # Nil => limit \in Nat)
    BY <1>4, <1>9
  <2>3. limit # Nil => Len(result') < limit
    BY <2>1, <2>2
  <2>4. kept = page
    BY <1>7, <2>2, <2>3
  <2>5. pageLimit \in Nat \ {0}
    BY <1>4, PageMaxAssumption DEF pageLimit
  <2>6. page # << >>
    BY <1>3, <2>1, <2>5 DEF ShortPage
  <2> QED
    BY <2>1, <2>3, <2>4, <2>6 DEF NextCursor
<1>14. TypeOK'
  <2>1. after' \in 0..MaxEntries
    <3>1. CASE pc' = "done"
      BY <1>1, <1>2, <3>1 DEF TypeOK
    <3>2. CASE pc' = "paging"
      <4>1. page[Len(page)] \in Ids
        BY <1>3, <1>13, <3>2
      <4> QED
        BY <1>13, <3>2, <4>1, MaxEntriesAssumption DEF Ids
    <3> QED
      BY <1>2, <3>1, <3>2
  <2> QED
    BY <1>2, <1>9, <2>1 DEF TypeOK
<1>15. ResultIsPrefix'
  BY <1>2, <1>10 DEF ResultIsPrefix
<1>16. CursorInv'
  <2> SUFFICES ASSUME pc' = "paging" PROVE CursorInv'
    BY DEF CursorInv
  <2> DEFINE last == page[Len(page)]
  <2>1. /\ kept = page /\ Len(page) \in DOMAIN page /\ after' = last
        /\ limit # Nil => Len(result') < limit
    BY <1>3, <1>13
  <2>2. last \in Range(page) /\ last \in Nat /\ last > after
    BY <1>5, <1>6, <1>4, <2>1 DEF Range, Ids
  <2>3. \A j \in Range(page) : j <= last
    <3> SUFFICES ASSUME NEW k \in DOMAIN page PROVE page[k] <= last
      BY DEF Range
    <3>a. page[k] \in Ids
      BY <1>3, ElementOfSeq
    <3>1. page[k] \in Nat
      BY <3>a, MaxEntriesAssumption DEF Ids
    <3>2. CASE k = Len(page)
      BY <2>2, <3>2
    <3>3. CASE k < Len(page)
      BY <1>6, <2>1, <2>2, <3>1, <3>3 DEF StrictlyIncreasing
    <3> QED
      BY <1>3, <3>2, <3>3
  <2>6. after' <= Len(auditLog')
    <3>1. last \in DOMAIN auditLog
      BY <1>6, <2>2 DEF Matching
    <3> QED
      BY <1>2, <2>1, <3>1 DEF TypeOK, Logs
  <2>4. ASSUME NEW i \in Range(result') PROVE i <= after'
    <3>1. CASE i \in Range(result)
      BY <1>4, <1>5, <1>8, <2>1, <2>2, <3>1 DEF Ids
    <3>2. CASE i \in Range(page)
      BY <2>1, <2>3, <3>2
    <3> QED
      BY <1>9, <2>1, <2>4, <3>1, <3>2
  <2>5. ASSUME NEW i \in all, i <= after' PROVE i \in Range(result')
    <3>1. CASE i <= after
      BY <1>8, <1>9, <3>1
    <3>2. CASE i > after
      <4>1. i \in rest /\ i \in Nat
        BY <1>5, <3>2 DEF Ids
      <4>2. i \in Range(page)
        BY <1>6, <2>1, <2>2, <2>5, <4>1
      <4> QED
        BY <1>9, <2>1, <4>2
    <3> QED
      BY <1>4, <1>5, <3>1, <3>2 DEF Ids
  <2> QED
    BY <1>2, <2>1, <2>4, <2>5, <2>6 DEF CursorInv
<1>17. ASSUME pc' = "paging"
       PROVE  after' > after /\ Len(result') = Len(result) + pageLimit
  <2>1. kept = page /\ after' = page[Len(page)] /\ Len(page) \in DOMAIN page
    BY <1>3, <1>13, <1>17
  <2>2. after' \in rest
    BY <1>6, <2>1 DEF Range
  <2>3. pageLimit \in Nat
    BY <1>4, PageMaxAssumption DEF pageLimit
  <2>4. ~(Len(page) < pageLimit)
    BY <1>1, <1>2, <1>17 DEF ShortPage
  <2>5. Len(page) <= pageLimit
    BY <1>6
  <2>6. Len(page) = pageLimit
    <3>1. \A m, n \in Nat : m <= n /\ ~(m < n) => m = n
      OBVIOUS
    <3> QED
      BY <1>3, <2>3, <2>4, <2>5, <3>1
  <2>7. Len(result') = Len(result) + Len(page)
    BY <1>1, <1>3, <1>4, <2>1
  <2> QED
    BY <1>5, <2>2, <2>6, <2>7
<1> QED
  BY <1>2, <1>12, <1>14, <1>15, <1>16, <1>17

\* Every step keeps the invariant.
LEMMA NextIInv == IInv /\ [Next]_vars => IInv'
<1> SUFFICES ASSUME IInv, [Next]_vars PROVE IInv'
  OBVIOUS
<1>1. CASE Record
  BY <1>1, RecordIInv
<1>2. CASE Start
  BY <1>2, EmptyIInv DEF Start
<1>3. CASE Fetch
  BY <1>3, FetchStep
<1>4. CASE Refuse
  BY <1>4, EmptyIInv DEF Refuse, GiveUp, IInv, TypeOK
<1>5. CASE Break
  BY <1>5, EmptyIInv DEF Break, GiveUp, IInv, TypeOK
<1>6. CASE UNCHANGED vars
  BY <1>6 DEF vars, IInv, TypeOK, ResultIsPrefix, CursorInv
<1> QED
  BY <1>1, <1>2, <1>3, <1>4, <1>5, <1>6 DEF Next

-----------------------------------------------------------------------------
(* The theorems.                                                           *)

\* The invariant holds in every reachable state.
THEOREM Invariance == Spec => []IInv
<1>1. Init => IInv
  BY InitIInv
<1>2. IInv /\ [Next]_vars => IInv'
  BY NextIInv
<1> QED
  BY <1>1, <1>2, PTL DEF Spec

\* Every variable keeps its type.
THEOREM TypeCorrect == Spec => []TypeOK
BY Invariance, PTL DEF IInv

\* For every page size, limit and filter: what QueryAuditLog has collected
\* is at any moment a gap-free, ordered prefix of the matching entries.
THEOREM CollectedIsPrefix == Spec => []ResultIsPrefix
BY Invariance, PTL DEF IInv

\* For every page size, limit and filter: the paged command is one atomic
\* query of the log, at the moment its last page is served.
THEOREM PagingIsOneQuery == Spec => ImplementsQuery
<1>1. Init => Query!Init
  BY DEF Init, Query!Init
<1>2. ASSUME IInv, [Next]_vars PROVE [Query!Next]_(Query!vars)
  <2> USE DEF Query!vars
  <2>1. CASE Record
    BY <2>1 DEF Record, RecordAuditEntry, Query!Next, Query!Record
  <2>2. CASE Start
    BY <2>2 DEF Start, Query!Next, Query!Start
  <2>3. CASE Fetch
    <3>1. pc = "paging" /\ UNCHANGED <<auditLog, filter, limit>>
      BY <2>3 DEF Fetch
    <3>2. CASE pc' = "paging"
      BY <3>1, <3>2
    <3>3. CASE pc' = "done"
      <4>1. /\ limit # Nil => Len(result') <= limit
            /\ \/ limit # Nil /\ Len(result') = limit
               \/ Range(result') = Matching(auditLog, filter, 0)
            /\ IInv'
        BY <1>2, <2>3, <3>3, FetchStep
      <4>2. /\ StrictlyIncreasing(result')
            /\ Range(result') \subseteq Matching(auditLog, filter, 0)
            /\ \A i \in Matching(auditLog, filter, 0) \ Range(result') :
                  \A k \in DOMAIN result' : result'[k] < i
        BY <3>1, <3>3, <4>1 DEF IInv, ResultIsPrefix
      <4>3. result' \in Seq(Nat)
        <5>1. result' \in Seq(Ids)
          BY <4>1 DEF IInv, TypeOK
        <5>2. Ids \subseteq Nat
          BY MaxEntriesAssumption DEF Ids
        <5> QED
          BY <5>1, <5>2, SeqMonotonic
      <4>4. Query!Matching(auditLog, filter, 0) = Matching(auditLog, filter, 0)
        BY DEF Matching, Query!Matching, auditLogEntryMatches, Query!auditLogEntryMatches
      <4>5. Query!StrictlyIncreasing(result') /\ Query!Range(result') = Range(result')
        BY <4>2 DEF StrictlyIncreasing, Query!StrictlyIncreasing, Range, Query!Range
      <4>6. (IF pc = "done" THEN result ELSE << >>)' = result'
        BY <3>3
      <4>7. ASSUME limit = Nil PROVE Query!Answer
        BY <3>1, <3>3, <4>1, <4>2, <4>3, <4>4, <4>5, <4>6, <4>7 DEF Query!Answer
      <4>8. ASSUME limit # Nil PROVE Query!Answer
        <5>1. Query!FirstOf(Matching(auditLog, filter, 0), limit, result')
          BY <4>1, <4>2, <4>5, <4>8 DEF Query!FirstOf
        <5> QED
          BY <3>1, <3>3, <4>3, <4>4, <4>6, <4>8, <5>1 DEF Query!Answer
      <4>9. Query!Answer
        BY <4>7, <4>8
      <4> QED
        BY <4>9 DEF Query!Next
    <3> QED
      BY <1>2, <2>3, <3>2, <3>3, FetchStep
  <2>4. CASE Refuse
    BY <2>4 DEF Refuse, GiveUp, Query!Next, Query!Fail
  <2>5. CASE Break
    BY <2>5 DEF Break, GiveUp, Query!Next, Query!Fail
  <2>6. CASE UNCHANGED vars
    BY <2>6 DEF vars
  <2> QED
    BY <1>2, <2>1, <2>2, <2>3, <2>4, <2>5, <2>6 DEF Next
<1> QED
  BY <1>1, <1>2, Invariance, PTL DEF Spec, ImplementsQuery, Query!Spec

\* For every page size, limit and filter: a page that is not the last one is
\* full and moves the cursor on, which is why the loop ends on a log that
\* has stopped growing.
THEOREM PagesAdvance == Spec => EveryPageAdvances
<1>1. IInv /\ [Next]_vars =>
        [Fetch /\ pc' = "paging" =>
            after' > after /\ Len(result') = Len(result) + pageLimit]_vars
  BY FetchStep
<1> QED
  BY <1>1, Invariance, PTL DEF Spec, EveryPageAdvances
=============================================================================
