------------------------ MODULE ConsumerPagerProofs ------------------------
(***************************************************************************)
(* Proof that a listing of the directory misses at most one entry for      *)
(* every entry that leaves meanwhile, for every page size, directory,      *)
(* query and number of removals.                                           *)
(***************************************************************************)
EXTENDS ConsumerPager, FiniteSetTheorems, NaturalsInduction, TLAPS

\* What was there throughout and lies in the pages already asked for.
Behind == {n \in stayed \cap query : Rank(matched, n) <= start}

\* While the command pages, it has collected no more entries than the pages
\* hold, and missed at most one of those behind it for every removal.
PagingInv ==
    pc = "paging" => count <= start /\ Cardinality(Behind \ all) <= removed

IInv == TypeOK /\ PagingInv /\ MissedAtMostRemoved

-----------------------------------------------------------------------------
(* Ranks in a finite set of numbers.                                       *)

\* A rank is a number, at most the size of the set.
LEMMA RankType ==
    ASSUME NEW S \in SUBSET Nat, IsFiniteSet(S), NEW n \in Nat
    PROVE  Rank(S, n) \in Nat /\ Rank(S, n) <= Cardinality(S) /\ Cardinality(S) \in Nat
<1> DEFINE T == {m \in S : m <= n}
<1>1. T \in SUBSET S
  OBVIOUS
<1>2. IsFiniteSet(T) /\ Cardinality(T) <= Cardinality(S)
  BY <1>1, FS_Subset
<1>3. Cardinality(T) \in Nat /\ Cardinality(S) \in Nat
  BY <1>2, FS_CardinalityType
<1> QED
  BY <1>2, <1>3 DEF Rank

\* A larger member has a larger rank.
LEMMA RankIncreases ==
    ASSUME NEW S \in SUBSET Nat, IsFiniteSet(S), NEW m \in S, NEW n \in S, m < n
    PROVE  Rank(S, m) < Rank(S, n)
<1> DEFINE M == {i \in S : i <= m}
           N == {i \in S : i <= n}
<1>1. N \in SUBSET S /\ M \in SUBSET N /\ n \in N /\ n \notin M
  <2>1. m \in Nat /\ n \in Nat /\ n <= n /\ ~(n <= m)
    OBVIOUS
  <2>2. \A i \in Nat : i <= m => i <= n
    BY <2>1
  <2> QED
    BY <2>1, <2>2
<1>2. IsFiniteSet(N)
  BY <1>1, FS_Subset
<1>3. Cardinality(M) <= Cardinality(N) /\ Cardinality(M) # Cardinality(N) /\ IsFiniteSet(M)
  BY <1>1, <1>2, FS_Subset
<1>4. Cardinality(M) \in Nat /\ Cardinality(N) \in Nat
  BY <1>2, <1>3, FS_CardinalityType
<1> QED
  BY <1>3, <1>4 DEF Rank

\* When one member leaves, ranks fall by at most one; others may join.
LEMMA RankShifts ==
    ASSUME NEW S \in SUBSET Nat, IsFiniteSet(S), NEW T \in SUBSET Nat, IsFiniteSet(T),
           NEW x, S \ {x} \subseteq T, NEW n \in Nat
    PROVE  Rank(S, n) <= Rank(T, n) + 1
<1> DEFINE M == {i \in S : i <= n}
           N == {i \in T : i <= n}
<1>1. IsFiniteSet(M) /\ IsFiniteSet(N)
  BY FS_Subset
<1>2. IsFiniteSet(M \ {x}) /\ Cardinality(M) <= Cardinality(M \ {x}) + 1
  <2>1. Cardinality(M) \in Nat
    BY <1>1, FS_CardinalityType
  <2>2. /\ IsFiniteSet(M \ {x})
        /\ Cardinality(M \ {x}) = IF x \in M THEN Cardinality(M) - 1 ELSE Cardinality(M)
    BY <1>1, FS_RemoveElement
  <2> HIDE DEF M
  <2> QED
    BY <2>1, <2>2
<1>3. Cardinality(M \ {x}) <= Cardinality(N)
  BY <1>1, FS_Subset
<1>4. /\ Cardinality(M) \in Nat /\ Cardinality(N) \in Nat
      /\ Cardinality(M \ {x}) \in Nat
  BY <1>1, <1>2, FS_CardinalityType
<1> QED
  BY <1>2, <1>3, <1>4 DEF Rank

\* When none leaves, ranks do not fall.
LEMMA RankGrows ==
    ASSUME NEW S \in SUBSET Nat, NEW T \in SUBSET Nat, IsFiniteSet(T),
           S \subseteq T, NEW n \in Nat
    PROVE  Rank(S, n) <= Rank(T, n)
<1> DEFINE M == {i \in S : i <= n}
           N == {i \in T : i <= n}
<1>1. IsFiniteSet(N) /\ M \in SUBSET N
  BY FS_Subset
<1> QED
  BY <1>1, FS_Subset DEF Rank

\* No more than P members have one of P ranks.
LEMMA PageSize ==
    ASSUME NEW S \in SUBSET Nat, IsFiniteSet(S), NEW a \in Nat, NEW P \in Nat
    PROVE  LET T == {n \in S : a < Rank(S, n) /\ Rank(S, n) <= a + P}
           IN  IsFiniteSet(T) /\ Cardinality(T) \in Nat /\ Cardinality(T) <= P
<1> DEFINE T == {n \in S : a < Rank(S, n) /\ Rank(S, n) <= a + P}
           f == [n \in T |-> Rank(S, n)]
           I == (a + 1)..(a + P)
<1>1. IsFiniteSet(T) /\ Cardinality(T) \in Nat
  BY FS_Subset, FS_CardinalityType
<1>2. f \in [T -> I]
  <2> SUFFICES ASSUME NEW n \in T PROVE Rank(S, n) \in I
    OBVIOUS
  <2>1. Rank(S, n) \in Nat /\ a < Rank(S, n) /\ Rank(S, n) <= a + P
    BY RankType
  <2> QED
    BY <2>1
<1>3. ASSUME NEW m \in T, NEW n \in T, f[m] = f[n] PROVE m = n
  <2>1. ~(m < n) /\ ~(n < m)
    BY <1>3, RankIncreases, RankType
  <2> QED
    BY <2>1
<1>4. f \in Injection(T, I)
  BY <1>2, <1>3 DEF Injection, IsInjective
<1>5. IsFiniteSet(I) /\ Cardinality(I) = P
  <2>1. a + 1 \in Int /\ a + P \in Int
    OBVIOUS
  <2>2. IsFiniteSet(I) /\ Cardinality(I) = IF a + 1 > a + P THEN 0 ELSE (a + P) - (a + 1) + 1
    BY <2>1, FS_Interval
  <2> QED
    BY <2>2
<1>6. Cardinality(T) <= P
  BY <1>4, <1>5, FS_Injection
<1> QED
  BY <1>1, <1>6

\* Ranks have no gaps: if no member has one of the P ranks after a, none has
\* a rank above a.
LEMMA EmptyPageIsTheEnd ==
    ASSUME NEW S \in SUBSET Nat, IsFiniteSet(S), NEW a \in Nat, NEW P \in Nat \ {0},
           \A n \in S : ~(a < Rank(S, n) /\ Rank(S, n) <= a + P)
    PROVE  \A n \in S : Rank(S, n) <= a
<1> DEFINE above == {n \in S : Rank(S, n) > a}
<1> SUFFICES ASSUME above # {} PROVE FALSE
  BY RankType
<1>1. PICK x \in above : \A y \in above : ~(y < x)
  <2>1. \E x \in above : \A y \in above : ~(<<y, x>> \in OpToRel(<, Nat))
    <3>1. above \subseteq Nat
      OBVIOUS
    <3> QED
      BY <3>1, NatLessThanWellFounded, WFMin
  <2>2. \A y, x \in Nat : y < x => <<y, x>> \in OpToRel(<, Nat)
    BY DEF OpToRel
  <2> QED
    BY <2>1, <2>2
<1> DEFINE L == {n \in S : n < x}
           U == {n \in S : n <= x}
<1>2. \A n \in L : Rank(S, n) \in Nat /\ 0 < Rank(S, n) /\ Rank(S, n) <= a
  <2> SUFFICES ASSUME NEW n \in L PROVE Rank(S, n) \in Nat /\ 0 < Rank(S, n) /\ Rank(S, n) <= a
    OBVIOUS
  <2>1. Rank(S, n) \in Nat
    BY RankType
  <2>2. Rank(S, n) <= a
    BY <1>1, <2>1
  <2>3. Rank(S, n) # 0
    <3> DEFINE D == {m \in S : m <= n}
    <3>1. IsFiniteSet(D) /\ n \in D
      BY FS_Subset
    <3> QED
      BY <3>1, FS_EmptySet DEF Rank
  <2> QED
    BY <2>1, <2>2, <2>3
<1>4. IsFiniteSet(L) /\ Cardinality(L) \in Nat /\ Cardinality(L) <= a
  <2> DEFINE T == {n \in S : 0 < Rank(S, n) /\ Rank(S, n) <= 0 + a}
  <2>1. IsFiniteSet(T) /\ Cardinality(T) \in Nat /\ Cardinality(T) <= a
    BY PageSize
  <2>2. L \in SUBSET T
    <3> SUFFICES ASSUME NEW n \in L PROVE n \in T
      OBVIOUS
    <3>1. n \in S /\ 0 < Rank(S, n) /\ Rank(S, n) <= a
      BY <1>2
    <3>2. 0 + a = a
      OBVIOUS
    <3> QED
      BY <3>1, <3>2
  <2>3. IsFiniteSet(L) /\ Cardinality(L) <= Cardinality(T)
    BY <2>1, <2>2, FS_Subset
  <2>4. Cardinality(L) \in Nat
    BY <2>3, FS_CardinalityType
  <2> QED
    BY <2>1, <2>3, <2>4
<1>5. U = L \cup {x}
  <2>1. x \in S /\ x \in Nat
    BY <1>1
  <2>2. \A n \in Nat : n <= x <=> n < x \/ n = x
    BY <2>1
  <2> QED
    BY <2>1, <2>2
<1>6. Cardinality(U) <= a + 1
  <2>1. Cardinality(L \cup {x}) = IF x \in L THEN Cardinality(L) ELSE Cardinality(L) + 1
    BY <1>4, FS_AddElement
  <2> QED
    BY <1>4, <1>5, <2>1
<1>7. Rank(S, x) <= a + P /\ Rank(S, x) > a
  <2>1. Rank(S, x) <= a + 1
    BY <1>6 DEF Rank
  <2>2. Rank(S, x) \in Nat
    BY <1>1, RankType
  <2> QED
    BY <1>1, <2>1, <2>2
<1> QED
  BY <1>1, <1>7

\* At most one member has a given rank.
LEMMA AtMostOneMore ==
    ASSUME NEW S \in SUBSET Nat, IsFiniteSet(S), NEW A, IsFiniteSet(A), NEW r \in Nat,
           NEW B, B \subseteq A \cup {n \in S : Rank(S, n) = r}
    PROVE  IsFiniteSet(B) /\ Cardinality(B) <= Cardinality(A) + 1
<1> DEFINE R == {n \in S : Rank(S, n) = r}
<1>0. Cardinality(A) \in Nat
  BY FS_CardinalityType
<1>1. CASE R = {}
  <2>1. B \in SUBSET A
    BY <1>1
  <2>2. IsFiniteSet(B) /\ Cardinality(B) <= Cardinality(A)
    BY <2>1, FS_Subset
  <2>3. Cardinality(B) \in Nat
    BY <2>2, FS_CardinalityType
  <2> QED
    BY <1>0, <2>2, <2>3
<1>2. CASE R # {}
  <2>1. PICK x \in R : TRUE
    BY <1>2
  <2>2. \A n \in R : n = x
    <3> SUFFICES ASSUME NEW n \in R PROVE n = x
      OBVIOUS
    <3>1. ~(n < x) /\ ~(x < n)
      BY RankIncreases
    <3> QED
      BY <3>1
  <2>3. B \in SUBSET (A \cup {x})
    BY <2>2
  <2>4. /\ IsFiniteSet(A \cup {x})
        /\ Cardinality(A \cup {x}) = IF x \in A THEN Cardinality(A) ELSE Cardinality(A) + 1
    BY FS_AddElement
  <2>5. IsFiniteSet(B) /\ Cardinality(B) <= Cardinality(A \cup {x})
    BY <2>3, <2>4, FS_Subset
  <2>6. Cardinality(B) \in Nat
    BY <2>5, FS_CardinalityType
  <2> QED
    BY <1>0, <2>4, <2>5, <2>6
<1> QED
  BY <1>1, <1>2

-----------------------------------------------------------------------------
(* The invariant.                                                          *)

FiniteState ==
    /\ matched \in SUBSET Nat /\ IsFiniteSet(matched) /\ total \in Nat
    /\ stayed \cap query \subseteq matched
    /\ IsFiniteSet(stayed \cap query)
    /\ IsFiniteSet(Behind \ all) /\ Cardinality(Behind \ all) \in Nat
    /\ IsFiniteSet(Missed) /\ Cardinality(Missed) \in Nat
    /\ start \in Nat

\* The sets of a reachable state are finite sets of numbers.
LEMMA SetsAreFinite == TypeOK => FiniteState
<1> SUFFICES ASSUME TypeOK PROVE FiniteState
  OBVIOUS
<1>1. matched \in SUBSET Names /\ Names \subseteq Nat /\ IsFiniteSet(Names)
  BY NamesAssumption DEF TypeOK, matched
<1>2. IsFiniteSet(matched) /\ total \in Nat
  BY <1>1, FS_Subset, FS_CardinalityType DEF total
<1>3. stayed \cap query \subseteq matched
  BY DEF TypeOK, matched
<1>4. IsFiniteSet(stayed \cap query)
  BY <1>2, <1>3, FS_Subset
<1>5. IsFiniteSet(Behind \ all)
  <2>1. (Behind \ all) \in SUBSET (stayed \cap query)
    BY DEF Behind
  <2> QED
    BY <1>4, <2>1, FS_Subset
<1>6. IsFiniteSet(Missed)
  <2>1. Missed \in SUBSET (stayed \cap query)
    BY DEF Missed
  <2> QED
    BY <1>4, <2>1, FS_Subset
<1>7. Cardinality(Behind \ all) \in Nat /\ Cardinality(Missed) \in Nat
  BY <1>5, <1>6, FS_CardinalityType
<1>8. start \in Nat
  <2>1. page - 1 \in Nat /\ consumersPageMax \in Nat
    BY PageMaxAssumption DEF TypeOK
  <2> QED
    BY <2>1 DEF start
<1> QED
  BY <1>1, <1>2, <1>3, <1>4, <1>5, <1>6, <1>7, <1>8 DEF FiniteState

\* The same of the state after a step.
LEMMA SetsStayFinite == TypeOK' => FiniteState'
BY SetsAreFinite, PTL

\* The invariant holds initially.
LEMMA InitIInv == Init => IInv
<1> SUFFICES ASSUME Init PROVE IInv
  OBVIOUS
<1>1. TypeOK
  BY NamesAssumption DEF Init, TypeOK
<1> QED
  BY <1>1 DEF Init, IInv, PagingInv, MissedAtMostRemoved

\* Beginning a listing establishes the invariant: no page is behind it.
LEMMA BeginIInv == IInv /\ Begin => IInv'
<1> SUFFICES ASSUME IInv, Begin PROVE IInv'
  OBVIOUS
<1>1. TypeOK'
  BY NamesAssumption DEF IInv, Begin, TypeOK
<1>2. start' = 0
  BY PageMaxAssumption DEF Begin, start
<1>3. Behind' = {}
  <2> SUFFICES ASSUME NEW n \in Behind' PROVE FALSE
    OBVIOUS
  <2>1. n \in matched' /\ matched' \in SUBSET Nat /\ IsFiniteSet(matched')
    BY <1>1, SetsAreFinite, SetsStayFinite DEF Behind, FiniteState
  <2> DEFINE D == {m \in matched' : m <= n}
  <2>2. n \in D /\ IsFiniteSet(D)
    BY <2>1, FS_Subset
  <2>3. Cardinality(D) # 0 /\ Cardinality(D) \in Nat
    BY <2>2, FS_EmptySet, FS_CardinalityType
  <2>4. Rank(matched', n) <= 0
    BY <1>2 DEF Behind, Rank
  <2>5. Rank(matched', n) = Cardinality(D)
    BY DEF Rank
  <2> QED
    BY <2>3, <2>4, <2>5
<1>4. Cardinality(Behind' \ all') = 0
  <2>1. Behind' \ all' = {}
    BY <1>3
  <2> QED
    BY <2>1, FS_EmptySet
<1>5. PagingInv'
  <2>1. count' = 0 /\ removed' = 0
    BY DEF Begin
  <2> QED
    BY <1>2, <1>4, <2>1 DEF PagingInv
<1>6. MissedAtMostRemoved'
  BY DEF Begin, MissedAtMostRemoved
<1> QED
  BY <1>1, <1>5, <1>6 DEF IInv

\* An entry that joins moves others away from the pages behind the command.
LEMMA AddIInv == IInv /\ Add => IInv'
<1> SUFFICES ASSUME IInv, Add PROVE IInv'
  OBVIOUS
<1>1. TypeOK /\ PagingInv /\ MissedAtMostRemoved
  BY DEF IInv
<1>2. PICK n \in Names \ directory : directory' = directory \cup {n}
  BY DEF Add
<1>3. UNCHANGED <<pc, query, page, all, count, stayed, removed>> /\ joined' = joined + 1
  BY DEF Add, client
<1>4. TypeOK'
  BY <1>1, <1>2, <1>3 DEF TypeOK
<1>5. matched \subseteq matched' /\ start' = start
  BY <1>2, <1>3 DEF matched, start
<1>6. Cardinality(Behind' \ all') <= Cardinality(Behind \ all)
  <2>1. Behind' \subseteq Behind
    <3> SUFFICES ASSUME NEW x \in Behind' PROVE Rank(matched, x) <= start /\ x \in stayed \cap query
      BY DEF Behind
    <3>1. x \in stayed \cap query /\ Rank(matched', x) <= start
      BY <1>3, <1>5 DEF Behind
    <3>2. x \in Nat /\ matched \in SUBSET Nat /\ matched' \in SUBSET Nat
          /\ IsFiniteSet(matched) /\ IsFiniteSet(matched') /\ start \in Nat
      BY <1>1, <1>4, <3>1, SetsAreFinite, SetsStayFinite DEF FiniteState
    <3>3. Rank(matched, x) <= Rank(matched', x)
      BY <1>5, <3>2, RankGrows
    <3>4. Rank(matched, x) \in Nat /\ Rank(matched', x) \in Nat
      BY <3>2, RankType
    <3> QED
      BY <3>1, <3>2, <3>3, <3>4
  <2>2. (Behind' \ all') \in SUBSET (Behind \ all)
    BY <1>3, <2>1
  <2> QED
    BY <1>1, <2>2, SetsAreFinite, SetsStayFinite, FS_Subset DEF FiniteState
<1>7. PagingInv'
  <2>1. /\ Cardinality(Behind' \ all') \in Nat /\ Cardinality(Behind \ all) \in Nat
        /\ removed \in Nat
    BY <1>1, <1>4, SetsAreFinite, SetsStayFinite, NamesAssumption DEF TypeOK, FiniteState
  <2> QED
    BY <1>1, <1>3, <1>5, <1>6, <2>1 DEF PagingInv
<1>8. MissedAtMostRemoved'
  BY <1>1, <1>3 DEF MissedAtMostRemoved, Missed
<1> QED
  BY <1>4, <1>7, <1>8 DEF IInv

\* One entry leaves, by deletion or by another name: at most one entry slips
\* behind the command unseen.
LEMMA LeavesIInv ==
    ASSUME IInv, NEW n \in directory, Leaves(n), UNCHANGED client,
           directory \ {n} \subseteq directory', directory' \subseteq Names,
           joined' \in {joined, joined + 1}
    PROVE  IInv'
<1>1. TypeOK /\ PagingInv /\ MissedAtMostRemoved
  BY DEF IInv
<1>2. /\ UNCHANGED <<pc, query, page, all, count>>
      /\ removed < MaxRemoved /\ removed' = removed + 1 /\ stayed' = stayed \ {n}
  BY DEF client, Leaves
<1>3. removed \in Nat /\ removed' \in 0..MaxRemoved
  BY <1>1, <1>2, NamesAssumption DEF TypeOK
<1>4. TypeOK'
  <2>1. stayed' \subseteq directory'
    BY <1>1, <1>2 DEF TypeOK
  <2> QED
    BY <1>1, <1>2, <1>3, <2>1 DEF TypeOK
<1>5. /\ matched \in SUBSET Nat /\ matched' \in SUBSET Nat
      /\ IsFiniteSet(matched) /\ IsFiniteSet(matched')
      /\ matched \ {n} \subseteq matched' /\ start' = start /\ start \in Nat
      /\ IsFiniteSet(Behind \ all) /\ Cardinality(Behind \ all) \in Nat
      /\ stayed \cap query \subseteq matched
  <2>1. matched \ {n} \subseteq matched' /\ start' = start
    BY <1>2 DEF matched, start
  <2> QED
    BY <1>1, <1>4, <2>1, SetsAreFinite, SetsStayFinite DEF FiniteState
<1>6. Behind' \ all' \subseteq (Behind \ all) \cup {x \in matched : Rank(matched, x) = start + 1}
  <2> SUFFICES ASSUME NEW x \in Behind' \ all', Rank(matched, x) # start + 1
               PROVE  x \in Behind \ all /\ x \in matched
    <3>1. Behind' \subseteq matched
      BY <1>2, <1>5 DEF Behind
    <3> QED
      BY <3>1
  <2>1. x \in stayed \cap query /\ x \notin all /\ Rank(matched', x) <= start
    BY <1>2, <1>5 DEF Behind
  <2>2. x \in Nat /\ x \in matched
    BY <1>5, <2>1
  <2>3. Rank(matched, x) <= Rank(matched', x) + 1
    BY <1>5, <2>2, RankShifts
  <2>4. Rank(matched, x) \in Nat /\ Rank(matched', x) \in Nat
    BY <1>5, <2>2, RankType
  <2>5. Rank(matched, x) <= start
    BY <1>5, <2>1, <2>3, <2>4
  <2> QED
    BY <2>1, <2>2, <2>5 DEF Behind
<1>7. Cardinality(Behind' \ all') <= Cardinality(Behind \ all) + 1
  <2>1. start + 1 \in Nat
    BY <1>5
  <2> QED
    BY <1>5, <1>6, <2>1, AtMostOneMore
<1>8. PagingInv'
  <2>1. Cardinality(Behind' \ all') \in Nat
    BY <1>4, SetsAreFinite, SetsStayFinite DEF FiniteState
  <2> QED
    BY <1>1, <1>2, <1>3, <1>5, <1>7, <2>1 DEF PagingInv
<1>9. MissedAtMostRemoved'
  <2> SUFFICES ASSUME pc = "done" PROVE Cardinality(Missed') <= removed'
    BY <1>2 DEF MissedAtMostRemoved
  <2>1. Missed' \in SUBSET Missed
    BY <1>2 DEF Missed
  <2>2. Cardinality(Missed') <= Cardinality(Missed)
    BY <1>1, <2>1, SetsAreFinite, SetsStayFinite, FS_Subset DEF FiniteState
  <2>3. Cardinality(Missed') \in Nat /\ Cardinality(Missed) \in Nat
    BY <1>1, <1>4, SetsAreFinite, SetsStayFinite DEF FiniteState
  <2>4. Cardinality(Missed) <= removed
    BY <1>1 DEF MissedAtMostRemoved
  <2> QED
    BY <1>2, <1>3, <2>2, <2>3, <2>4
<1> QED
  BY <1>4, <1>8, <1>9 DEF IInv

\* A page is collected: what lies in it is not missed.
LEMMA FetchIInv == IInv /\ Fetch => IInv'
<1> SUFFICES ASSUME IInv, Fetch PROVE IInv'
  OBVIOUS
<1>1. TypeOK /\ PagingInv /\ pc = "paging"
  BY DEF IInv, Fetch
<1>2. /\ UNCHANGED <<directory, query, stayed, removed, joined>>
      /\ all' = all \cup Slice /\ count' = count + Cardinality(Slice)
      /\ \/ pc' = "done" /\ page' = page /\ Complete(count', Slice)
         \/ pc' = "paging" /\ page' = page + 1
  BY <1>1 DEF Fetch
<1>3. /\ matched \in SUBSET Nat /\ IsFiniteSet(matched) /\ total \in Nat
      /\ start \in Nat /\ consumersPageMax \in Nat \ {0}
      /\ stayed \cap query \subseteq matched
      /\ IsFiniteSet(Behind \ all) /\ Cardinality(Behind \ all) \in Nat
      /\ matched' = matched
  BY <1>1, <1>2, SetsAreFinite, SetsStayFinite, PageMaxAssumption DEF matched, FiniteState
<1>4. /\ IsFiniteSet(Slice) /\ Cardinality(Slice) \in Nat
      /\ Cardinality(Slice) <= consumersPageMax /\ Slice \subseteq Names
  <2>1. IsFiniteSet(Slice) /\ Cardinality(Slice) \in Nat /\ Cardinality(Slice) <= consumersPageMax
    BY <1>3, PageSize DEF Slice
  <2> QED
    BY <1>1, <2>1 DEF Slice, matched, TypeOK
<1>5. TypeOK'
  <2>1. count' \in Nat /\ page' \in Nat \ {0} /\ all' \subseteq Names
    BY <1>1, <1>2, <1>4 DEF TypeOK
  <2> QED
    BY <1>1, <1>2, <2>1 DEF TypeOK
<1> DEFINE end == start + consumersPageMax
<1>6. count' <= end
  BY <1>1, <1>2, <1>3, <1>4 DEF PagingInv, TypeOK
\* Entries up to the end of the page that are still missed were missed before.
<1>7. \A x \in stayed \cap query : Rank(matched, x) <= end /\ x \notin all' => x \in Behind \ all
  <2> SUFFICES ASSUME NEW x \in stayed \cap query, Rank(matched, x) <= end, x \notin all'
               PROVE  Rank(matched, x) <= start
    BY <1>2 DEF Behind
  <2>1. x \in matched /\ x \in Nat /\ x \notin Slice
    BY <1>2, <1>3
  <2>2. Rank(matched, x) \in Nat
    BY <1>3, <2>1, RankType
  <2>3. ~(start < Rank(matched, x))
    BY <2>1 DEF Slice
  <2> QED
    BY <1>3, <2>2, <2>3
<1>8. CASE pc' = "paging"
  <2>1. start' = end
    <3>1. page' = page + 1 /\ page \in Nat
      BY <1>1, <1>2, <1>8 DEF TypeOK
    <3>2. ((page + 1) - 1) * consumersPageMax = (page - 1) * consumersPageMax + consumersPageMax
      BY <1>3, <3>1
    <3> QED
      BY <3>1, <3>2 DEF start
  <2>2. (Behind' \ all') \in SUBSET (Behind \ all)
    BY <1>2, <1>3, <1>7, <2>1 DEF Behind
  <2>3. Cardinality(Behind' \ all') <= Cardinality(Behind \ all)
    BY <1>3, <2>2, FS_Subset
  <2>4. Cardinality(Behind' \ all') \in Nat /\ removed \in Nat
    BY <1>1, <1>5, SetsAreFinite, SetsStayFinite, NamesAssumption DEF TypeOK, FiniteState
  <2>5. PagingInv'
    BY <1>1, <1>2, <1>3, <1>6, <2>1, <2>3, <2>4 DEF PagingInv
  <2> QED
    BY <1>5, <1>8, <2>5 DEF IInv, MissedAtMostRemoved
<1>9. CASE pc' = "done"
  <2>1. \A x \in matched : Rank(matched, x) <= end
    <3>1. CASE Slice = {}
      <4>1. \A x \in matched : ~(start < Rank(matched, x) /\ Rank(matched, x) <= start + consumersPageMax)
        BY <3>1 DEF Slice
      <4>2. \A x \in matched : Rank(matched, x) <= start
        BY <1>3, <4>1, EmptyPageIsTheEnd
      <4> QED
        BY <1>3, <4>2, RankType
    <3>2. CASE count' >= total
      <4> SUFFICES ASSUME NEW x \in matched PROVE Rank(matched, x) <= end
        OBVIOUS
      <4>1. Rank(matched, x) \in Nat /\ Rank(matched, x) <= total
        BY <1>3, RankType DEF total
      <4>2. count' \in Nat
        BY <1>5 DEF TypeOK
      <4> QED
        BY <1>3, <1>6, <3>2, <4>1, <4>2
    <3> QED
      BY <1>2, <1>9, <3>1, <3>2 DEF Complete
  <2>2. Missed' \in SUBSET (Behind \ all)
    BY <1>2, <1>3, <1>7, <2>1 DEF Missed
  <2>3. Cardinality(Missed') <= Cardinality(Behind \ all)
    BY <1>3, <2>2, FS_Subset
  <2>4. Cardinality(Missed') \in Nat /\ removed \in Nat
    BY <1>1, <1>5, SetsAreFinite, SetsStayFinite, NamesAssumption DEF TypeOK, FiniteState
  <2>5. MissedAtMostRemoved'
    BY <1>1, <1>2, <1>3, <2>3, <2>4 DEF PagingInv, MissedAtMostRemoved
  <2> QED
    BY <1>5, <1>9, <2>5 DEF IInv, PagingInv
<1> QED
  BY <1>2, <1>8, <1>9

\* Every step keeps the invariant.
LEMMA NextIInv == IInv /\ [Next]_vars => IInv'
<1> SUFFICES ASSUME IInv, [Next]_vars PROVE IInv'
  OBVIOUS
<1>1. CASE Add
  BY <1>1, AddIInv
<1>2. CASE Delete
  <2>1. PICK n \in directory : directory' = directory \ {n} /\ Leaves(n)
    BY <1>2 DEF Delete
  <2>2. UNCHANGED <<client, joined>>
    BY <1>2 DEF Delete
  <2> QED
    BY <2>1, <2>2, LeavesIInv DEF IInv, TypeOK
<1>3. CASE Rename
  <2>1. PICK n \in directory, m \in Names :
           /\ n # m /\ directory' = (directory \ {n}) \cup {m} /\ Leaves(n)
           /\ joined' = IF m \in directory THEN joined ELSE joined + 1
    BY <1>3 DEF Rename
  <2>2. UNCHANGED client
    BY <1>3 DEF Rename
  <2> QED
    BY <2>1, <2>2, LeavesIInv DEF IInv, TypeOK
<1>4. CASE Begin
  BY <1>4, BeginIInv
<1>5. CASE Fetch
  BY <1>5, FetchIInv
<1>6. CASE Break
  <2>1. pc' = "failed" /\ all' = {} /\ count' = 0 /\ UNCHANGED <<directory, query, page, stayed, removed, joined>>
    BY <1>6 DEF Break
  <2> QED
    BY <2>1 DEF IInv, TypeOK, PagingInv, MissedAtMostRemoved
<1>7. CASE UNCHANGED vars
  <2>1. UNCHANGED <<directory, pc, query, page, all, count, stayed, removed, joined>>
    BY <1>7 DEF vars
  <2>2. UNCHANGED <<Behind, Missed, start>>
    BY <2>1 DEF Behind, Missed, start, matched
  <2> QED
    BY <2>1, <2>2 DEF IInv, TypeOK, PagingInv, MissedAtMostRemoved
<1> QED
  BY <1>1, <1>2, <1>3, <1>4, <1>5, <1>6, <1>7 DEF Next

-----------------------------------------------------------------------------
(* Entries that are listed twice.                                          *)

\* The names of K with a rank above a in the directory S.
Beyond(K, S, a) == {n \in K \cap S : Rank(S, n) > a}

\* What is printed already and lies in the pages still to come.
Ahead == Beyond(all, matched, start)

\* What has been repeated and what may still be adds up to no more than has
\* joined.
RepeatInv == pc = "paging" => count + Cardinality(Ahead) <= Cardinality(all) + joined

\* Of the printed entries K, one that joins the directory S moves at most one
\* beyond rank a, or is itself one of them.
LEMMA JoinMovesOne ==
    ASSUME NEW S \in SUBSET Nat, IsFiniteSet(S), NEW T \in SUBSET Nat, IsFiniteSet(T),
           NEW m \in Nat, T \subseteq S \cup {m}, NEW K, NEW a \in Nat
    PROVE  Cardinality(Beyond(K, T, a)) <= Cardinality(Beyond(K, S, a)) + 1
<1> DEFINE before == {n \in K \cap S : Rank(S, n) > a}
           after  == {n \in K \cap T : Rank(T, n) > a}
<1> SUFFICES Cardinality(after) <= Cardinality(before) + 1
  BY DEF Beyond
<1>0. IsFiniteSet(before) /\ Cardinality(before) \in Nat
  <2>1. before \in SUBSET S
    OBVIOUS
  <2> QED BY <2>1, FS_Subset, FS_CardinalityType
\* Whoever is not m had a rank that is lower by at most one.
<1>1. ASSUME NEW n \in after, n # m
      PROVE  /\ n \in K \cap S /\ n \in Nat /\ n \in T
             /\ Rank(S, n) \in Nat /\ Rank(T, n) \in Nat
             /\ Rank(T, n) > a /\ Rank(T, n) <= Rank(S, n) + 1
  <2>1. n \in S /\ n \in T /\ n \in Nat /\ n \in K /\ Rank(T, n) > a
    BY <1>1
  <2>2. T \ {m} \subseteq S
    OBVIOUS
  <2>3. Rank(T, n) <= Rank(S, n) + 1
    BY <2>1, <2>2, RankShifts
  <2> QED BY <2>1, <2>3, RankType
<1>2. CASE m \in after
  <2>1. ASSUME NEW n \in after, n # m PROVE n \in before
    <3>1. CASE n < m
      <4> DEFINE M == {i \in T : i <= n}
                 N == {i \in S : i <= n}
      <4>1. \A i \in M : i # m
        BY <1>1, <2>1, <3>1
      <4>2. M \in SUBSET N /\ IsFiniteSet(N)
        BY <4>1, FS_Subset
      <4>3. Cardinality(M) <= Cardinality(N)
        BY <4>2, FS_Subset
      <4>4. Rank(T, n) <= Rank(S, n)
        BY <4>3 DEF Rank
      <4> QED BY <1>1, <2>1, <4>4
    <3>2. CASE m < n
      <4>1. Rank(T, m) < Rank(T, n)
        BY <1>1, <1>2, <2>1, <3>2, RankIncreases
      <4>2. Rank(T, m) \in Nat /\ Rank(T, m) > a
        BY <1>2, RankType
      <4>3. Rank(S, n) > a
        BY <1>1, <2>1, <4>1, <4>2
      <4> QED BY <1>1, <2>1, <4>3
    <3> QED BY <1>1, <2>1, <3>1, <3>2
  <2>2. after \in SUBSET (before \cup {m})
    BY <2>1
  <2>3. /\ IsFiniteSet(before \cup {m})
        /\ Cardinality(before \cup {m}) =
              IF m \in before THEN Cardinality(before) ELSE Cardinality(before) + 1
    BY <1>0, FS_AddElement
  <2>4. Cardinality(after) <= Cardinality(before \cup {m}) /\ Cardinality(after) \in Nat
    BY <2>2, <2>3, FS_Subset, FS_CardinalityType
  <2> QED BY <1>0, <2>3, <2>4
<1>3. CASE m \notin after
  <2>1. after \subseteq before \cup {n \in T : Rank(T, n) = a + 1}
    <3> SUFFICES ASSUME NEW n \in after, Rank(T, n) # a + 1 PROVE n \in before
      OBVIOUS
    <3>1. n # m
      BY <1>3
    <3> QED BY <1>1, <3>1
  <2>2. a + 1 \in Nat
    OBVIOUS
  <2>3. IsFiniteSet(before)
    BY <1>0
  <2> HIDE DEF before
  <2> QED BY <2>1, <2>2, <2>3, AtMostOneMore
<1> QED BY <1>2, <1>3

\* When none joins, none moves on.
LEMMA NoneJoins ==
    ASSUME NEW S \in SUBSET Nat, IsFiniteSet(S), NEW T \in SUBSET S, NEW K, NEW a \in Nat
    PROVE  Cardinality(Beyond(K, T, a)) <= Cardinality(Beyond(K, S, a))
<1> DEFINE before == {n \in K \cap S : Rank(S, n) > a}
           after  == {n \in K \cap T : Rank(T, n) > a}
<1> SUFFICES Cardinality(after) <= Cardinality(before)
  BY DEF Beyond
<1>1. after \in SUBSET before
  <2> SUFFICES ASSUME NEW n \in after PROVE Rank(S, n) > a
    OBVIOUS
  <2>1. T \in SUBSET Nat /\ IsFiniteSet(T) /\ n \in Nat
    BY FS_Subset
  <2>2. Rank(T, n) <= Rank(S, n) /\ Rank(T, n) \in Nat /\ Rank(S, n) \in Nat
    BY <2>1, RankGrows, RankType
  <2> QED BY <2>2
<1>2. before \in SUBSET S
  OBVIOUS
<1>3. IsFiniteSet(before)
  BY <1>2, FS_Subset
<1> QED BY <1>1, <1>3, FS_Subset

PrintedFinite ==
    /\ IsFiniteSet(all) /\ Cardinality(all) \in Nat
    /\ IsFiniteSet(Ahead) /\ Cardinality(Ahead) \in Nat

\* What is printed is finite.
LEMMA PrintedIsFinite == TypeOK => PrintedFinite
<1> SUFFICES ASSUME TypeOK PROVE PrintedFinite
  OBVIOUS
<1>1. all \in SUBSET Names /\ Ahead \in SUBSET Names /\ IsFiniteSet(Names)
  BY NamesAssumption DEF TypeOK, Ahead, Beyond
<1> QED BY <1>1, FS_Subset, FS_CardinalityType DEF PrintedFinite

LEMMA PrintedStaysFinite == TypeOK' => PrintedFinite'
BY PrintedIsFinite, PTL

\* A step of other clients: the directory gains at most one name.
LEMMA DirectoryRepeats ==
    ASSUME TypeOK, TypeOK', RepeatInv, RepeatedAtMostJoined, UNCHANGED client,
           NEW m \in Names, directory' \subseteq directory \cup {m},
           \/ directory' \subseteq directory /\ joined' = joined
           \/ joined' = joined + 1
    PROVE  RepeatInv' /\ RepeatedAtMostJoined'
<1>1. /\ UNCHANGED <<pc, query, page, all, count, start>>
      /\ joined \in Nat /\ joined' \in Nat /\ joined <= joined' /\ count \in Nat
  BY DEF client, TypeOK, start
<1>2. /\ matched \in SUBSET Nat /\ IsFiniteSet(matched)
      /\ matched' \in SUBSET Nat /\ IsFiniteSet(matched') /\ start \in Nat
  BY SetsAreFinite, SetsStayFinite DEF FiniteState
<1>3. /\ m \in Nat /\ matched' \subseteq matched \cup {m}
      /\ directory' \subseteq directory => matched' \subseteq matched
  BY <1>1, NamesAssumption DEF matched
<1>4. Ahead = Beyond(all, matched, start) /\ Ahead' = Beyond(all, matched', start)
  BY <1>1 DEF Ahead, Beyond
<1>5. /\ Cardinality(Ahead) \in Nat /\ Cardinality(Ahead') \in Nat /\ Cardinality(all) \in Nat
  BY PrintedIsFinite, PrintedStaysFinite DEF PrintedFinite
<1>6. CASE directory' \subseteq directory /\ joined' = joined
  <2>1. Cardinality(Ahead') <= Cardinality(Ahead)
    BY <1>2, <1>3, <1>4, <1>6, NoneJoins
  <2> QED BY <1>1, <1>5, <1>6, <2>1 DEF RepeatInv, RepeatedAtMostJoined
<1>7. CASE joined' = joined + 1
  <2>1. Cardinality(Ahead') <= Cardinality(Ahead) + 1
    BY <1>2, <1>3, <1>4, JoinMovesOne
  <2> QED BY <1>1, <1>5, <1>7, <2>1 DEF RepeatInv, RepeatedAtMostJoined
<1> QED BY <1>6, <1>7

\* A page: what it repeats was ahead.
LEMMA FetchRepeats ==
    ASSUME TypeOK, TypeOK', RepeatInv, RepeatedAtMostJoined, Fetch
    PROVE  RepeatInv' /\ RepeatedAtMostJoined'
<1> DEFINE again == all \cap Slice
           beyond == Beyond(all, matched, start + consumersPageMax)
<1>1. /\ pc = "paging" /\ UNCHANGED <<directory, query, joined>>
      /\ all' = all \cup Slice /\ count' = count + Cardinality(Slice)
      /\ pc' = "done" \/ (pc' = "paging" /\ page' = page + 1)
      /\ matched' = matched
  BY DEF Fetch, matched
<1>2. /\ matched \in SUBSET Nat /\ IsFiniteSet(matched) /\ start \in Nat
      /\ consumersPageMax \in Nat \ {0}
  BY SetsAreFinite, PageMaxAssumption DEF FiniteState
<1>3. /\ IsFiniteSet(all) /\ Cardinality(all) \in Nat /\ IsFiniteSet(Ahead)
      /\ Cardinality(Ahead) \in Nat /\ Cardinality(all') \in Nat
  BY PrintedIsFinite, PrintedStaysFinite DEF PrintedFinite
<1>4. IsFiniteSet(Slice) /\ Cardinality(Slice) \in Nat
  <2>1. Slice \in SUBSET matched
    BY DEF Slice
  <2> QED BY <1>2, <2>1, FS_Subset, FS_CardinalityType
<1>5. IsFiniteSet(again) /\ Cardinality(again) \in Nat
  <2>1. again \in SUBSET all
    OBVIOUS
  <2> QED BY <1>3, <2>1, FS_Subset, FS_CardinalityType
<1>6. Cardinality(all') = Cardinality(all) + Cardinality(Slice) - Cardinality(again)
  BY <1>1, <1>3, <1>4, FS_Union
<1>7. \A n \in matched : Rank(matched, n) \in Nat
  BY <1>2, RankType
<1>8. /\ again \cap beyond = {} /\ again \cup beyond \in SUBSET Ahead /\ beyond \in SUBSET Ahead
  <2>1. \A n \in Slice : /\ n \in matched /\ start < Rank(matched, n)
                         /\ Rank(matched, n) <= start + consumersPageMax
    BY DEF Slice
  <2>2. \A n \in beyond : /\ n \in all /\ n \in matched
                          /\ Rank(matched, n) > start + consumersPageMax
    BY DEF Beyond
  <2> HIDE DEF beyond
  <2>3. ASSUME NEW n \in beyond PROVE Rank(matched, n) > start /\ n \notin Slice
    <3>1. Rank(matched, n) \in Nat /\ Rank(matched, n) > start + consumersPageMax
      BY <1>7, <2>2
    <3>2. Rank(matched, n) > start /\ ~(Rank(matched, n) <= start + consumersPageMax)
      BY <1>2, <3>1
    <3> QED BY <2>1, <3>2
  <2>5. \A n \in again : n \in all /\ n \in matched /\ Rank(matched, n) > start
    BY <1>2, <1>7, <2>1
  <2>6. again \cap beyond = {}
    BY <2>3
  <2>7. \A n \in beyond \cup again : n \in Ahead
    BY <2>2, <2>3, <2>5 DEF Ahead, Beyond
  <2> QED BY <2>6, <2>7
<1>9. IsFiniteSet(beyond) /\ Cardinality(beyond) \in Nat
  BY <1>3, <1>8, FS_Subset, FS_CardinalityType
<1>10. Cardinality(again) + Cardinality(beyond) <= Cardinality(Ahead)
  <2> HIDE DEF again, beyond
  <2>1. Cardinality(again \cup beyond) = Cardinality(again) + Cardinality(beyond)
          - Cardinality(again \cap beyond)
    BY <1>5, <1>9, FS_Union
  <2>2. Cardinality(again \cap beyond) = 0
    BY <1>8, FS_EmptySet
  <2>3. Cardinality(again \cup beyond) <= Cardinality(Ahead)
    BY <1>3, <1>8, FS_Subset
  <2> QED BY <1>3, <1>5, <1>9, <2>1, <2>2, <2>3
<1>11. count' + Cardinality(beyond) <= Cardinality(all') + joined'
  <2>1. count + Cardinality(Ahead) <= Cardinality(all) + joined
    BY <1>1 DEF RepeatInv
  <2>2. count \in Nat /\ joined \in Nat
    BY DEF TypeOK
  <2> HIDE DEF again, beyond
  <2> QED BY <1>1, <1>3, <1>4, <1>5, <1>6, <1>9, <1>10, <2>1, <2>2
<1>12. RepeatedAtMostJoined'
  <2>1. count' \in Nat /\ joined' \in Nat
    BY DEF TypeOK
  <2> HIDE DEF beyond
  <2> QED BY <1>3, <1>9, <1>11, <2>1 DEF RepeatedAtMostJoined
<1>13. ASSUME pc' = "paging" PROVE Ahead' = beyond
  <2>1. page' = page + 1 /\ page \in Nat
    BY <1>1, <1>13 DEF TypeOK
  <2>2. ((page + 1) - 1) * consumersPageMax = (page - 1) * consumersPageMax + consumersPageMax
    BY <1>2, <2>1
  <2>3. start' = start + consumersPageMax
    BY <2>1, <2>2 DEF start
  <2>4. Ahead' = Beyond(all \cup Slice, matched, start + consumersPageMax)
    BY <1>1, <2>3 DEF Ahead, Beyond
  <2>5. \A n \in Slice : ~(Rank(matched, n) > start + consumersPageMax)
    BY <1>2, <1>7 DEF Slice
  <2> QED BY <2>4, <2>5 DEF Beyond
<1> QED BY <1>11, <1>12, <1>13 DEF RepeatInv

\* Every step keeps the account of the entries listed twice.
LEMMA NextRepeats ==
    IInv /\ RepeatInv /\ RepeatedAtMostJoined /\ [Next]_vars => RepeatInv' /\ RepeatedAtMostJoined'
<1> SUFFICES ASSUME IInv, RepeatInv, RepeatedAtMostJoined, [Next]_vars
             PROVE  RepeatInv' /\ RepeatedAtMostJoined'
  OBVIOUS
<1>1. TypeOK /\ TypeOK'
  BY NextIInv DEF IInv
<1>2. CASE Add
  BY <1>1, <1>2, DirectoryRepeats DEF Add
<1>3. CASE Delete
  <2>1. PICK n \in directory : directory' = directory \ {n}
    BY <1>3 DEF Delete
  <2>2. n \in Names /\ directory' \subseteq directory \cup {n} /\ directory' \subseteq directory
    BY <1>1, <2>1 DEF TypeOK
  <2>3. joined' = joined /\ UNCHANGED client
    BY <1>3 DEF Delete
  <2> QED BY <1>1, <2>2, <2>3, DirectoryRepeats
<1>4. CASE Rename
  <2>1. PICK n \in directory, m \in Names :
           /\ directory' = (directory \ {n}) \cup {m}
           /\ joined' = IF m \in directory THEN joined ELSE joined + 1
    BY <1>4 DEF Rename
  <2>2. /\ directory' \subseteq directory \cup {m}
        /\ m \in directory => directory' \subseteq directory
    BY <2>1
  <2>3. UNCHANGED client
    BY <1>4 DEF Rename
  <2> QED BY <1>1, <2>1, <2>2, <2>3, DirectoryRepeats
<1>5. ASSUME all' = {}, count' = 0 PROVE RepeatInv' /\ RepeatedAtMostJoined'
  <2>1. Ahead' = {}
    BY <1>5 DEF Ahead, Beyond
  <2>2. Cardinality(Ahead') = 0 /\ Cardinality(all') = 0 /\ joined' \in Nat
    BY <1>1, <1>5, <2>1, FS_EmptySet DEF TypeOK
  <2> QED BY <1>5, <2>2 DEF RepeatInv, RepeatedAtMostJoined
<1>6. CASE Begin
  BY <1>5, <1>6 DEF Begin
<1>7. CASE Break
  BY <1>5, <1>7 DEF Break
<1>8. CASE Fetch
  BY <1>1, <1>8, FetchRepeats
<1>9. CASE UNCHANGED vars
  <2>1. UNCHANGED <<directory, pc, query, page, all, count, joined>>
    BY <1>9 DEF vars
  <2>2. UNCHANGED Ahead
    BY <2>1 DEF Ahead, Beyond, matched, start
  <2> QED BY <2>1, <2>2 DEF RepeatInv, RepeatedAtMostJoined
<1> QED BY <1>2, <1>3, <1>4, <1>6, <1>7, <1>8, <1>9 DEF Next

\* Nothing is collected without being counted.
ListedOnce == Cardinality(all) <= count

LEMMA InitListed == Init => ListedOnce
BY FS_EmptySet DEF Init, ListedOnce

LEMMA NextListed == IInv /\ ListedOnce /\ [Next]_vars => ListedOnce'
<1> SUFFICES ASSUME TypeOK, ListedOnce, [Next]_vars PROVE ListedOnce'
  BY DEF IInv
<1>1. CASE all' = all /\ count' = count
  BY <1>1 DEF ListedOnce
<1>2. CASE all' = {} /\ count' = 0
  BY <1>2, FS_EmptySet DEF ListedOnce
<1>3. CASE Fetch
  <2>1. IsFiniteSet(all) /\ Cardinality(all) \in Nat /\ count \in Nat
    BY PrintedIsFinite DEF PrintedFinite, TypeOK
  <2>2. IsFiniteSet(Slice) /\ Cardinality(Slice) \in Nat
    <3>1. Slice \in SUBSET matched /\ IsFiniteSet(matched)
      BY SetsAreFinite DEF Slice, FiniteState
    <3> QED BY <3>1, FS_Subset, FS_CardinalityType
  <2>3. IsFiniteSet(all \cap Slice) /\ Cardinality(all \cap Slice) \in Nat
    <3>1. (all \cap Slice) \in SUBSET all
      OBVIOUS
    <3> QED BY <2>1, <3>1, FS_Subset, FS_CardinalityType
  <2>4. Cardinality(all \cup Slice) =
          Cardinality(all) + Cardinality(Slice) - Cardinality(all \cap Slice)
    BY <2>1, <2>2, FS_Union
  <2> QED BY <1>3, <2>1, <2>2, <2>3, <2>4 DEF Fetch, ListedOnce
<1> QED BY <1>1, <1>2, <1>3 DEF Next, Add, Delete, Rename, Begin, Break, vars, client

-----------------------------------------------------------------------------
(* The theorems.                                                           *)

\* The invariant holds in every reachable state.
THEOREM Invariance == Spec => []IInv
<1>1. Init => IInv
  BY InitIInv
<1>2. IInv /\ [Next]_vars => IInv'
  BY NextIInv
<1> QED
  BY <1>1, <1>2, PTL DEF Spec

\* Every variable keeps its type.
THEOREM TypeCorrect == Spec => []TypeOK
BY Invariance, PTL DEF IInv

\* For every directory, page size and query: ListConsumers misses at most
\* one of the entries that stayed for every entry that left while it ran.
THEOREM ListingMissesAtMostRemoved == Spec => []MissedAtMostRemoved
BY Invariance, PTL DEF IInv

\* For every directory, page size and query: ListConsumers repeats at most
\* one entry for every entry that joined while it ran.
THEOREM ListingRepeatsAtMostJoined == Spec => []RepeatedAtMostJoined
<1>1. Init => RepeatInv /\ RepeatedAtMostJoined
  BY FS_EmptySet DEF Init, RepeatInv, RepeatedAtMostJoined
<1> QED
  BY <1>1, NextRepeats, Invariance, PTL DEF Spec

\* "the caller always gets the whole set" holds of a listing during which no
\* entry leaves, and every entry is listed once if none joins either.
THEOREM QuietListingIsWhole ==
    Spec => [](/\ removed = 0 => WholeSet
               /\ joined = 0 => count = Cardinality(all))
<1>0. Spec => []ListedOnce
  BY NextListed, InitListed, Invariance, PTL DEF Spec
<1>1. IInv /\ ListedOnce /\ RepeatedAtMostJoined =>
         (removed = 0 => WholeSet) /\ (joined = 0 => count = Cardinality(all))
  <2> SUFFICES ASSUME TypeOK, MissedAtMostRemoved, ListedOnce, RepeatedAtMostJoined
               PROVE  (removed = 0 => WholeSet) /\ (joined = 0 => count = Cardinality(all))
    BY DEF IInv
  <2>1. ASSUME removed = 0, pc = "done" PROVE Missed = {}
    <3>1. IsFiniteSet(Missed) /\ Cardinality(Missed) \in Nat /\ Cardinality(Missed) <= 0
      BY <2>1, SetsAreFinite DEF MissedAtMostRemoved, FiniteState
    <3>2. Cardinality(Missed) = 0
      BY <3>1
    <3> QED BY <3>1, <3>2, FS_EmptySet
  <2>2. ASSUME joined = 0 PROVE count = Cardinality(all)
    BY <2>2, PrintedIsFinite DEF PrintedFinite, ListedOnce, RepeatedAtMostJoined, TypeOK
  <2> QED BY <2>1, <2>2 DEF WholeSet
<1> QED
  BY <1>0, <1>1, Invariance, ListingRepeatsAtMostJoined, PTL
=============================================================================
