------------------------- MODULE ModelQueriesProofs -------------------------
(***************************************************************************)
(* Proofs about ModelQueries, for any models, definitions, filters and     *)
(* page sizes.                                                             *)
(***************************************************************************)
EXTENDS ModelQueries, FiniteSetTheorems, TLAPS

Listing == {"listing", "sourcing", "listed"}
Resolving == {"byVendor", "byId", "byAlias", "answered"}

QueryType ==
  /\ entries \in [Models -> Entries \cup {NoEntry}]
  /\ step \in {"idle"} \cup Listing \cup Resolving
  /\ token \in Models \cup {NoToken}
  /\ page \in Seq(Models)
  /\ listed \in Seq(Models)
  /\ since \subseteq [Models -> Entries \cup {NoEntry}]

(***************************************************************************)
(* What the history holds.  A call sees the present table last; a table    *)
(* has finitely many rows; and if a call saw two tables only, a single     *)
(* change made one of the other.                                           *)
(***************************************************************************)
SameBut(t1, t2, x) == \A m \in Models \ {x} : t1[m] = t2[m]

HistoryInv ==
  /\ IsFiniteSet(Present(entries))
  /\ IsFiniteSet(since)
  /\ \A table \in since : IsFiniteSet(Present(table))
  /\ IF step = "idle" THEN since = {} ELSE entries \in since
  /\ \A t1, t2 \in since :
       since = {t1, t2} => t1 = t2 \/ \E x \in Models : SameBut(t1, t2, x)

(***************************************************************************)
(* The listing.  What the client has is in order and ends where its token  *)
(* says, and up to there it has every model that matched in all states; a  *)
(* page goes on from there, without a gap, to its last row or to the end.  *)
(***************************************************************************)
Sorted(rows) == \A i, j \in DOMAIN rows : i < j => Rank[rows[i]] < Rank[rows[j]]
Matched(rows) ==
  \A i \in DOMAIN rows : \E table \in since : rows[i] \in Matching(table, request.filter)
AlwaysMatched(m) == \A table \in since : m \in Matching(table, request.filter)

ListedInv ==
  /\ step \notin Listing => listed = <<>> /\ token = NoToken
  /\ step # "listed" => token = IF listed = <<>> THEN NoToken ELSE Last(listed)
  /\ Sorted(listed)
  /\ Matched(listed)
  /\ step \in {"listing", "sourcing"} =>
       \A m \in Models : AlwaysMatched(m) /\ ~ Beyond(m) => Contains(listed, m)
  /\ step = "listed" => \A m \in Models : AlwaysMatched(m) => Contains(listed, m)

PageInv ==
  step = "sourcing" =>
    /\ Sorted(page)
    /\ Matched(page)
    /\ \A i \in DOMAIN page : Beyond(page[i])
    /\ \A m \in Models :
         AlwaysMatched(m) /\ Beyond(m) =>
           \/ Contains(page, m)
           \/ more /\ page # <<>> /\ Rank[m] > Rank[Last(page)]

(***************************************************************************)
(* The answer.  Who reads the aliases has seen a table without the id; and *)
(* an answer is what the name meant in one table, or what the aliases of   *)
(* one table say when another did not have the id.                         *)
(***************************************************************************)
AliasMeaning(table, n) ==
  IF HasAlias(table, n) = {} THEN [kind |-> "not found"] ELSE Unique(HasAlias(table, n))

AnswerInv ==
  /\ step = "byVendor" => request.vendor # NoVendor
  /\ step \in {"byId", "byAlias"} => request.vendor = NoVendor
  /\ step = "byAlias" => \E table \in since : HasId(table, request.name) = {}
  /\ Answered =>
       \/ answer \in Meanings
       \/ /\ request.vendor = NoVendor
          /\ \E t1, t2 \in since :
               HasId(t1, request.name) = {} /\ answer = AliasMeaning(t2, request.name)

QueryInv == QueryType /\ HistoryInv /\ ListedInv /\ PageInv /\ AnswerInv

-----------------------------------------------------------------------------
(* Facts about the operators.                                              *)

LEMMA RanksType ==
  /\ \A m \in Models : Rank[m] \in Nat
  /\ \A m, n \in Models : Rank[m] = Rank[n] => m = n
BY QueryAssumption

LEMMA EmptyIsSeq == <<>> \in Seq(Models) /\ DOMAIN <<>> = {}
OBVIOUS

\* InOrder is a sequence of all the rows, in order of their rank.
LEMMA InOrderIsSorted ==
  ASSUME NEW S \in SUBSET Models, IsFiniteSet(S)
  PROVE  /\ Cardinality(S) \in Nat
         /\ InOrder(S) \in [1 .. Cardinality(S) -> S]
         /\ Sorted(InOrder(S))
         /\ \A m \in S : \E n \in 1 .. Cardinality(S) : InOrder(S)[n] = m
<1> DEFINE UpTo(m) == {k \in S : Rank[k] <= Rank[m]}
           N == Cardinality(S)
           f == [m \in S |-> Cardinality(UpTo(m))]
<1>1. N \in Nat
  BY FS_CardinalityType
<1>2. ASSUME NEW m \in S PROVE f[m] \in 1 .. N /\ f[m] = Cardinality(UpTo(m))
  <2>1. IsFiniteSet(UpTo(m)) /\ Cardinality(UpTo(m)) <= N
    BY FS_Subset
  <2>2. Cardinality(UpTo(m)) \in Nat
    BY <2>1, FS_CardinalityType
  <2>3. m \in UpTo(m)
    BY RanksType
  <2>4. Cardinality(UpTo(m)) # 0
    BY <2>1, <2>3, FS_EmptySet
  <2> HIDE DEF N, UpTo
  <2> QED BY <1>1, <2>1, <2>2, <2>4
<1>3. ASSUME NEW m \in S, NEW k \in S, Rank[m] < Rank[k] PROVE f[m] < f[k]
  <2>1. UpTo(m) \subseteq UpTo(k)
    BY <1>3, RanksType
  <2>2. k \in UpTo(k) /\ k \notin UpTo(m)
    BY <1>3, RanksType
  <2>3. IsFiniteSet(UpTo(k))
    BY FS_Subset
  <2>4. /\ Cardinality(UpTo(m)) <= Cardinality(UpTo(k))
        /\ Cardinality(UpTo(m)) # Cardinality(UpTo(k))
    <3>1. UpTo(m) \in SUBSET UpTo(k) /\ UpTo(m) # UpTo(k)
      BY <2>1, <2>2
    <3>2. ASSUME NEW B, IsFiniteSet(B), NEW A \in SUBSET B, A # B
          PROVE  Cardinality(A) <= Cardinality(B) /\ Cardinality(A) # Cardinality(B)
      BY <3>2, FS_Subset
    <3> HIDE DEF UpTo
    <3> QED BY <2>3, <3>1, <3>2
  <2> HIDE DEF f, UpTo, N
  <2> QED BY <1>1, <1>2, <2>4
<1>4. \A m, k \in S : f[m] = f[k] => m = k
  <2> SUFFICES ASSUME NEW m \in S, NEW k \in S, f[m] = f[k], m # k PROVE FALSE
    OBVIOUS
  <2>1. Rank[m] < Rank[k] \/ Rank[k] < Rank[m]
    BY RanksType
  <2>2. f[m] < f[k] \/ f[k] < f[m]
    BY <1>3, <2>1
  <2>3. f[m] \in Nat /\ f[k] \in Nat
    BY <1>1, <1>2
  <2> HIDE DEF f
  <2> QED BY <2>2, <2>3
<1>5. \A n \in 1 .. N : \E m \in S : f[m] = n
  <2>1. f \in Injection(S, 1 .. N)
    BY <1>2, <1>4 DEF Injection, IsInjective
  <2>2. IsFiniteSet(1 .. N) /\ Cardinality(1 .. N) = N
    BY <1>1, FS_Interval
  <2> HIDE DEF f
  <2>3. f \in Surjection(S, 1 .. N)
    BY <2>1, <2>2, FS_Injection
  <2> QED BY <2>3 DEF Surjection
<1> DEFINE rows == InOrder(S)
<1>6. rows = [n \in 1 .. N |-> CHOOSE m \in S : Cardinality(UpTo(m)) = n]
  BY DEF InOrder
<1> HIDE DEF rows
<1>7. \A n \in 1 .. N : rows[n] \in S /\ f[rows[n]] = n
  <2> SUFFICES ASSUME NEW n \in 1 .. N PROVE rows[n] \in S /\ f[rows[n]] = n
    OBVIOUS
  <2>1. \E m \in S : Cardinality(UpTo(m)) = n
    BY <1>2, <1>5
  <2>2. rows[n] = CHOOSE m \in S : Cardinality(UpTo(m)) = n
    BY <1>6
  <2> HIDE DEF UpTo, f, N
  <2>3. rows[n] \in S /\ Cardinality(UpTo(rows[n])) = n
    BY <2>1, <2>2
  <2> QED BY <1>2, <2>3
<1>8. rows \in [1 .. N -> S]
  BY <1>6, <1>7
<1> HIDE DEF f, N
<1>9. \A i, j \in 1 .. N : i < j => Rank[rows[i]] < Rank[rows[j]]
  <2> SUFFICES ASSUME NEW i \in 1 .. N, NEW j \in 1 .. N, i < j,
                      ~ (Rank[rows[i]] < Rank[rows[j]])
               PROVE  FALSE
    OBVIOUS
  <2>1. /\ rows[i] \in S /\ f[rows[i]] = i
        /\ rows[j] \in S /\ f[rows[j]] = j
    BY <1>7
  <2>2. Rank[rows[j]] < Rank[rows[i]] \/ rows[i] = rows[j]
    BY <2>1, RanksType
  <2> QED BY <1>1, <1>3, <2>1, <2>2
<1>10. \A m \in S : \E n \in 1 .. N : rows[n] = m
  <2> SUFFICES ASSUME NEW m \in S PROVE \E n \in 1 .. N : rows[n] = m
    OBVIOUS
  <2>1. f[m] \in 1 .. N
    BY <1>2
  <2>2. rows[f[m]] \in S /\ f[rows[f[m]]] = f[m]
    BY <1>7, <2>1
  <2> QED BY <1>4, <2>1, <2>2
<1>11. Sorted(rows)
  BY <1>8, <1>9 DEF Sorted
<1> QED BY <1>1, <1>8, <1>10, <1>11 DEF rows, N

LEMMA PageSizeIsPositive ==
  ASSUME NEW n \in Sizes PROVE PageSize(n) \in Nat \ {0}
<1>1. n \in Int /\ MaxSize \in Nat \ {0} /\ DefaultSize \in Nat \ {0}
  BY QueryAssumption
<1> QED BY <1>1 DEF PageSize

\* What the first statement reads: rows beyond the token, in order, all of
\* them or a page that is not empty and has no gap.
LEMMA PageIsStart ==
  ASSUME QueryType, HistoryInv, NEW n \in Sizes, ReadPage(n)
  PROVE  /\ more' \in BOOLEAN
         /\ page' \in Seq(Models)
         /\ Sorted(page')
         /\ \A i \in DOMAIN page' :
              page'[i] \in Matching(entries, request.filter) /\ Beyond(page'[i])
         /\ \A m \in Matching(entries, request.filter) :
              Beyond(m) => \/ Contains(page', m)
                           \/ more' /\ page' # <<>> /\ Rank[m] > Rank[Last(page')]
<1> DEFINE T == {m \in Matching(entries, request.filter) : Beyond(m)}
           L == Cardinality(T)
<1>1. T \subseteq Present(entries) /\ T \subseteq Models
  BY DEF Matching, Picked, Present
<1>2. IsFiniteSet(T)
  BY <1>1, FS_Subset DEF HistoryInv
<1> HIDE DEF T
<1>3. PICK rows : rows = InOrder(T)
  OBVIOUS
<1>4. PICK size : size = PageSize(n)
  OBVIOUS
<1>5. /\ L \in Nat
      /\ rows \in [1 .. L -> T]
      /\ Sorted(rows)
      /\ \A m \in T : \E i \in 1 .. L : rows[i] = m
  BY <1>1, <1>2, <1>3, InOrderIsSorted
<1> HIDE DEF L
<1>6. rows \in Seq(Models) /\ Len(rows) = L /\ DOMAIN rows = 1 .. L
  BY <1>1, <1>5
<1>7. PICK k : k = IF L < size THEN L ELSE size
  OBVIOUS
<1>8. page' = SubSeq(rows, 1, k) /\ more' = (L > size)
  BY <1>3, <1>4, <1>6, <1>7 DEF ReadPage, After, T
<1>9. size \in Nat \ {0}
  BY <1>4, PageSizeIsPositive
<1>10. k \in Nat /\ k <= L /\ (k < L => k = size /\ L > size)
  BY <1>5, <1>7, <1>9
<1>11. page' \in Seq(Models) /\ Len(page') = k /\ \A i \in 1 .. k : page'[i] = rows[i]
  BY <1>6, <1>8, <1>10
<1>12. DOMAIN page' = 1 .. k
  BY <1>11
<1>13. Sorted(page')
  BY <1>5, <1>6, <1>10, <1>11, <1>12 DEF Sorted
<1>14. \A i \in DOMAIN page' : page'[i] \in T
  BY <1>5, <1>10, <1>11, <1>12
<1>15. ASSUME NEW m \in T
       PROVE  \/ Contains(page', m)
              \/ more' /\ page' # <<>> /\ Rank[m] > Rank[Last(page')]
  <2>1. PICK j \in 1 .. L : rows[j] = m
    BY <1>5
  <2>2. CASE j <= k
    <3>1. j \in 1 .. Len(page') /\ page'[j] = m
      BY <1>5, <1>10, <1>11, <2>1, <2>2
    <3> QED BY <3>1 DEF Contains
  <2>3. CASE ~ (j <= k)
    <3>1. k \in 1 .. L /\ k < j /\ L > size
      BY <1>5, <1>9, <1>10, <2>1, <2>3
    <3>2. page' # <<>> /\ Last(page') = rows[k]
      BY <1>11, <3>1 DEF Last
    <3>3. Rank[rows[k]] < Rank[m]
      BY <1>5, <1>6, <2>1, <3>1 DEF Sorted
    <3>4. rows[k] \in Models /\ m \in Models
      BY <1>1, <1>5, <3>1
    <3> QED BY <1>8, <3>1, <3>2, <3>3, <3>4, RanksType
  <2> QED BY <1>5, <1>10, <2>1, <2>2, <2>3
<1>16. more' \in BOOLEAN
  BY <1>8
<1> QED BY <1>11, <1>13, <1>14, <1>15, <1>16 DEF T

-----------------------------------------------------------------------------
(* The types, and the history.                                             *)

LEMMA TypeInit == QueryInit => QueryType /\ HistoryInv
<1> SUFFICES ASSUME QueryInit PROVE QueryType /\ HistoryInv
  OBVIOUS
<1>1. Present(entries) = {}
  BY DEF Present, QueryInit, Init
<1>2. HistoryInv
  BY <1>1, FS_EmptySet DEF QueryInit, HistoryInv
<1>3. QueryType
  BY EmptyIsSeq DEF QueryInit, Init, QueryType
<1> QED BY <1>2, <1>3

\* Reads change no row, and the history only when a call starts or ends.
Reading ==
  /\ UNCHANGED <<entries, events>>
  /\ \/ step # "idle" /\ step' # "idle" /\ since' = since
     \/ step' # "idle" /\ since' = {entries}
     \/ step' = "idle" /\ since' = {}

LEMMA ReadStepReads ==
  ASSUME QueryType, ReadStep PROVE Reading
<1>1. CASE \E f \in Filters : StartList(f)
  BY <1>1 DEF StartList, Ask, Reading
<1>2. CASE \E n \in Sizes : ReadPage(n)
  BY <1>2 DEF ReadPage, Reading
<1>3. CASE ReturnPage \/ ListError
  BY <1>3 DEF ReturnPage, ListError, Reading
<1>4. CASE \E v \in Vendors \cup {NoVendor}, n \in Names : StartResolve(v, n)
  BY <1>4 DEF StartResolve, Ask, Reading
<1>5. CASE ResolveInVendor \/ ResolveById \/ ResolveByAlias \/ ResolveError
  BY <1>5 DEF ResolveInVendor, ResolveById, ResolveByAlias, ResolveError, Answer,
              readVars, Reading
<1>6. CASE Forget
  BY <1>6 DEF Forget, Reading
<1> QED BY <1>1, <1>2, <1>3, <1>4, <1>5, <1>6 DEF ReadStep

LEMMA ReadingKeepsHistory ==
  ASSUME QueryType, HistoryInv, Reading PROVE HistoryInv'
<1>1. entries' = entries /\ IsFiniteSet(Present(entries)')
  BY DEF Reading, HistoryInv, Present
<1>2. CASE step # "idle" /\ step' # "idle" /\ since' = since
  BY <1>1, <1>2 DEF HistoryInv, Present, SameBut
<1>3. CASE step' # "idle" /\ since' = {entries}
  BY <1>1, <1>3, FS_Singleton DEF HistoryInv, Present, SameBut
<1>4. CASE step' = "idle" /\ since' = {}
  BY <1>1, <1>4, FS_EmptySet DEF HistoryInv, Present, SameBut
<1> QED BY <1>2, <1>3, <1>4 DEF Reading

\* A writer changes one row.
LEMMA ChangeIsOfOne ==
  ASSUME QueryType, NEW x \in Models, Change(x)
  PROVE  /\ entries' \in [Models -> Entries \cup {NoEntry}]
         /\ SameBut(entries, entries', x)
         /\ since' = IF step = "idle" THEN {} ELSE since \cup {entries'}
         /\ UNCHANGED <<step, readVars>>
<1>1. CASE Delete(x)
  BY <1>1 DEF Change, Delete, QueryType, SameBut
<1>2. ASSUME NEW d \in Definitions, Upsert(x, d)
      PROVE  entries' \in [Models -> Entries \cup {NoEntry}] /\ SameBut(entries, entries', x)
  <2>1. PICK g : g = NextGeneration(entries[x])
    OBVIOUS
  <2>2. g \in Nat \ {0}
    BY <2>1 DEF NextGeneration, QueryType, Entries
  <2>3. entries' = [entries EXCEPT ![x] = [definition |-> d, generation |-> g]]
    BY <1>2, <2>1 DEF Upsert
  <2> QED BY <2>2, <2>3 DEF QueryType, Entries, SameBut
<1> QED BY <1>1, <1>2 DEF Change

LEMMA ChangeKeepsHistory ==
  ASSUME QueryType, HistoryInv, NEW x \in Models, Change(x)
  PROVE  HistoryInv'
<1>1. /\ SameBut(entries, entries', x)
      /\ since' = IF step = "idle" THEN {} ELSE since \cup {entries'}
      /\ step' = step
  BY ChangeIsOfOne
<1>2. IsFiniteSet(Present(entries'))
  <2>1. Present(entries') \subseteq Present(entries) \cup {x}
    BY <1>1 DEF SameBut, Present
  <2>2. IsFiniteSet(Present(entries) \cup {x})
    BY FS_AddElement DEF HistoryInv
  <2> QED BY <2>1, <2>2, FS_Subset
<1>3. CASE step = "idle"
  BY <1>1, <1>2, <1>3, FS_EmptySet DEF HistoryInv, Present
<1>4. CASE step # "idle"
  <2>1. entries \in since /\ since' = since \cup {entries'}
    BY <1>1, <1>4 DEF HistoryInv
  <2>2. IsFiniteSet(since')
    BY <2>1, FS_AddElement DEF HistoryInv
  <2>3. ASSUME NEW t1 \in since', NEW t2 \in since', since' = {t1, t2}, t1 # t2
        PROVE  \E y \in Models : SameBut(t1, t2, y)
    <3>1. CASE entries' = entries
      BY <1>4, <2>1, <2>3, <3>1 DEF HistoryInv
    <3>2. CASE entries' # entries
      <4>1. {t1, t2} = {entries, entries'}
        BY <2>1, <2>3, <3>2
      <4>2. SameBut(t1, t2, x)
        BY <1>1, <2>3, <4>1 DEF SameBut
      <4> QED BY <4>2
    <3> QED BY <3>1, <3>2
  <2>4. \A table \in since' : IsFiniteSet(Present(table))
    BY <1>2, <2>1 DEF HistoryInv
  <2> QED BY <1>1, <1>2, <1>4, <2>1, <2>2, <2>3, <2>4 DEF HistoryInv, Present, SameBut
<1> QED BY <1>3, <1>4

LEMMA TypeStep ==
  ASSUME QueryType, HistoryInv, [QueryNext]_queryVars PROVE QueryType' /\ HistoryInv'
<1> USE DEF Listing, Resolving
<1>1. CASE UNCHANGED queryVars
  BY <1>1 DEF queryVars, readVars, QueryType, HistoryInv, Present, SameBut
<1>2. ASSUME NEW x \in Models, Change(x) PROVE QueryType' /\ HistoryInv'
  <2>1. QueryType'
    BY <1>2, ChangeIsOfOne DEF QueryType, readVars
  <2> QED BY <1>2, <2>1, ChangeKeepsHistory
<1>3. ASSUME ReadStep PROVE QueryType' /\ HistoryInv'
  <2>1. Reading
    BY <1>3, ReadStepReads
  <2>2. entries' \in [Models -> Entries \cup {NoEntry}] /\ since' \subseteq [Models -> Entries \cup {NoEntry}]
    BY <2>1 DEF Reading, QueryType
  <2>3. ASSUME NEW f \in Filters, StartList(f) PROVE QueryType'
    BY <2>2, <2>3 DEF StartList, Ask, QueryType
  <2>4. ASSUME NEW n \in Sizes, ReadPage(n) PROVE QueryType'
    <3>1. page' \in Seq(Models)
      BY <2>4, PageIsStart
    <3> QED BY <2>2, <2>4, <3>1 DEF ReadPage, QueryType
  <2>5. ASSUME ReturnPage PROVE QueryType'
    <3>1. page # <<>> => Last(page) \in Models
      BY DEF QueryType, Last
    <3>2. listed' \in Seq(Models) /\ token' \in Models \cup {NoToken}
      BY <2>5, <3>1 DEF ReturnPage, NextToken, QueryType
    <3>3. page' \in Seq(Models) /\ step' \in Listing
      BY <2>5, EmptyIsSeq DEF ReturnPage
    <3> QED BY <2>2, <3>2, <3>3 DEF QueryType
  <2>6. ASSUME ListError PROVE QueryType'
    BY <2>2, <2>6, EmptyIsSeq DEF ListError, QueryType
  <2>7. ASSUME NEW v \in Vendors \cup {NoVendor}, NEW n \in Names, StartResolve(v, n)
        PROVE  QueryType'
    BY <2>2, <2>7 DEF StartResolve, Ask, QueryType
  <2>8. ASSUME ResolveInVendor \/ ResolveById \/ ResolveByAlias \/ ResolveError
        PROVE  QueryType'
    <3>1. step' \in Resolving /\ UNCHANGED <<token, page, listed>>
      BY <2>8 DEF ResolveInVendor, ResolveById, ResolveByAlias, ResolveError, Answer, readVars
    <3> QED BY <2>2, <3>1 DEF QueryType
  <2>9. ASSUME Forget PROVE QueryType'
    BY <2>2, <2>9, EmptyIsSeq DEF Forget, QueryType
  <2>10. QueryType'
    BY <1>3, <2>3, <2>4, <2>5, <2>6, <2>7, <2>8, <2>9 DEF ReadStep
  <2> QED BY <2>1, <2>10, ReadingKeepsHistory
<1> QED BY <1>1, <1>2, <1>3 DEF QueryNext

-----------------------------------------------------------------------------
(* The listing.                                                            *)

LEMMA NoListing ==
  ASSUME step' \notin Listing, listed' = <<>>, token' = NoToken
  PROVE  ListedInv' /\ PageInv'
BY EmptyIsSeq DEF ListedInv, PageInv, Sorted, Matched, Listing

\* More history asks less of a listing.
LEMMA MoreHistory ==
  ASSUME since \subseteq since', request' = request
  PROVE  \A m : AlwaysMatched(m)' => AlwaysMatched(m)
BY DEF AlwaysMatched

LEMMA ListingInit == QueryInit => ListedInv /\ PageInv
BY EmptyIsSeq DEF QueryInit, ListedInv, PageInv, Sorted, Matched, Listing

LEMMA ChangeKeepsListing ==
  ASSUME QueryType, ListedInv, PageInv, NEW x \in Models, Change(x)
  PROVE  ListedInv' /\ PageInv'
<1>1. /\ since' = IF step = "idle" THEN {} ELSE since \cup {entries'}
      /\ UNCHANGED <<step, request, token, page, more, listed>>
  BY ChangeIsOfOne DEF readVars
<1>2. CASE step = "idle"
  BY <1>1, <1>2, NoListing DEF ListedInv, Listing
<1>3. CASE step # "idle"
  <2>1. since \subseteq since'
    BY <1>1, <1>3
  <2>2. /\ \A m : AlwaysMatched(m)' => AlwaysMatched(m)
        /\ Matched(listed)'
        /\ Matched(page) => Matched(page)'
    <3>1. Matched(listed)'
      BY <1>1, <2>1 DEF ListedInv, Matched
    <3>2. Matched(page) => Matched(page)'
      BY <1>1, <2>1 DEF Matched
    <3> QED BY <1>1, <2>1, <3>1, <3>2, MoreHistory
  <2>3. \A m : Beyond(m)' <=> Beyond(m)
    BY <1>1 DEF Beyond
  <2>4. ListedInv'
    BY <1>1, <2>2, <2>3 DEF ListedInv, Sorted
  <2>5. PageInv'
    BY <1>1, <2>2, <2>3 DEF PageInv, Sorted
  <2> QED BY <2>4, <2>5
<1> QED BY <1>2, <1>3

LEMMA ReadPageKeepsListing ==
  ASSUME QueryType, HistoryInv, ListedInv, NEW n \in Sizes, ReadPage(n)
  PROVE  ListedInv' /\ PageInv'
<1>1. /\ step = "listing" /\ step' = "sourcing"
      /\ UNCHANGED <<request, token, listed, since>>
      /\ entries \in since
  BY DEF ReadPage, HistoryInv
<1>2. \A m : (Beyond(m)' <=> Beyond(m)) /\ (AlwaysMatched(m)' <=> AlwaysMatched(m))
  BY <1>1 DEF Beyond, AlwaysMatched
<1>3. ListedInv'
  BY <1>1, <1>2 DEF ListedInv, Sorted, Matched, Listing
<1>4. Matched(page)'
  BY <1>1, PageIsStart DEF Matched
<1>5. \A m : AlwaysMatched(m) => m \in Matching(entries, request.filter)
  BY <1>1 DEF AlwaysMatched
<1>6. PageInv'
  BY <1>2, <1>4, <1>5, PageIsStart DEF PageInv, Sorted
<1> QED BY <1>3, <1>6

LEMMA ReturnPageKeepsListing ==
  ASSUME QueryType, ListedInv, PageInv, ReturnPage
  PROVE  ListedInv' /\ PageInv'
<1>1. /\ step = "sourcing"
      /\ listed' = listed \o page
      /\ token' = NextToken
      /\ step' = IF NextToken = NoToken THEN "listed" ELSE "listing"
      /\ UNCHANGED <<request, since>>
  BY DEF ReturnPage
<1>2. PICK L, P : L = Len(listed) /\ P = Len(page)
  OBVIOUS
<1>3. /\ L \in Nat /\ P \in Nat
      /\ DOMAIN listed = 1 .. L /\ DOMAIN page = 1 .. P
      /\ \A i \in 1 .. L : listed[i] \in Models
      /\ \A i \in 1 .. P : page[i] \in Models
      /\ Len(listed') = L + P /\ DOMAIN listed' = 1 .. L + P
      /\ \A i \in 1 .. L : listed'[i] = listed[i]
      /\ \A i \in 1 .. P : listed'[L + i] = page[i]
      /\ listed = <<>> <=> L = 0
      /\ page = <<>> <=> P = 0
  BY <1>1, <1>2 DEF QueryType
<1>4. \A i \in 1 .. L + P : \/ i \in 1 .. L /\ listed'[i] = listed[i]
                            \/ i - L \in 1 .. P /\ listed'[i] = page[i - L]
  BY <1>3
<1>5. \A i \in 1 .. L, j \in 1 .. P : Rank[listed[i]] < Rank[page[j]]
  <2> SUFFICES ASSUME NEW i \in 1 .. L, NEW j \in 1 .. P
               PROVE  Rank[listed[i]] < Rank[page[j]]
    OBVIOUS
  <2>1. token = listed[L]
    BY <1>1, <1>2, <1>3 DEF ListedInv, Last
  <2>2. i = L \/ Rank[listed[i]] < Rank[listed[L]]
    BY <1>3 DEF ListedInv, Sorted
  <2>3. L \in 1 .. L /\ token # NoToken
    BY <1>3, <2>1, QueryAssumption
  <2>4. Beyond(page[j])
    BY <1>1, <1>3 DEF PageInv
  <2>5. Rank[page[j]] > Rank[listed[L]]
    BY <2>1, <2>3, <2>4 DEF Beyond
  <2> QED BY <1>3, <2>2, <2>3, <2>5, RanksType
<1>6. Sorted(listed)'
  <2> SUFFICES ASSUME NEW i \in 1 .. L + P, NEW j \in 1 .. L + P, i < j
               PROVE  Rank[listed'[i]] < Rank[listed'[j]]
    BY <1>3 DEF Sorted
  <2>1. CASE j \in 1 .. L
    BY <1>3, <2>1 DEF ListedInv, Sorted
  <2>2. CASE i \in 1 .. L /\ j - L \in 1 .. P
    BY <1>4, <1>5, <1>3, <2>2
  <2>3. CASE i - L \in 1 .. P
    <3>1. j - L \in 1 .. P /\ i - L < j - L
      BY <1>3, <2>3
    <3>2. Rank[page[i - L]] < Rank[page[j - L]]
      BY <1>1, <1>3, <2>3, <3>1 DEF PageInv, Sorted
    <3> QED BY <1>3, <1>4, <2>3, <3>1, <3>2
  <2> QED BY <1>3, <1>4, <2>1, <2>2, <2>3
<1>7. Matched(listed)'
  <2> SUFFICES ASSUME NEW i \in 1 .. L + P
               PROVE  \E table \in since : listed'[i] \in Matching(table, request.filter)
    BY <1>1, <1>3 DEF Matched
  <2>1. CASE i \in 1 .. L /\ listed'[i] = listed[i]
    BY <1>3, <2>1 DEF ListedInv, Matched
  <2>2. CASE i - L \in 1 .. P /\ listed'[i] = page[i - L]
    BY <1>1, <1>3, <2>2 DEF PageInv, Matched
  <2> QED BY <1>4, <2>1, <2>2
<1>8. /\ \A m : Contains(listed, m) \/ Contains(page, m) => Contains(listed', m)
      /\ \A m : AlwaysMatched(m)' <=> AlwaysMatched(m)
  <2>1. ASSUME NEW m, Contains(listed, m) PROVE Contains(listed', m)
    <3>1. PICK i \in 1 .. L : listed[i] = m
      BY <1>2, <2>1 DEF Contains
    <3>2. i \in 1 .. L + P /\ listed'[i] = m
      BY <1>3, <3>1
    <3> QED BY <1>3, <3>2 DEF Contains
  <2>2. ASSUME NEW m, Contains(page, m) PROVE Contains(listed', m)
    <3>1. PICK i \in 1 .. P : page[i] = m
      BY <1>2, <2>2 DEF Contains
    <3>2. L + i \in 1 .. L + P /\ listed'[L + i] = m
      BY <1>3, <3>1
    <3> QED BY <1>3, <3>2 DEF Contains
  <2>3. \A m : AlwaysMatched(m)' <=> AlwaysMatched(m)
    BY <1>1 DEF AlwaysMatched
  <2> QED BY <2>1, <2>2, <2>3
<1>9. ASSUME NEW m \in Models, AlwaysMatched(m)
      PROVE  \/ Contains(listed', m)
             \/ more /\ page # <<>> /\ Rank[m] > Rank[Last(page)]
  BY <1>1, <1>8, <1>9 DEF ListedInv, PageInv
<1>10. CASE NextToken = NoToken
  <2>1. ~ (more /\ page # <<>>)
    <3>1. page # <<>> => Last(page) \in Models
      BY <1>2, <1>3 DEF Last
    <3> QED BY <1>10, <3>1, QueryAssumption DEF NextToken
  <2>2. step' = "listed"
    BY <1>1, <1>10
  <2> QED BY <1>6, <1>7, <1>8, <1>9, <2>1, <2>2 DEF ListedInv, PageInv, Listing
<1>11. CASE NextToken # NoToken
  <2>1. /\ more /\ page # <<>>
        /\ token' = Last(page)
        /\ step' = "listing"
    BY <1>1, <1>11 DEF NextToken
  <2>2. /\ Last(page) = page[P] /\ P \in 1 .. P /\ listed' # <<>> /\ Last(listed') = page[P]
    <3>1. P # 0 /\ P \in 1 .. P
      BY <1>3, <2>1
    <3>2. listed'[L + P] = page[P]
      BY <1>3, <3>1
    <3>3. listed' # <<>>
      BY <1>3, <3>1, EmptyIsSeq
    <3> QED BY <1>2, <1>3, <3>1, <3>2, <3>3 DEF Last
  <2>3. ASSUME NEW m \in Models, AlwaysMatched(m), ~ Beyond(m)' PROVE Contains(listed', m)
    <3>1. ~ (Rank[m] > Rank[Last(page)])
      BY <2>1, <2>3 DEF Beyond
    <3> QED BY <1>9, <2>3, <3>1
  <2> QED BY <1>6, <1>7, <1>8, <2>1, <2>2, <2>3 DEF ListedInv, PageInv, Listing
<1> QED BY <1>10, <1>11

LEMMA ListingStep ==
  ASSUME QueryType, HistoryInv, ListedInv, PageInv, [QueryNext]_queryVars
  PROVE  ListedInv' /\ PageInv'
<1>1. CASE UNCHANGED queryVars
  BY <1>1 DEF queryVars, readVars, ListedInv, PageInv, Sorted, Matched, AlwaysMatched, Beyond
<1>2. ASSUME NEW x \in Models, Change(x) PROVE ListedInv' /\ PageInv'
  BY <1>2, ChangeKeepsListing
<1>3. ASSUME NEW f \in Filters, StartList(f) PROVE ListedInv' /\ PageInv'
  <2>1. listed' = <<>> /\ token' = NoToken /\ step' = "listing"
    BY <1>3 DEF StartList, Ask, ListedInv, Listing
  <2> QED BY <2>1, EmptyIsSeq DEF ListedInv, PageInv, Sorted, Matched, Beyond, Listing
<1>4. ASSUME NEW n \in Sizes, ReadPage(n) PROVE ListedInv' /\ PageInv'
  BY <1>4, ReadPageKeepsListing
<1>5. ASSUME ReturnPage PROVE ListedInv' /\ PageInv'
  BY <1>5, ReturnPageKeepsListing
<1>6. ASSUME ListError PROVE ListedInv' /\ PageInv'
  <2>1. /\ step = "sourcing" /\ step' = "listing"
        /\ UNCHANGED <<request, token, listed, since>>
    BY <1>6 DEF ListError
  <2> QED BY <2>1 DEF ListedInv, PageInv, Sorted, Matched, AlwaysMatched, Beyond, Listing
<1>7. ASSUME NEW v \in Vendors \cup {NoVendor}, NEW n \in Names, StartResolve(v, n)
      PROVE  ListedInv' /\ PageInv'
  BY <1>7, NoListing DEF StartResolve, Ask, ListedInv, Listing
<1>8. ASSUME ResolveInVendor \/ ResolveById \/ ResolveByAlias \/ ResolveError
      PROVE  ListedInv' /\ PageInv'
  <2>1. step \notin Listing /\ step' \notin Listing /\ UNCHANGED <<listed, token>>
    BY <1>8 DEF ResolveInVendor, ResolveById, ResolveByAlias, ResolveError, Answer,
                readVars, Listing
  <2> QED BY <2>1, NoListing DEF ListedInv
<1>9. ASSUME Forget PROVE ListedInv' /\ PageInv'
  BY <1>9, NoListing DEF Forget, Listing
<1> QED BY <1>1, <1>2, <1>3, <1>4, <1>5, <1>6, <1>7, <1>8, <1>9 DEF QueryNext, ReadStep

-----------------------------------------------------------------------------
(* The answer.                                                             *)

LEMMA AnswerInit == QueryInit => AnswerInv
BY DEF QueryInit, AnswerInv, Answered

\* The answers that come from one statement.
LEMMA AnsweringKeepsInv ==
  ASSUME HistoryInv, AnswerInv, ResolveInVendor \/ ResolveById \/ ResolveByAlias \/ ResolveError
  PROVE  AnswerInv'
<1> DEFINE n == request.name
<1>1. entries \in since /\ since' = since /\ request' = request
  BY DEF ResolveInVendor, ResolveById, ResolveByAlias, ResolveError, Answer, readVars, HistoryInv
<1>2. Meanings' = Meanings
  BY <1>1 DEF Meanings
<1>3. Meaning(entries, request.vendor, n) \in Meanings
  BY <1>1 DEF Meanings
<1>4. CASE ResolveInVendor
  <2>1. step' = "answered" /\ answer' = Meaning(entries, request.vendor, n)
    BY <1>4 DEF ResolveInVendor, Answer, AnswerInv, Meaning
  <2> QED BY <1>2, <1>3, <2>1 DEF AnswerInv
<1>5. CASE ResolveById /\ HasId(entries, n) = {}
  <2>1. step' = "byAlias" /\ request.vendor = NoVendor
    BY <1>5 DEF ResolveById, AnswerInv
  <2> QED BY <1>1, <1>5, <2>1 DEF AnswerInv, Answered
<1>6. CASE ResolveById /\ HasId(entries, n) # {}
  <2>1. step' = "answered" /\ answer' = Meaning(entries, request.vendor, n)
    BY <1>6 DEF ResolveById, Answer, AnswerInv, Meaning
  <2> QED BY <1>2, <1>3, <2>1 DEF AnswerInv
<1>7. CASE ResolveByAlias
  <2>1. step' = "answered" /\ answer' = AliasMeaning(entries, n) /\ request.vendor = NoVendor
    BY <1>7 DEF ResolveByAlias, Answer, AnswerInv, AliasMeaning
  <2>2. \E table \in since : HasId(table, n) = {}
    BY <1>7 DEF ResolveByAlias, AnswerInv
  <2> QED BY <1>1, <2>1, <2>2 DEF AnswerInv
<1>8. CASE ResolveError
  BY <1>8 DEF ResolveError, Answer, AnswerInv, Answered
<1> QED BY <1>4, <1>5, <1>6, <1>7, <1>8

LEMMA AnswerStep ==
  ASSUME QueryType, HistoryInv, AnswerInv, [QueryNext]_queryVars
  PROVE  AnswerInv'
<1>1. CASE UNCHANGED queryVars
  BY <1>1 DEF queryVars, readVars, AnswerInv, Answered, Meanings
<1>2. ASSUME NEW x \in Models, Change(x) PROVE AnswerInv'
  <2>1. /\ since' = IF step = "idle" THEN {} ELSE since \cup {entries'}
        /\ UNCHANGED <<step, request, answer>>
    BY <1>2, ChangeIsOfOne DEF readVars
  <2>2. step # "idle" => since \subseteq since'
    BY <2>1
  <2>3. step # "idle" => Meanings \subseteq Meanings'
    BY <2>1, <2>2 DEF Meanings
  <2> QED BY <2>1, <2>2, <2>3 DEF AnswerInv, Answered
<1>3. ASSUME NEW v \in Vendors \cup {NoVendor}, NEW n \in Names, StartResolve(v, n)
      PROVE  AnswerInv'
  <2>1. request'.vendor = v /\ step' = IF v = NoVendor THEN "byId" ELSE "byVendor"
    BY <1>3 DEF StartResolve, Ask
  <2> QED BY <2>1 DEF AnswerInv, Answered
<1>4. ASSUME ResolveInVendor \/ ResolveById \/ ResolveByAlias \/ ResolveError
      PROVE  AnswerInv'
  BY <1>4, AnsweringKeepsInv
<1>5. ASSUME \/ \E f \in Filters : StartList(f)
             \/ \E n \in Sizes : ReadPage(n)
             \/ ReturnPage \/ ListError \/ Forget
      PROVE  AnswerInv'
  <2>1. step' \notin Resolving
    BY <1>5 DEF StartList, ReadPage, ReturnPage, ListError, Forget, Resolving
  <2> QED BY <2>1 DEF AnswerInv, Answered, Resolving
<1> QED BY <1>1, <1>2, <1>3, <1>4, <1>5 DEF QueryNext, ReadStep

LEMMA QueryInvariant == QuerySpec => []QueryInv
<1>1. QueryInit => QueryInv
  BY TypeInit, ListingInit, AnswerInit DEF QueryInv
<1>2. QueryInv /\ [QueryNext]_queryVars => QueryInv'
  BY TypeStep, ListingStep, AnswerStep DEF QueryInv
<1> QED BY <1>1, <1>2, PTL DEF QuerySpec

-----------------------------------------------------------------------------
(***************************************************************************)
(* A complete listing (list_query.go, one statement a page) has every      *)
(* model that matched all the while, none twice, in order, and none that   *)
(* never matched, whatever page sizes the client asks with and however the *)
(* registry changes between two pages.                                     *)
(***************************************************************************)
THEOREM ListingsAreExact == QuerySpec => []ListingIsExact
<1>1. QueryInv => ListingIsExact
  <2> SUFFICES ASSUME QueryInv PROVE ListingIsExact
    OBVIOUS
  <2>1. step = "listed" => \A m \in Models : AlwaysMatched(m) => Contains(listed, m)
    BY DEF QueryInv, ListedInv
  <2>2. \A m \in Range(listed) : \E table \in since : m \in Matching(table, request.filter)
    BY DEF QueryInv, ListedInv, Matched, Range
  <2> QED BY <2>1, <2>2 DEF ListingIsExact, QueryInv, ListedInv, Sorted, AlwaysMatched
<1> QED BY <1>1, QueryInvariant, PTL

\* Only one model is a unique one.
LEMMA UniqueIsOne ==
  ASSUME NEW S, IsFiniteSet(S), NEW m, Unique(S) = Ref(m)
  PROVE  S = {m}
<1>1. Cardinality(S) = 1
  BY DEF Unique, Ref
<1>2. PICK x : S = {x}
  BY <1>1, FS_Singleton
<1>3. Unique(S) = Ref(x)
  BY <1>1, <1>2 DEF Unique
<1>4. \A y : Ref(y).model = y
  BY DEF Ref
<1>5. Ref(x).model = Ref(m).model
  BY <1>3
<1> QED BY <1>2, <1>4, <1>5

\* What a name means without a vendor is the one model with that id or, when
\* no model has it, with that alias.
LEMMA MeaningIsOne ==
  ASSUME HistoryInv, NEW table \in since, NEW n, NEW m, Meaning(table, NoVendor, n) = Ref(m)
  PROVE  /\ m \in Present(table)
         /\ HasId(table, n) # {} => HasId(table, n) = {m} /\ m[2] = n
         /\ HasId(table, n) = {} => HasAlias(table, n) = {m} /\ n \in Aliases[table[m].definition]
<1>1. IsFiniteSet(HasId(table, n)) /\ IsFiniteSet(HasAlias(table, n))
  BY FS_Subset DEF HistoryInv, HasId, HasAlias
<1>2. CASE HasId(table, n) # {}
  <2>1. HasId(table, n) = {m}
    BY <1>1, <1>2, UniqueIsOne DEF Meaning
  <2> QED BY <1>2, <2>1 DEF HasId
<1>3. CASE HasId(table, n) = {}
  <2>1. HasAlias(table, n) # {}
    BY <1>3 DEF Meaning, Ref
  <2>2. HasAlias(table, n) = {m}
    BY <1>1, <1>3, <2>1, UniqueIsOne DEF Meaning
  <2> QED BY <1>3, <2>2 DEF HasAlias
<1> QED BY <1>2, <1>3

(***************************************************************************)
(* Who searches for a word that names one model all the while, be it by id *)
(* or by alias, has the model in the listing (addSearch and ListModels     *)
(* against ResolveModelRef).                                               *)
(***************************************************************************)
THEOREM SearchesFindNames == QuerySpec => []SearchFindsName
<1>1. QueryInv => SearchFindsName
  <2> SUFFICES ASSUME QueryInv, step = "listed",
                      NEW m \in Models, NEW w \in Words \cap Names,
                      request.filter = WordFilter(w),
                      \A table \in since : Meaning(table, NoVendor, w) = Ref(m)
               PROVE  Contains(listed, m)
    BY DEF SearchFindsName
  <2>1. ASSUME NEW table \in since PROVE m \in Matching(table, request.filter)
    <3>1. /\ m \in Present(table)
          /\ m[2] = w \/ w \in Aliases[table[m].definition]
      BY MeaningIsOne DEF QueryInv
    <3>2. w \in Searched(m, table[m].definition) \cap Containing[w]
      BY <3>1, QueryAssumption DEF Searched
    <3>3. Picks(WordFilter(w), m, table[m].definition)
      BY <3>2 DEF Picks, WordFilter
    <3> QED BY <3>1, <3>3 DEF Matching, Picked, WordFilter
  <2>2. AlwaysMatched(m)
    BY <2>1 DEF AlwaysMatched
  <2> QED BY <2>2 DEF QueryInv, ListedInv
<1> QED BY <1>1, QueryInvariant, PTL

(***************************************************************************)
(* A name that means the same model all through the call resolves to it    *)
(* (ResolveModelRef), although ids and aliases are read by two statements: *)
(* a model found by its id in one table and by its alias in another is no  *)
(* such model, because its id is its own.                                  *)
(***************************************************************************)
THEOREM StableNamesResolve == QuerySpec => []StableNameResolves
<1>1. QueryInv => StableNameResolves
  <2> SUFFICES ASSUME QueryInv, Answered, NEW m \in Models, Meanings = {Ref(m)}
               PROVE  answer = Ref(m)
    BY DEF StableNameResolves
  <2> DEFINE n == request.name
  <2>1. CASE answer \in Meanings
    BY <2>1
  <2>2. ASSUME request.vendor = NoVendor, NEW t1 \in since, NEW t2 \in since,
               HasId(t1, n) = {}, answer = AliasMeaning(t2, n)
        PROVE  answer = Ref(m)
    <3>1. Meaning(t1, NoVendor, n) = Ref(m) /\ Meaning(t2, NoVendor, n) = Ref(m)
      BY <2>2 DEF Meanings
    <3>2. m \in Present(t1)
      BY <3>1, MeaningIsOne DEF QueryInv
    <3>3. m[2] # n
      BY <2>2, <3>2 DEF HasId
    <3>4. HasId(t2, n) = {}
      BY <3>1, <3>3, MeaningIsOne DEF QueryInv
    <3> QED BY <2>2, <3>1, <3>4 DEF Meaning, AliasMeaning
  <2> QED BY <2>1, <2>2 DEF QueryInv, AnswerInv
<1> QED BY <1>1, QueryInvariant, PTL

(***************************************************************************)
(* If the table changed at most once during the call, the answer was right *)
(* before or after that change; with a vendor, whose lookup is a single    *)
(* statement, it always was.                                               *)
(***************************************************************************)
THEOREM AnswersWereRight == QuerySpec => []AnswerWasRight
<1>1. QueryInv => AnswerWasRight
  <2> SUFFICES ASSUME QueryInv, Answered, answer.kind # "ambiguous",
                      request.vendor = NoVendor => Cardinality(since) <= 2
               PROVE  answer \in Meanings
    BY DEF AnswerWasRight
  <2> DEFINE n == request.name
  <2>1. CASE answer \in Meanings
    BY <2>1
  <2>2. ASSUME request.vendor = NoVendor, NEW t1 \in since, NEW t2 \in since,
               HasId(t1, n) = {}, answer = AliasMeaning(t2, n)
        PROVE  answer \in Meanings
    <3>1. Meaning(t1, NoVendor, n) \in Meanings /\ Meaning(t2, NoVendor, n) \in Meanings
      BY <2>2 DEF Meanings
    <3>2. IsFiniteSet(HasAlias(t2, n))
      BY FS_Subset DEF QueryInv, HistoryInv, HasAlias
    <3>3. CASE HasId(t2, n) = {}
      BY <2>2, <3>1, <3>3 DEF Meaning, AliasMeaning
    <3>4. CASE HasId(t2, n) # {}
      <4>1. since = {t1, t2}
        <5>1. t1 # t2
          BY <2>2, <3>4
        <5>2. Cardinality({t1, t2}) = 2
          <6>1. {t1, t2} = {t1} \cup {t2} /\ t2 \notin {t1}
            BY <5>1
          <6>2. IsFiniteSet({t1}) /\ Cardinality({t1}) = 1
            BY FS_Singleton
          <6>3. Cardinality({t1} \cup {t2}) = Cardinality({t1}) + 1
            BY <6>1, <6>2, FS_AddElement
          <6> QED BY <6>1, <6>2, <6>3
        <5>3. IsFiniteSet(since) /\ {t1, t2} \in SUBSET since /\ Cardinality(since) \in Nat
          BY FS_CardinalityType DEF QueryInv, HistoryInv
        <5>4. Cardinality({t1, t2}) <= Cardinality(since)
          BY <5>3, FS_Subset
        <5>5. Cardinality(since) = Cardinality({t1, t2})
          BY <2>2, <5>2, <5>3, <5>4
        <5> QED BY <5>3, <5>5, FS_Subset
      <4>2. PICK x \in Models : SameBut(t1, t2, x)
        BY <2>2, <3>4, <4>1 DEF QueryInv, HistoryInv
      <4>3. x[2] = n /\ x \notin Present(t1) /\ x \in Present(t2) /\ HasId(t2, n) = {x}
        BY <2>2, <3>4, <4>2 DEF SameBut, HasId, Present
      <4>4. HasAlias(t1, n) = HasAlias(t2, n) \ {x}
        BY <4>2, <4>3 DEF SameBut, HasAlias, Present
      <4>5. CASE HasAlias(t2, n) = {}
        BY <2>2, <3>1, <4>4, <4>5 DEF AliasMeaning, Meaning
      <4>6. CASE HasAlias(t2, n) # {}
        <5>1. Cardinality(HasAlias(t2, n)) = 1
          BY <2>2, <4>6 DEF AliasMeaning, Unique
        <5>2. PICK y : HasAlias(t2, n) = {y}
          BY <3>2, <5>1, FS_Singleton
        <5>3. CASE y = x
          BY <2>2, <3>1, <4>3, <4>6, <5>2, <5>3 DEF AliasMeaning, Meaning
        <5>4. CASE y # x
          <6>1. HasAlias(t1, n) = HasAlias(t2, n)
            BY <4>4, <5>2, <5>4
          <6> QED BY <2>2, <3>1, <4>6, <6>1 DEF AliasMeaning, Meaning
        <5> QED BY <5>3, <5>4
      <4> QED BY <4>5, <4>6
    <3> QED BY <3>3, <3>4
  <2> QED BY <2>1, <2>2 DEF QueryInv, AnswerInv
<1> QED BY <1>1, QueryInvariant, PTL

=============================================================================
