------------------------ MODULE ResourceListingProofs ------------------------
(***************************************************************************)
(* Walks through resources/list are sound for any table, page size and     *)
(* number of changes: the inductive invariant IInv of ResourceListing, and *)
(* from it that keyset pages do not repeat a resource, and that neither    *)
(* mode passes over one, under the conditions the properties state.        *)
(***************************************************************************)
EXTENDS ResourceListing, FiniteSetTheorems, WellFoundedInduction, TLAPS

USE ListingAssumption

-------------------------------------------------------------------------------
(* Least and greatest elements *)

\* Every nonempty set of naturals has a least element.
LEMMA Least ==
  ASSUME NEW S \in SUBSET Nat, S # {}
  PROVE  \E x \in S : \A y \in S : x <= y
<1>1. PICK R : R = OpToRel(<, Nat)
  OBVIOUS
<1>2. IsWellFoundedOn(R, Nat)
  BY <1>1, NatLessThanWellFounded
<1>3. PICK x \in S : \A y \in S : <<y, x>> \notin R
  BY <1>2, WFMin
<1>4. \A y \in Nat, z \in Nat : y < z => <<y, z>> \in R
  BY <1>1 DEF OpToRel
<1>5. ASSUME NEW y \in S
      PROVE  x <= y
  <2>1. x \in Nat /\ y \in Nat /\ ~(y < x)
    BY <1>3, <1>4
  <2>. QED
    BY <2>1
<1>. QED
  BY <1>5

\* The rows before a row.
LEMMA BeforeType ==
  ASSUME NEW S \in SUBSET Keys, NEW k \in Keys
  PROVE  /\ IsFiniteSet(S) /\ Cardinality(S) \in Nat
         /\ IsFiniteSet(Before(k, S)) /\ Cardinality(Before(k, S)) \in Nat
         /\ Cardinality(Before(k, S)) <= Cardinality(S)
<1>1. IsFiniteSet(S)
  BY FS_Subset
<1>2. Before(k, S) \in SUBSET S
  BY DEF Before
<1>. QED
  BY <1>1, <1>2, FS_Subset, FS_CardinalityType

\* A row has more rows before it than the rows before it have.
LEMMA RankOrder ==
  ASSUME NEW S \in SUBSET Keys, NEW j \in S, NEW k \in Keys, j < k
  PROVE  Cardinality(Before(j, S)) < Cardinality(Before(k, S))
<1>1. Before(j, S) \cup {j} \in SUBSET Before(k, S) /\ j \notin Before(j, S)
  <2>1. S \subseteq Nat /\ j \in Nat /\ k \in Nat
    OBVIOUS
  <2>2. ASSUME NEW i \in S, i < j
        PROVE  i < k
    BY <2>1, <2>2
  <2>3. Before(j, S) \subseteq Before(k, S) /\ j \in Before(k, S)
    BY <2>2 DEF Before
  <2>4. j \notin Before(j, S)
    BY <2>1 DEF Before
  <2>. QED
    BY <2>3, <2>4
<1>2. Cardinality(Before(j, S) \cup {j}) = Cardinality(Before(j, S)) + 1
  BY <1>1, BeforeType, FS_AddElement
<1>3. Cardinality(Before(j, S) \cup {j}) <= Cardinality(Before(k, S))
  BY <1>1, BeforeType, FS_Subset
<1>. QED
  BY <1>2, <1>3, BeforeType

\* Max is the greatest row.
LEMMA MaxIs ==
  ASSUME NEW S \in SUBSET Keys, S # {}
  PROVE  Max(S) \in S /\ \A k \in S : k <= Max(S)
<1>. DEFINE After(k) == Cardinality(S) - Cardinality(Before(k, S))
<1>1. \A k \in S : After(k) \in Nat
  BY BeforeType
<1>2. PICK n \in {After(k) : k \in S} : \A m \in {After(k) : k \in S} : n <= m
  <2>1. {After(k) : k \in S} \in SUBSET Nat /\ {After(k) : k \in S} # {}
    BY <1>1
  <2>. QED
    BY <2>1, Least
<1>3. PICK x \in S : n = After(x)
  BY <1>2
<1>4. ASSUME NEW k \in S
      PROVE  k <= x
  <2>1. After(x) <= After(k)
    BY <1>2, <1>3
  <2>2. ~(x < k)
    <3>1. ASSUME x < k
          PROVE  FALSE
      <4>1. Cardinality(Before(x, S)) < Cardinality(Before(k, S))
        BY <3>1, RankOrder
      <4>. QED
        BY <2>1, <4>1, BeforeType
    <3>. QED
      BY <3>1
  <2>. QED
    BY <2>2
<1>5. \E y \in S : \A k \in S : y >= k
  BY <1>4
<1>. QED
  BY <1>5 DEF Max

-------------------------------------------------------------------------------
(* The rows of a page *)

LEMMA FirstRowsType ==
  ASSUME NEW S \in SUBSET Keys, NEW n \in Nat
  PROVE  /\ FirstRows(S, n) \in SUBSET S
         /\ IsFiniteSet(FirstRows(S, n)) /\ Cardinality(FirstRows(S, n)) \in Nat
<1>1. FirstRows(S, n) \in SUBSET S
  BY DEF FirstRows
<1>. QED
  BY <1>1, BeforeType, FS_Subset, FS_CardinalityType

\* A page leaves out no row before one it has.
LEMMA FirstRowsClosed ==
  ASSUME NEW S \in SUBSET Keys, NEW n \in Nat,
         NEW k \in FirstRows(S, n), NEW j \in S, j <= k
  PROVE  j \in FirstRows(S, n)
<1>1. k \in S /\ Cardinality(Before(k, S)) < n
  BY DEF FirstRows
<1>2. j = k \/ j < k
  BY <1>1
<1>3. Cardinality(Before(j, S)) < n
  <2>1. CASE j = k
    BY <1>1, <2>1
  <2>2. CASE j < k
    <3>1. Cardinality(Before(j, S)) < Cardinality(Before(k, S))
      BY <1>1, <2>2, RankOrder
    <3>. QED
      BY <1>1, <3>1, BeforeType
  <2>. QED
    BY <1>2, <2>1, <2>2
<1>. QED
  BY <1>3 DEF FirstRows

\* A page that is short has all rows.
LEMMA ShortPage ==
  ASSUME NEW S \in SUBSET Keys, NEW n \in Nat, Cardinality(FirstRows(S, n)) < n
  PROVE  FirstRows(S, n) = S
<1>. DEFINE rest == S \ FirstRows(S, n)
<1>. SUFFICES ASSUME rest # {}
              PROVE  FALSE
  BY DEF FirstRows
<1>1. PICK k \in rest : \A j \in rest : k <= j
  BY Least
<1>2. Before(k, S) \in SUBSET FirstRows(S, n)
  <2>1. S \subseteq Nat
    OBVIOUS
  <2>2. ASSUME NEW j \in Before(k, S), j \notin FirstRows(S, n)
        PROVE  FALSE
    <3>1. j \in rest /\ j < k /\ j \in Nat /\ k \in Nat
      BY <2>1, <2>2 DEF Before
    <3>. QED
      BY <1>1, <3>1
  <2>. QED
    BY <2>2
<1>3. Cardinality(Before(k, S)) <= Cardinality(FirstRows(S, n))
  BY <1>2, FirstRowsType, FS_Subset
<1>4. Cardinality(Before(k, S)) < n
  BY <1>3, BeforeType, FirstRowsType
<1>. QED
  BY <1>1, <1>4 DEF FirstRows

\* A page has at most as many rows as were asked for.
LEMMA PageBound ==
  ASSUME NEW S \in SUBSET Keys, NEW n \in Nat
  PROVE  Cardinality(FirstRows(S, n)) <= n
<1>. DEFINE page == FirstRows(S, n)
<1>1. CASE page = {}
  BY <1>1, FS_EmptySet
<1>2. CASE page # {}
  <2>1. PICK m \in page : \A k \in page : k <= m
    BY <1>2, FirstRowsType, MaxIs
  <2>2. m \in S /\ Cardinality(Before(m, S)) < n
    BY <2>1 DEF FirstRows
  <2>3. page \in SUBSET (Before(m, S) \cup {m}) /\ m \notin Before(m, S)
    <3>1. S \subseteq Nat /\ page \subseteq S /\ m \in Nat
      BY <2>2 DEF FirstRows
    <3>2. ASSUME NEW k \in page, k # m
          PROVE  k \in Before(m, S)
      <4>1. k \in S /\ k \in Nat /\ k <= m
        BY <2>1, <3>1
      <4>. QED
        BY <3>1, <3>2, <4>1 DEF Before
    <3>3. m \notin Before(m, S)
      BY <3>1 DEF Before
    <3>. QED
      BY <3>2, <3>3
  <2>4. /\ IsFiniteSet(Before(m, S) \cup {m})
        /\ Cardinality(Before(m, S) \cup {m}) = Cardinality(Before(m, S)) + 1
    BY <2>2, <2>3, BeforeType, FS_AddElement
  <2>5. Cardinality(page) <= Cardinality(Before(m, S)) + 1
    BY <2>3, <2>4, FS_Subset
  <2>6. Cardinality(Before(m, S)) \in Nat /\ Cardinality(page) \in Nat
    BY <2>2, BeforeType, FirstRowsType
  <2>. QED
    BY <2>2, <2>5, <2>6
<1>. QED
  BY <1>1, <1>2

\* A page of offset mode: c rows of the table T are skipped, S is left, and at most
\* n rows are shown.  A row on the page is among the first c + n.
LEMMA OnOffsetPage ==
  ASSUME NEW T \in SUBSET Keys, NEW c \in Nat, NEW n \in Nat, NEW S,
         S = {k \in T : Cardinality(Before(k, T)) >= c}, NEW k \in FirstRows(S, n)
  PROVE  Cardinality(Before(k, T)) < c + n
<1>. DEFINE skipped == Before(k, T) \cap FirstRows(T, c)
<1>1. S \in SUBSET Keys /\ k \in S /\ k \in Keys /\ Cardinality(Before(k, S)) < n
  BY DEF FirstRows
<1>2. Before(k, T) \subseteq skipped \cup Before(k, S)
  <2>1. ASSUME NEW j \in Before(k, T), j \notin FirstRows(T, c)
        PROVE  j \in Before(k, S)
    <3>1. j \in T /\ j < k /\ ~(Cardinality(Before(j, T)) < c)
      BY <2>1 DEF Before, FirstRows
    <3>2. Cardinality(Before(j, T)) \in Nat
      BY <3>1, BeforeType
    <3>3. Cardinality(Before(j, T)) >= c
      BY <3>1, <3>2
    <3>. QED
      BY <3>1, <3>3 DEF Before
  <2>. QED
    BY <2>1
<1>3. IsFiniteSet(skipped) /\ Cardinality(skipped) \in Nat /\ Cardinality(skipped) <= c
  <2>1. Cardinality(FirstRows(T, c)) <= c
    BY PageBound
  <2>2. skipped \in SUBSET FirstRows(T, c)
    OBVIOUS
  <2>3. /\ IsFiniteSet(skipped) /\ Cardinality(skipped) <= Cardinality(FirstRows(T, c))
        /\ Cardinality(skipped) \in Nat /\ Cardinality(FirstRows(T, c)) \in Nat
    BY <2>2, FirstRowsType, FS_Subset, FS_CardinalityType
  <2>. QED
    BY <2>1, <2>3
<1>4. IsFiniteSet(Before(k, S)) /\ Cardinality(Before(k, S)) \in Nat
  BY <1>1, BeforeType
<1>5. /\ IsFiniteSet(skipped \cup Before(k, S))
      /\ Cardinality(skipped \cup Before(k, S))
           <= Cardinality(skipped) + Cardinality(Before(k, S))
  <2>1. /\ IsFiniteSet(skipped \cup Before(k, S))
        /\ Cardinality(skipped \cup Before(k, S)) =
             Cardinality(skipped) + Cardinality(Before(k, S))
               - Cardinality(skipped \cap Before(k, S))
    BY <1>3, <1>4, FS_Union
  <2>2. Cardinality(skipped \cap Before(k, S)) \in Nat
    <3>1. skipped \cap Before(k, S) \in SUBSET skipped
      OBVIOUS
    <3>. QED
      BY <1>3, <3>1, FS_Subset, FS_CardinalityType
  <2>. QED
    BY <1>3, <1>4, <2>1, <2>2
<1>6. Cardinality(Before(k, T)) <= Cardinality(skipped \cup Before(k, S))
  BY <1>2, <1>5, FS_Subset
<1>7. Cardinality(skipped \cup Before(k, S)) \in Nat /\ Cardinality(Before(k, T)) \in Nat
  BY <1>1, <1>5, FS_CardinalityType, BeforeType
<1>. QED
  BY <1>1, <1>3, <1>4, <1>5, <1>6, <1>7

\* A row after the page is not among the first c + n.
LEMMA AfterOffsetPage ==
  ASSUME NEW T \in SUBSET Keys, NEW c \in Nat, NEW n \in Nat, NEW S,
         S = {k \in T : Cardinality(Before(k, T)) >= c}, NEW k \in S \ FirstRows(S, n)
  PROVE  Cardinality(Before(k, T)) >= c + n
<1>. DEFINE skipped == FirstRows(T, c)
<1>1. /\ S \in SUBSET Keys /\ k \in T /\ k \in Keys /\ k \in Nat /\ k \notin skipped
      /\ Cardinality(Before(k, S)) \in Nat /\ Cardinality(Before(k, T)) \in Nat
  <2>1. S \in SUBSET Keys /\ k \in T /\ k \in Keys /\ Cardinality(Before(k, T)) >= c
    OBVIOUS
  <2>2. Cardinality(Before(k, S)) \in Nat /\ Cardinality(Before(k, T)) \in Nat
    BY <2>1, BeforeType
  <2>. QED
    BY <2>1, <2>2 DEF FirstRows
<1>2. Cardinality(Before(k, S)) >= n
  BY <1>1 DEF FirstRows
<1>3. /\ IsFiniteSet(skipped) /\ Cardinality(skipped) \in Nat
      /\ Cardinality(skipped) >= c
  <2>1. skipped # T
    BY <1>1
  <2>2. ~(Cardinality(skipped) < c)
    BY <2>1, ShortPage
  <2>3. IsFiniteSet(skipped) /\ Cardinality(skipped) \in Nat
    BY FirstRowsType
  <2>. QED
    BY <2>2, <2>3
<1>4. skipped \subseteq Before(k, T)
  <2>1. ASSUME NEW j \in skipped
        PROVE  j \in Before(k, T)
    <3>1. j \in T /\ j \in Nat
      BY DEF FirstRows
    <3>2. ~(k <= j)
      BY <1>1, FirstRowsClosed
    <3>. QED
      BY <1>1, <3>1, <3>2 DEF Before
  <2>. QED
    BY <2>1
<1>5. Before(k, S) \subseteq Before(k, T) /\ skipped \cap Before(k, S) = {}
  <2>1. ASSUME NEW j \in skipped
        PROVE  j \notin S
    <3>1. j \in T /\ Cardinality(Before(j, T)) < c
      BY DEF FirstRows
    <3>2. Cardinality(Before(j, T)) \in Nat
      BY <3>1, BeforeType
    <3>. QED
      BY <3>1, <3>2
  <2>. QED
    BY <2>1 DEF Before
<1>6. Cardinality(skipped \cup Before(k, S)) = Cardinality(skipped) + Cardinality(Before(k, S))
  <2>1. IsFiniteSet(Before(k, S))
    BY <1>1, BeforeType
  <2>2. Cardinality(skipped \cup Before(k, S)) =
          Cardinality(skipped) + Cardinality(Before(k, S)) - Cardinality(skipped \cap Before(k, S))
    BY <1>3, <2>1, FS_Union
  <2>3. Cardinality(skipped \cap Before(k, S)) = 0
    BY <1>5, FS_EmptySet
  <2>. QED
    BY <1>1, <1>3, <2>2, <2>3
<1>7. Cardinality(skipped \cup Before(k, S)) <= Cardinality(Before(k, T))
  <2>1. IsFiniteSet(Before(k, T)) /\ skipped \cup Before(k, S) \in SUBSET Before(k, T)
    BY <1>1, <1>4, <1>5, BeforeType
  <2>. QED
    BY <2>1, FS_Subset
<1>. QED
  BY <1>1, <1>2, <1>3, <1>6, <1>7

-------------------------------------------------------------------------------
(* The inductive invariant *)

LEMMA InitInv == Init => IInv
<1>. SUFFICES ASSUME Init
              PROVE  IInv
  OBVIOUS
<1>1. TypeOK
  <2>1. inserted \in BOOLEAN /\ deleted \in BOOLEAN
    BY Zenon DEF Init
  <2>. QED
    BY <2>1 DEF Init, TypeOK
<1>2. Position /\ KeysetListed /\ OffsetListed
  BY DEF Init, Position, KeysetListed, OffsetListed
<1>3. KeysetStable
  BY DEF Init, KeysetStable, Missed
<1>4. OffsetStable
  <2>1. \A k \in Keys : Rank(k) >= 0
    BY BeforeType DEF Init, Rank
  <2>. QED
    BY <2>1 DEF Init, OffsetStable, Missed
<1>. QED
  BY <1>1, <1>2, <1>3, <1>4 DEF IInv

\* The rows of a page are rows of the table.
LEMMA RowsType ==
  ASSUME TypeOK
  PROVE  /\ Rows \in SUBSET table /\ WithUri(Rows) \in SUBSET Rows
         /\ IsFiniteSet(Rows) /\ Cardinality(Rows) \in Nat
<1>1. table \in SUBSET Keys /\ PageSize \in Nat
  BY DEF TypeOK
<1>2. Rows \in SUBSET table
  <2>1. CASE binding.mode = "keyset"
    BY <2>1 DEF Rows, KeysetRows, FirstRows
  <2>2. CASE binding.mode # "keyset"
    BY <2>2 DEF Rows, OffsetRows, FirstRows
  <2>. QED
    BY <2>1, <2>2
<1>3. WithUri(Rows) \in SUBSET Rows
  BY DEF WithUri
<1>. QED
  BY <1>1, <1>2, <1>3, BeforeType, FS_Subset, FS_CardinalityType

\* What a page adds to the listing.
LEMMA ListedNow ==
  ASSUME TypeOK, ListPage
  PROVE  /\ listed' \in [Keys -> 0 .. 2]
         /\ \A k \in Keys : IF k \in WithUri(Rows) THEN /\ listed'[k] # 0
                                                        /\ listed[k] = 0 => listed'[k] = 1
                           ELSE listed'[k] = listed[k]
  BY DEF TypeOK, ListPage

LEMMA ListPageType ==
  ASSUME IInv, ListPage
  PROVE  TypeOK'
<1>1. /\ TypeOK /\ listed' \in [Keys -> 0 .. 2] /\ walk' \in {"next", "done"}
      /\ UNCHANGED <<binding, table, stable, inserted, deleted, changes, failures>>
  BY ListedNow DEF IInv, ListPage, tableVars
<1>2. cursor' \in IF binding.mode = "keyset" /\ binding.statement # "cursor_rounded"
                  THEN Keys \cup {0} ELSE Nat
  <2>1. CASE EndsListing(Rows)
    BY <1>1, <2>1 DEF ListPage, TypeOK
  <2>2. CASE ~EndsListing(Rows) /\ binding.mode = "keyset"
    <3>1. PICK k \in Keys : k = Max(WithUri(Rows))
      <4>1. WithUri(Rows) \in SUBSET Keys /\ WithUri(Rows) # {}
        BY <1>1, <2>2, RowsType DEF EndsListing, TypeOK
      <4>. QED
        BY <4>1, MaxIs
    <3>2. cursor' = Shown(k)
      BY <2>2, <3>1 DEF ListPage
    <3>3. CASE binding.statement # "cursor_rounded"
      BY <3>2, <3>3 DEF Shown
    <3>4. CASE binding.statement = "cursor_rounded"
      <4>1. k \div Grain \in Nat /\ k % Grain \in Nat
        OBVIOUS
      <4>2. Rounded(k) \in Nat
        BY <4>1 DEF Rounded
      <4>. QED
        BY <3>2, <3>4, <4>2 DEF Shown, NullCursor
    <3>. QED
      BY <2>2, <3>3, <3>4
  <2>3. CASE ~EndsListing(Rows) /\ binding.mode # "keyset"
    BY <1>1, <2>3, RowsType DEF ListPage, NextOffset, TypeOK
  <2>. QED
    BY <2>1, <2>2, <2>3
<1>. QED
  BY <1>1, <1>2 DEF TypeOK

\* A keyset page starts after the cursor, and the next cursor is its last row that
\* has a uri.
LEMMA KeysetPage ==
  ASSUME IInv, ListPage, binding.mode = "keyset", ~Displaced
  PROVE  /\ \A k \in Rows : listed[k] = 0 /\ k > cursor
         /\ walk' = "next" => /\ cursor' \in WithUri(Rows) /\ cursor' > cursor
                              /\ \A k \in WithUri(Rows) : k <= cursor'
         /\ walk' # "next" => walk' = "done" /\ EndsListing(Rows)
<1>1. /\ TypeOK /\ Position /\ KeysetListed /\ walk # "done"
      /\ Rows \in SUBSET Keys /\ WithUri(Rows) \in SUBSET Keys /\ WithUri(Rows) \subseteq Rows
  BY RowsType DEF IInv, ListPage, TypeOK
<1>2. \A k \in Keys : ~NullCursor(k)
  BY DEF NullCursor, Displaced
<1>3. cursor \in Nat
  BY <1>1 DEF TypeOK
<1>4. ASSUME NEW k \in Rows
      PROVE  k > cursor
  <2>1. IF BindsNull THEN TRUE ELSE k > cursor
    BY DEF Rows, KeysetRows, FirstRows
  <2>2. BindsNull => cursor = 0
    BY <1>1 DEF BindsNull, Position
  <2>3. k \in Nat \ {0}
    BY <1>1
  <2>. QED
    BY <2>1, <2>2, <2>3
<1>5. \A k \in Rows : listed[k] = 0
  BY <1>1, <1>3, <1>4 DEF KeysetListed
<1>6. CASE EndsListing(Rows)
  BY <1>4, <1>5, <1>6 DEF ListPage
<1>7. CASE ~EndsListing(Rows)
  <2>1. walk' = "next" /\ cursor' = Shown(Max(WithUri(Rows))) /\ WithUri(Rows) # {}
    BY <1>7 DEF ListPage, EndsListing
  <2>2. PICK m \in WithUri(Rows) : m = Max(WithUri(Rows)) /\ \A k \in WithUri(Rows) : k <= m
    BY <1>1, <2>1, MaxIs
  <2>3. Shown(m) = m
    BY <1>1, <1>2, <2>2 DEF Shown, Displaced
  <2>. QED
    BY <1>1, <1>4, <1>5, <2>1, <2>2, <2>3
<1>. QED
  BY <1>6, <1>7

LEMMA ListPagePosition ==
  ASSUME IInv, ListPage
  PROVE  Position'
<1>1. TypeOK /\ Position /\ walk # "done" /\ walk' \in {"next", "done"} /\ UNCHANGED binding
  BY DEF IInv, ListPage
<1>2. ASSUME binding.mode = "keyset", ~Displaced, walk' = "next"
      PROVE  cursor' \in Keys
  BY <1>1, <1>2, KeysetPage, RowsType DEF TypeOK
<1>3. ASSUME binding.mode = "offset", binding.statement = "offset_first"
      PROVE  walk' # "next"
  <2>1. cursor = 0
    BY <1>1, <1>3 DEF Position, TypeOK
  <2>2. Rows = {}
    <3>1. \A S \in SUBSET Keys : \A k \in S : ~(Cardinality(Before(k, S)) < 0)
      BY BeforeType
    <3>2. PICK S \in SUBSET Keys : Rows = FirstRows(S, 0)
      BY <1>1, <1>3, <2>1 DEF Rows, OffsetRows, TypeOK
    <3>. QED
      BY <3>1, <3>2 DEF FirstRows
  <2>3. EndsListing(Rows)
    BY <2>2, FS_EmptySet DEF EndsListing
  <2>. QED
    BY <2>3 DEF ListPage
<1>4. Displaced' = Displaced
  BY <1>1 DEF Displaced
<1>. QED
  BY <1>1, <1>2, <1>3, <1>4 DEF Position

LEMMA ListPageKeyset ==
  ASSUME IInv, ListPage, binding.mode = "keyset"
  PROVE  KeysetListed' /\ KeysetStable'
<1>1. /\ TypeOK /\ KeysetListed /\ KeysetStable /\ walk # "done"
      /\ UNCHANGED <<binding, table, stable>>
      /\ Rows \in SUBSET Keys /\ WithUri(Rows) \subseteq Rows /\ cursor \in Nat
  <2>1. TypeOK /\ walk # "done" /\ UNCHANGED <<binding, table, stable>>
    BY DEF IInv, ListPage, tableVars
  <2>2. cursor \in Nat
    BY <2>1 DEF TypeOK
  <2>3. Rows \in SUBSET Keys /\ WithUri(Rows) \subseteq Rows
    BY <2>1, RowsType DEF TypeOK
  <2>. QED
    BY <2>1, <2>2, <2>3 DEF IInv
<1>2. KeysetListed'
  <2>. SUFFICES ASSUME ~Displaced, NEW k \in Keys, listed'[k] # 0
                PROVE  listed'[k] = 1 /\ (walk' # "done" => k <= cursor')
    BY <1>1 DEF KeysetListed, Displaced
  <2>1. CASE k \in WithUri(Rows)
    <3>1. listed'[k] = 1
      BY <1>1, <2>1, KeysetPage, ListedNow
    <3>. QED
      BY <2>1, <3>1, KeysetPage
  <2>2. CASE k \notin WithUri(Rows)
    <3>1. listed'[k] = listed[k] /\ listed[k] = 1 /\ k <= cursor
      BY <1>1, <2>2, ListedNow DEF KeysetListed
    <3>2. walk' # "done" => cursor' > cursor /\ cursor' \in Nat
      BY <1>1, KeysetPage
    <3>3. k \in Nat
      OBVIOUS
    <3>. QED
      BY <1>1, <3>1, <3>2, <3>3
  <2>. QED
    BY <2>1, <2>2
<1>3. KeysetStable'
  <2>. SUFFICES ASSUME Unhindered, NEW k \in Missed'
                PROVE  walk' # "done" /\ k > cursor'
    BY <1>1 DEF KeysetStable, Unhindered
  <2>1. /\ binding.statement \in {"regular", "offset_first"} /\ Cardinality(NoUri) < PageSize
        /\ ~Displaced /\ (\A j \in Keys : ~NullCursor(j))
    BY DEF Unhindered, Displaced, NullCursor
  <2>2. k \in stable \ NoUri /\ listed'[k] = 0 /\ k \in table /\ k \in Keys /\ k \in Nat
    BY <1>1 DEF Missed, TypeOK
  <2>3. k \notin WithUri(Rows) /\ k \notin Rows
    BY <1>1, <2>1, <2>2, ListedNow DEF WithUri
  <2>4. k > cursor
    <3>1. k \in Missed
      BY <1>1, <2>2, <2>3, ListedNow DEF Missed
    <3>. QED
      BY <1>1, <3>1 DEF KeysetStable
  <2>5. PICK S \in SUBSET Keys : Rows = FirstRows(S, PageSize) /\ k \in S
    <3>. DEFINE U == {j \in table : IF BindsNull THEN binding.statement # "null_finds_none"
                                    ELSE j > cursor /\ ~NullCursor(j)}
    <3>1. Rows = FirstRows(U, PageSize) /\ U \in SUBSET Keys
      BY <1>1 DEF Rows, KeysetRows, TypeOK
    <3>2. k \in U
      BY <2>1, <2>2, <2>4
    <3>. QED
      BY <3>1, <3>2
  <2>6. ~(Cardinality(Rows) < PageSize)
    BY <2>3, <2>5, ShortPage
  <2>7. WithUri(Rows) # {}
    <3>1. ASSUME WithUri(Rows) = {}
          PROVE  FALSE
      <4>1. Rows \in SUBSET NoUri
        BY <2>1, <3>1 DEF WithUri
      <4>2. /\ Cardinality(Rows) <= Cardinality(NoUri)
            /\ Cardinality(Rows) \in Nat /\ Cardinality(NoUri) \in Nat
        BY <1>1, <4>1, FS_Subset, FS_CardinalityType, RowsType
      <4>. QED
        BY <2>1, <2>6, <4>2
    <3>. QED
      BY <3>1
  <2>8. ~EndsListing(Rows)
    BY <2>1, <2>6, <2>7 DEF EndsListing
  <2>9. walk' = "next"
    BY <2>8 DEF ListPage
  <2>10. cursor' \in Rows /\ cursor' \in Nat
    BY <1>1, <2>1, <2>9, KeysetPage
  <2>11. ~(k <= cursor')
    BY <2>3, <2>5, <2>10, FirstRowsClosed
  <2>. QED
    BY <2>2, <2>9, <2>10, <2>11
<1>. QED
  BY <1>2, <1>3

LEMMA ListPageOffset ==
  ASSUME IInv, ListPage, binding.mode = "offset"
  PROVE  OffsetListed' /\ OffsetStable'
<1>1. /\ TypeOK /\ OffsetListed /\ OffsetStable /\ walk # "done"
      /\ UNCHANGED <<binding, table, stable, inserted, deleted>>
      /\ table \in SUBSET Keys /\ Rows \in SUBSET table /\ WithUri(Rows) \subseteq Rows
      /\ cursor \in Nat /\ Cardinality(Rows) \in Nat /\ PageSize \in Nat
  <2>1. TypeOK /\ walk # "done" /\ UNCHANGED <<binding, table, stable, inserted, deleted>>
    BY DEF IInv, ListPage, tableVars
  <2>. QED
    BY <2>1, RowsType DEF IInv, TypeOK
<1>2. \A k \in table : Rank(k) \in Nat /\ Rank(k)' = Rank(k)
  BY <1>1, BeforeType DEF Rank
<1>3. walk' # "done" => /\ cursor' = cursor + Cardinality(Rows)
                       /\ ~(Cardinality(Rows) < PageSize)
  BY <1>1 DEF ListPage, NextOffset, EndsListing
<1>4. PICK S \in SUBSET Keys : S = {k \in table : Cardinality(Before(k, table)) >= cursor}
  BY <1>1
<1>5. binding.statement # "offset_first" => Rows = FirstRows(S, PageSize)
  BY <1>1, <1>4 DEF Rows, OffsetRows
<1>6. binding.statement = "offset_first" => walk' = "done" /\ Rows = {}
  <2>1. ASSUME binding.statement = "offset_first"
        PROVE  walk' = "done" /\ Rows = {}
    <3>1. walk = "first" /\ cursor = 0
      BY <1>1, <2>1 DEF IInv, Position, TypeOK
    <3>2. PICK U \in SUBSET Keys : Rows = FirstRows(U, 0)
      BY <1>1, <2>1, <3>1 DEF Rows, OffsetRows
    <3>3. \A k \in U : ~(Cardinality(Before(k, U)) < 0)
      BY BeforeType
    <3>4. Rows = {}
      BY <3>2, <3>3 DEF FirstRows
    <3>5. EndsListing(Rows)
      BY <3>4, FS_EmptySet DEF EndsListing
    <3>. QED
      BY <3>4, <3>5 DEF ListPage
  <2>. QED
    BY <2>1
<1>7. \A k \in Rows : Rank(k) >= cursor
  BY <1>4, <1>5, <1>6 DEF FirstRows, Rank
<1>8. OffsetListed'
  <2>. SUFFICES ASSUME ~inserted, NEW k \in Keys, listed'[k] # 0
                PROVE  /\ listed'[k] = 1
                       /\ walk' # "done" /\ k \in table => Rank(k) < cursor'
    BY <1>1, <1>2 DEF OffsetListed
  <2>1. CASE k \in WithUri(Rows)
    <3>1. k \in table /\ Rank(k) \in Nat /\ Rank(k) >= cursor
      BY <1>1, <1>2, <1>7, <2>1
    <3>2. listed[k] = 0
      BY <1>1, <3>1 DEF OffsetListed
    <3>3. listed'[k] = 1
      BY <1>1, <2>1, <3>2, ListedNow
    <3>4. ASSUME walk' # "done"
          PROVE  Rank(k) < cursor'
      <4>1. k \in FirstRows(S, PageSize)
        BY <1>1, <1>5, <1>6, <2>1, <3>4
      <4>2. Rank(k) < cursor + PageSize
        BY <1>1, <1>4, <4>1, OnOffsetPage DEF Rank
      <4>. QED
        BY <1>1, <1>3, <3>1, <3>4, <4>2
    <3>. QED
      BY <3>3, <3>4
  <2>2. CASE k \notin WithUri(Rows)
    <3>1. listed'[k] = listed[k] /\ listed[k] = 1 /\ (k \in table => Rank(k) < cursor)
      BY <1>1, <2>2, ListedNow DEF OffsetListed
    <3>. QED
      BY <1>1, <1>2, <1>3, <3>1
  <2>. QED
    BY <2>1, <2>2
<1>9. OffsetStable'
  <2>. SUFFICES ASSUME Unhindered, ~deleted, NEW k \in Missed'
                PROVE  walk' # "done" /\ Rank(k) >= cursor'
    <3>1. Unhindered' = Unhindered /\ Missed' \subseteq table
      BY <1>1 DEF Unhindered, Missed, TypeOK
    <3>. QED
      BY <1>1, <1>2, <3>1 DEF OffsetStable
  <2>1. binding.statement \notin {"uri_unnamed", "offset_first"}
    BY DEF Unhindered
  <2>2. k \in stable \ NoUri /\ listed'[k] = 0 /\ k \in table /\ k \in Keys
    BY <1>1 DEF Missed, TypeOK
  <2>3. k \notin WithUri(Rows) /\ k \notin Rows
    BY <1>1, <2>1, <2>2, ListedNow DEF WithUri
  <2>4. Rank(k) >= cursor
    <3>1. k \in Missed
      BY <1>1, <2>2, <2>3, ListedNow DEF Missed
    <3>. QED
      BY <1>1, <3>1 DEF OffsetStable
  <2>5. k \in S \ FirstRows(S, PageSize)
    BY <1>4, <1>5, <2>1, <2>2, <2>3, <2>4 DEF Rank
  <2>6. ~(Cardinality(Rows) < PageSize)
    BY <1>5, <2>1, <2>5, ShortPage
  <2>7. walk' # "done"
    BY <2>6, <1>1 DEF ListPage, EndsListing
  <2>8. Cardinality(Rows) <= PageSize
    BY <1>1, <1>5, <2>1, PageBound
  <2>9. Rank(k) >= cursor + PageSize
    BY <1>1, <1>4, <2>5, AfterOffsetPage DEF Rank
  <2>. QED
    BY <1>1, <1>2, <1>3, <2>2, <2>7, <2>8, <2>9
<1>. QED
  BY <1>8, <1>9

LEMMA ListPageInv == IInv /\ ListPage => IInv'
<1>. SUFFICES ASSUME IInv, ListPage
              PROVE  IInv'
  OBVIOUS
<1>1. UNCHANGED binding
  BY DEF ListPage
<1>2. TypeOK' /\ Position'
  BY ListPageType, ListPagePosition
<1>3. CASE binding.mode = "keyset"
  <2>1. OffsetListed' /\ OffsetStable'
    BY <1>1, <1>3 DEF OffsetListed, OffsetStable
  <2>. QED
    BY <1>2, <1>3, <2>1, ListPageKeyset DEF IInv
<1>4. CASE binding.mode = "offset"
  <2>1. KeysetListed' /\ KeysetStable'
    BY <1>1, <1>4 DEF KeysetListed, KeysetStable
  <2>. QED
    BY <1>2, <1>4, <2>1, ListPageOffset DEF IInv
<1>5. binding.mode \in {"keyset", "offset"}
  BY DEF IInv, TypeOK
<1>. QED
  BY <1>3, <1>4, <1>5

\* A row that comes leaves every row's offset where it is or moves it on.
LEMMA InsertInv ==
  ASSUME IInv, NEW n \in Keys, Insert(n)
  PROVE  IInv'
<1>. USE DEF Insert, clientVars
<1>1. TypeOK'
  <2>1. inserted' \in BOOLEAN
    BY Zenon
  <2>. QED
    BY <2>1 DEF IInv, TypeOK
<1>2. Position'
  BY DEF IInv, Position, Displaced
<1>3. KeysetListed'
  BY DEF IInv, KeysetListed, Displaced
<1>4. KeysetStable'
  BY DEF IInv, KeysetStable, Unhindered, Missed
<1>5. OffsetListed'
  BY DEF OffsetListed
<1>6. OffsetStable'
  <2>. SUFFICES ASSUME binding.mode = "offset", Unhindered, ~deleted, NEW k \in Missed'
                PROVE  walk' # "done" /\ Rank(k)' >= cursor'
    BY DEF OffsetStable, Unhindered
  <2>1. k \in Missed /\ k \in Keys /\ table \in SUBSET Keys /\ table' \in SUBSET Keys
    BY DEF IInv, TypeOK, Missed
  <2>2. Rank(k) >= cursor /\ cursor \in Nat
    BY <2>1 DEF IInv, TypeOK, OffsetStable
  <2>3. Rank(k) <= Rank(k)' /\ Rank(k) \in Nat /\ Rank(k)' \in Nat
    <3>1. Before(k, table) \in SUBSET Before(k, table')
      BY DEF Before
    <3>2. IsFiniteSet(Before(k, table'))
      BY <2>1, BeforeType
    <3>3. Cardinality(Before(k, table)) <= Cardinality(Before(k, table'))
      BY <3>1, <3>2, FS_Subset
    <3>. QED
      BY <2>1, <3>3, BeforeType DEF Rank
  <2>. QED
    BY <2>2, <2>3
<1>. QED
  BY <1>1, <1>2, <1>3, <1>4, <1>5, <1>6 DEF IInv

\* A row that goes leaves every row's offset where it is or moves it back.
LEMMA DeleteInv ==
  ASSUME IInv, NEW n \in Keys, Delete(n)
  PROVE  IInv'
<1>. USE DEF Delete, clientVars
<1>1. TypeOK'
  <2>1. deleted' \in BOOLEAN
    BY Zenon
  <2>. QED
    BY <2>1 DEF IInv, TypeOK
<1>2. Position'
  BY DEF IInv, Position, Displaced
<1>3. KeysetListed'
  BY DEF IInv, KeysetListed, Displaced
<1>4. KeysetStable'
  BY DEF IInv, KeysetStable, Unhindered, Missed
<1>5. OffsetListed'
  <2>. SUFFICES ASSUME binding.mode = "offset", ~inserted, NEW k \in Keys, listed[k] # 0
                PROVE  listed[k] = 1 /\ (walk # "done" /\ k \in table' => Rank(k)' < cursor)
    BY DEF OffsetListed
  <2>1. listed[k] = 1 /\ (walk # "done" /\ k \in table => Rank(k) < cursor) /\ cursor \in Nat
    BY DEF IInv, TypeOK, OffsetListed
  <2>2. table \in SUBSET Keys /\ table' \in SUBSET Keys
    BY DEF IInv, TypeOK
  <2>3. Rank(k)' <= Rank(k) /\ Rank(k) \in Nat /\ Rank(k)' \in Nat
    <3>1. Before(k, table') \in SUBSET Before(k, table)
      BY DEF Before
    <3>2. IsFiniteSet(Before(k, table))
      BY <2>2, BeforeType
    <3>3. Cardinality(Before(k, table')) <= Cardinality(Before(k, table))
      BY <3>1, <3>2, FS_Subset
    <3>. QED
      BY <2>2, <3>3, BeforeType DEF Rank
  <2>4. k \in table' => k \in table
    OBVIOUS
  <2>. QED
    BY <2>1, <2>3, <2>4
<1>6. OffsetStable'
  BY Zenon DEF OffsetStable
<1>. QED
  BY <1>1, <1>2, <1>3, <1>4, <1>5, <1>6 DEF IInv

LEMMA NextInv == IInv /\ [Next]_vars => IInv'
<1>. SUFFICES ASSUME IInv, [Next]_vars
              PROVE  IInv'
  OBVIOUS
<1>1. CASE UNCHANGED vars
  <2>. USE <1>1 DEF vars, clientVars, tableVars
  <2>1. TypeOK' /\ Position'
    BY DEF IInv, TypeOK, Position, Displaced
  <2>2. KeysetListed' /\ KeysetStable'
    BY DEF IInv, KeysetListed, KeysetStable, Displaced, Unhindered, Missed
  <2>3. OffsetListed' /\ OffsetStable'
    BY DEF IInv, OffsetListed, OffsetStable, Unhindered, Missed, Rank, Before
  <2>. QED
    BY <2>1, <2>2, <2>3 DEF IInv
<1>2. CASE PageFails
  <2>. USE <1>2 DEF PageFails, clientVars, tableVars
  <2>1. TypeOK' /\ Position'
    BY DEF IInv, TypeOK, Position, Displaced
  <2>2. KeysetListed' /\ KeysetStable'
    BY DEF IInv, KeysetListed, KeysetStable, Displaced, Unhindered, Missed
  <2>3. OffsetListed' /\ OffsetStable'
    BY DEF IInv, OffsetListed, OffsetStable, Unhindered, Missed, Rank, Before
  <2>. QED
    BY <2>1, <2>2, <2>3 DEF IInv
<1>3. CASE Listed
  BY <1>1, <1>3 DEF Listed
<1>. QED
  BY <1>1, <1>2, <1>3, ListPageInv, InsertInv, DeleteInv DEF Next

-------------------------------------------------------------------------------
(* What it says of a walk *)

\* Where a walk stands in the table, in both modes of list_resources.
THEOREM ListingInvariant == Spec => []IInv
<1>. QED
  BY InitInv, NextInv, PTL DEF Spec

\* No resource is on two pages of one walk, however the table changes: in keyset
\* mode if the cursor is the place of its row, in offset mode if no row is inserted
\* (list_resources, rows_to_resource_page).
THEOREM ListingListedOnce == Spec => []ListedOnce
<1>1. IInv => ListedOnce
  <2>. SUFFICES ASSUME IInv, IF binding.mode = "keyset" THEN ~Displaced ELSE ~inserted,
                       NEW k \in Keys
                PROVE  listed[k] <= 1
    BY DEF ListedOnce
  <2>1. binding.mode \in {"keyset", "offset"}
    BY DEF IInv, TypeOK
  <2>2. listed[k] \in 0 .. 2
    BY DEF IInv, TypeOK
  <2>3. listed[k] # 0 => listed[k] = 1
    BY <2>1 DEF IInv, KeysetListed, OffsetListed
  <2>. QED
    BY <2>2, <2>3
<1>. QED
  BY <1>1, ListingInvariant, PTL

\* A finished walk that nothing stops short has shown every resource that was there
\* all along, in offset mode if no row was deleted meanwhile.
THEOREM ListingStableListed == Spec => []StableListed
<1>1. IInv => StableListed
  <2>. SUFFICES ASSUME IInv, walk = "done", Unhindered, binding.mode = "offset" => ~deleted,
                       NEW k \in Missed
                PROVE  FALSE
    BY DEF StableListed
  <2>1. binding.mode \in {"keyset", "offset"}
    BY DEF IInv, TypeOK
  <2>. QED
    BY <2>1 DEF IInv, KeysetStable, OffsetStable
<1>. QED
  BY <1>1, ListingInvariant, PTL

\* Every page that has a next one moves the cursor on, whatever the table's writers
\* do: the reason that a walk ends once it has passed the last row.
THEOREM ListingAdvances ==
  Spec => [][ListPage /\ ~Displaced /\ walk' = "next" => cursor' > cursor]_vars
<1>1. ASSUME IInv, ListPage, ~Displaced, walk' = "next"
      PROVE  cursor' > cursor
  <2>1. CASE binding.mode = "keyset"
    BY <1>1, <2>1, KeysetPage
  <2>2. CASE binding.mode = "offset"
    <3>1. cursor' = cursor + Cardinality(Rows) /\ ~(Cardinality(Rows) < PageSize)
      BY <1>1, <2>2 DEF ListPage, NextOffset, EndsListing
    <3>2. cursor \in Nat /\ Cardinality(Rows) \in Nat /\ PageSize \in Nat \ {0}
      BY <1>1, <2>2, RowsType DEF IInv, TypeOK
    <3>. QED
      BY <3>1, <3>2
  <2>3. binding.mode \in {"keyset", "offset"}
    BY <1>1 DEF IInv, TypeOK
  <2>. QED
    BY <2>1, <2>2, <2>3
<1>2. IInv /\ [Next]_vars
        => [ListPage /\ ~Displaced /\ walk' = "next" => cursor' > cursor]_vars
  BY <1>1
<1>. QED
  BY <1>2, ListingInvariant, PTL DEF Spec
===============================================================================
