--------------------------- MODULE ResourceListing ---------------------------
(***************************************************************************)
(* One client walking resources/list page by page (list_resources in       *)
(* src/src/lib.rs, rows_to_resource_page in src/src/surface.rs) while the  *)
(* listed table changes between the pages.                                 *)
(*                                                                         *)
(* A row is its cursor column, a positive number that orders the listing;  *)
(* its resource is named by the same number.  The statement is the         *)
(* operator's: keyset mode selects the rows after :1, offset mode skips    *)
(* :2 rows, both in order and at most page_size of them.  It is regular    *)
(* or has one of these traits:                                             *)
(*   null_finds_none  the keyset comparison with a NULL cursor holds for   *)
(*                    no row (WHERE cursor_column > :1)                    *)
(*   offset_first     OFFSET :2 ROWS FETCH NEXT :1 ROWS ONLY: binds go by  *)
(*                    position, so that :2 gets the first of them          *)
(*   cursor_unnamed   no column is named exactly cursor_column             *)
(*   uri_unnamed      no column is named exactly uri (Oracle reports names *)
(*                    that are not quoted in upper case)                   *)
(*   cursor_nullable  the last row's cursor column is NULL                 *)
(*   cursor_rounded   the cursor column holds numbers beyond i64           *)
(***************************************************************************)
EXTENDS Integers, FiniteSets, FiniteSetsExt

CONSTANTS
  Modes,        \* list_query.mode: "keyset", "offset"
  Statements,   \* traits of list_query.sql
  PageSize,     \* list_query.page_size
  Keys,         \* numbers a row may have
  FirstTable,   \* rows in the table when the walk begins
  NoUri,        \* rows whose uri is NULL or not a string
  Grain,        \* spacing of the doubles that numbers beyond i64 are rounded to
  MaxChanges,   \* bound on rows inserted or deleted during the walk
  MaxFailures   \* bound on page requests that fail

ASSUME ListingAssumption ==
  /\ Modes \subseteq {"keyset", "offset"}
  /\ PageSize \in Nat \ {0}
  /\ Keys \subseteq Nat \ {0} /\ IsFiniteSet(Keys)
  /\ FirstTable \subseteq Keys /\ NoUri \subseteq Keys
  /\ Statements \subseteq {"regular", "null_finds_none", "offset_first", "cursor_unnamed",
                           "uri_unnamed", "cursor_nullable", "cursor_rounded"}
  /\ Grain \in Nat \ {0}
  /\ MaxChanges \in Nat /\ MaxFailures \in Nat

VARIABLES
  binding,   \* mode and statement of the binding's list_query, fixed
  table,     \* rows in the table
  walk,      \* "first" page due, "next" page due at cursor, or "done"
  cursor,    \* last next_cursor: a key, or an offset
  listed,    \* how often each resource was listed; twice stands for more
  stable,    \* rows in the table since the walk began
  inserted,  \* a row was inserted during the walk
  deleted,   \* a row was deleted during the walk
  changes, failures

clientVars == <<binding, walk, cursor, listed>>
tableVars  == <<table, stable, inserted, deleted, changes>>
vars       == <<clientVars, tableVars, failures>>

Init ==
  /\ binding \in [mode : Modes, statement : Statements]
  /\ table = FirstTable
  /\ walk = "first"
  /\ cursor = 0
  /\ listed = [k \in Keys |-> 0]
  /\ stable = FirstTable
  /\ inserted = FALSE /\ deleted = FALSE
  /\ changes = 0 /\ failures = 0

-----------------------------------------------------------------------------
Before(k, S) == {j \in S : j < k}

\* The first n rows of S in key order.
FirstRows(S, n) == {k \in S : Cardinality(Before(k, S)) < n}

\* Oracle sorts NULL last.
NullCursor(k) == binding.statement = "cursor_nullable" /\ k = Max(Keys)

\* The first page binds NULL; a cursor that renders NULL is the empty string,
\* which to Oracle is NULL again.  Keys are positive, and 0 is NULL.
BindsNull == walk = "first" \/ cursor = 0

\* Mutant: the keyset page starts at the last row instead of after it.
KeysetRowsInclusive ==
  FirstRows({k \in table : IF BindsNull THEN binding.statement # "null_finds_none"
                           ELSE k >= cursor /\ ~NullCursor(k)}, PageSize)

KeysetRows ==
  FirstRows({k \in table : IF BindsNull THEN binding.statement # "null_finds_none"
                           ELSE k > cursor /\ ~NullCursor(k)}, PageSize)

\* The binds of offset mode are the page size and the offset, in this order.
OffsetRows ==
  LET swapped == binding.statement = "offset_first"
      skip    == IF swapped THEN PageSize ELSE cursor
      limit   == IF swapped THEN cursor ELSE PageSize
  IN  FirstRows({k \in table : Cardinality(Before(k, table)) >= skip}, limit)

\* What the statement returns now for the binds of this page.
Rows == IF binding.mode = "keyset" THEN KeysetRows ELSE OffsetRows

\* Mutant: the cursor names the number after the last row.
ShownNext(k) == k + 1

\* number_to_json: a number out of i64 range becomes the nearest double, ties
\* to even.
Rounded(k) ==
  LET q == k \div Grain
      r == k % Grain
  IN  IF 2 * r < Grain \/ (2 * r = Grain /\ q % 2 = 0) THEN q * Grain
      ELSE (q + 1) * Grain

\* The cursor that a row is shown as.
Shown(k) ==
  CASE NullCursor(k)                          -> 0
    [] binding.statement = "cursor_rounded" -> Rounded(k)
    [] OTHER                                  -> k

WithUri(S) == IF binding.statement = "uri_unnamed" THEN {} ELSE S \ NoUri

\* The cursor of the next page, given that this one is full.
NextOffset(page) == cursor + Cardinality(page)

\* There is no next cursor: the page is short, or keyset mode found no row
\* with a uri to take it from.
EndsListing(page) ==
  \/ Cardinality(page) < PageSize
  \/ binding.mode = "keyset" /\ (WithUri(page) = {} \/ binding.statement = "cursor_unnamed")

\* One page: rows without a uri are skipped, and so is their cursor.
ListPage ==
  /\ walk # "done"
  /\ listed' = [k \in Keys |-> IF k \in WithUri(Rows) /\ listed[k] < 2
                               THEN listed[k] + 1 ELSE listed[k]]
  /\ IF EndsListing(Rows) THEN walk' = "done" /\ UNCHANGED cursor
     ELSE /\ walk'   = "next"
          /\ cursor' = IF binding.mode = "keyset" THEN Shown(Max(WithUri(Rows)))
                       ELSE NextOffset(Rows)
  /\ UNCHANGED <<binding, tableVars, failures>>

\* run_read_query fails: the client has no page and asks again.
PageFails ==
  /\ walk # "done"
  /\ failures < MaxFailures
  /\ failures' = failures + 1
  /\ UNCHANGED <<clientVars, tableVars>>

Insert(k) ==
  /\ walk # "done"
  /\ changes < MaxChanges
  /\ k \notin table
  /\ table' = table \cup {k}
  /\ inserted' = TRUE
  /\ changes' = changes + 1
  /\ UNCHANGED <<stable, deleted, clientVars, failures>>

Delete(k) ==
  /\ walk # "done"
  /\ changes < MaxChanges
  /\ k \in table
  /\ table'  = table \ {k}
  /\ stable' = stable \ {k}
  /\ deleted' = TRUE
  /\ changes' = changes + 1
  /\ UNCHANGED <<inserted, clientVars, failures>>

Listed ==
  /\ walk = "done"
  /\ UNCHANGED vars

Next ==
  \/ ListPage \/ PageFails \/ Listed
  \/ \E k \in Keys : Insert(k) \/ Delete(k)

\* The client goes on asking for pages.
Spec == Init /\ [][Next]_vars /\ WF_vars(ListPage)

-----------------------------------------------------------------------------
TypeOK ==
  /\ binding \in [mode : Modes, statement : Statements]
  /\ table \subseteq Keys /\ stable \subseteq table
  /\ walk \in {"first", "next", "done"}
  /\ cursor \in IF binding.mode = "keyset" /\ binding.statement # "cursor_rounded"
                THEN Keys \cup {0} ELSE Nat
  /\ listed \in [Keys -> 0 .. 2]
  /\ inserted \in BOOLEAN /\ deleted \in BOOLEAN
  /\ changes \in 0 .. MaxChanges /\ failures \in 0 .. MaxFailures

\* The keyset statements whose cursor need not be the place of the last row.
Displaced ==
  binding.mode = "keyset" /\ binding.statement \in {"cursor_nullable", "cursor_rounded"}

\* The walk ends: every page moves the cursor on, whatever is inserted behind
\* or ahead of it.  Two kinds of keyset statement may be asked for the same page
\* for ever: a cursor that is NULL starts again, and one that is rounded down
\* stays before its row.
WalkEnds == ~Displaced => <>(walk = "done")

\* A resource appears on one page of the walk at most, also when pages are
\* asked for again after a failure.  In offset mode an insertion before the
\* offset shows the last row of a page again.
ListedOnce ==
  (IF binding.mode = "keyset" THEN ~Displaced ELSE ~inserted) =>
    \A k \in Keys : listed[k] <= 1

Missed == {k \in stable \ NoUri : listed[k] = 0}

\* Nothing about the statement or the rows stops a walk of its mode short.  A keyset
\* page full of rows without a uri does, so there must not be that many.
Unhindered ==
  IF binding.mode = "keyset"
  THEN binding.statement \in {"regular", "offset_first"} /\ Cardinality(NoUri) < PageSize
  ELSE binding.statement \notin {"uri_unnamed", "offset_first"}

\* A finished walk that nothing stops short has listed every resource that was there
\* all along.  In offset mode a deletion before the offset lets a resource slip
\* through.
StableListed ==
  walk = "done" /\ Unhindered /\ (binding.mode = "offset" => ~deleted) => Missed = {}

-----------------------------------------------------------------------------
(* The inductive invariant *)

\* Where the walk stands.
Position ==
  /\ walk = "first" => cursor = 0
  /\ binding.mode = "keyset" /\ ~Displaced /\ walk = "next" => cursor \in Keys
  /\ binding.mode = "offset" /\ binding.statement = "offset_first" => walk # "next"

\* A keyset walk has listed nothing twice, nothing after its cursor, and whatever
\* was there all along up to its cursor.
KeysetListed ==
  binding.mode = "keyset" /\ ~Displaced =>
    \A k \in Keys : listed[k] # 0 => listed[k] = 1 /\ (walk # "done" => k <= cursor)

KeysetStable ==
  binding.mode = "keyset" /\ Unhindered =>
    \A k \in Missed : walk # "done" /\ k > cursor

\* The offset of an offset walk counts the rows before it: those that were listed
\* are among them as long as none is inserted, and those that were missed are not
\* as long as none is deleted.
Rank(k) == Cardinality(Before(k, table))

OffsetListed ==
  binding.mode = "offset" /\ ~inserted =>
    \A k \in Keys : listed[k] # 0 =>
      listed[k] = 1 /\ (walk # "done" /\ k \in table => Rank(k) < cursor)

OffsetStable ==
  binding.mode = "offset" /\ Unhindered /\ ~deleted =>
    \A k \in Missed : walk # "done" /\ Rank(k) >= cursor

\* All that is known of a walk between two pages.
IInv ==
  TypeOK /\ Position /\ KeysetListed /\ KeysetStable /\ OffsetListed /\ OffsetStable

-----------------------------------------------------------------------------
(* A statement of the documentation that the code does not keep. *)

\* types.rs, ListQueryMode::Offset: in OFFSET :2 ROWS FETCH NEXT :1 ROWS ONLY the
\* page size is :1 and the offset :2, so that a walk lists whatever stays.
OffsetListsAll ==
  walk = "done" /\ binding.mode = "offset" /\ ~deleted => Missed = {}
==============================================================================
