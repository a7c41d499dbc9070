----------------------------- MODULE Completion -----------------------------
(***************************************************************************)
(* The candidates for a template variable (complete_template_variable in   *)
(* src/src/lib.rs): the strings in the first column of the operator's      *)
(* statement.  The rows reach it as JSON objects (row_to_json in           *)
(* src/src/oracle.rs), so the first column is the first key of one, and    *)
(* which key that is depends on the build: serde_json keeps the keys       *)
(* sorted, unless a crate in the build asks it to keep them as inserted.   *)
(*                                                                         *)
(* Column names are numbers in the order of their bytes.  A cell is the    *)
(* set of reads that succeed on it, or NullCell, on which all return None. *)
(***************************************************************************)
EXTENDS Integers, Sequences

CONSTANTS ColumnNames, MaxRows

ASSUME CompletionAssumption == ColumnNames \subseteq Nat /\ MaxRows \in Nat

KeyOrders == {"sorted", "inserted"}

NullCell == {"none"}

\* "number" and "text" stand for the types that column_to_json groups with them;
\* dates, intervals and whatever it does not name are read as text, too.
CellsOf ==
  [number  |-> {NullCell, {"i64", "f64", "text"}, {"f64", "text"}, {"inf", "text"}, {}},
   text    |-> {NullCell, {"text"}, {}},
   binary  |-> {NullCell, {"bytes", "text"}, {"text"}, {}},
   boolean |-> {NullCell, {"bool", "text"}, {"text"}, {}}]

OneColumn  == {<<t>> : t \in DOMAIN CellsOf}
TwoColumns == {<<"text", "text">>, <<"text", "number">>, <<"number", "text">>}

\* A statement's result with the variable's max_results.
Results ==
  UNION {LET width == DOMAIN types
             Row == {row \in [width -> UNION {CellsOf[t] : t \in DOMAIN CellsOf}] :
                       \A i \in width : row[i] \in CellsOf[types[i]]}
         IN  [columns : [width -> ColumnNames], types : {types},
              rows : UNION {[1 .. k -> Row] : k \in 0 .. MaxRows},
              max : 0 .. MaxRows] : types \in OneColumn \cup TwoColumns}

-----------------------------------------------------------------------------
(* Columns to JSON; what a value is does not matter, only what becomes of it *)

StringToJson(cell) == IF "text" \in cell THEN "string" ELSE "null"

\* Mutant: a number that JSON cannot write is null.
NumberToJsonOrNull(cell) == IF cell \cap {"i64", "f64"} # {} THEN "number" ELSE "null"

\* As i64, else as f64 if that is finite, else as it is written.
NumberToJson(cell) ==
  IF cell \cap {"i64", "f64"} # {} THEN "number" ELSE StringToJson(cell)

ColumnToJson(type, cell) ==
  CASE cell = NullCell -> "null"
    [] cell # NullCell /\ type = "number"  -> NumberToJson(cell)
    [] cell # NullCell /\ type = "text"    -> StringToJson(cell)
    [] cell # NullCell /\ type = "binary"  ->
         IF "bytes" \in cell THEN "string" ELSE StringToJson(cell)
    [] cell # NullCell /\ type = "boolean" ->
         IF "bool" \in cell THEN "bool" ELSE StringToJson(cell)

JsonCell(r, row, column) == ColumnToJson(r.types[column], r.rows[row][column])

\* row_to_json: which column a name stands for in the object.  A name that occurs
\* twice keeps its first place and its last cell.
ColumnNamed(r, name) ==
  CHOOSE i \in DOMAIN r.columns :
    /\ r.columns[i] = name
    /\ \A j \in DOMAIN r.columns : r.columns[j] = name => j <= i

-----------------------------------------------------------------------------
(* Rows to candidates *)

FirstKey(columns, order) ==
  IF order = "inserted" THEN columns[1]
  ELSE CHOOSE n \in ColumnNames :
         /\ \E i \in DOMAIN columns : columns[i] = n
         /\ \A i \in DOMAIN columns : n <= columns[i]

\* The statement stops at max rows.
Fetched(r) == 1 .. (IF Len(r.rows) < r.max THEN Len(r.rows) ELSE r.max)

StringsOf(r, column) ==
  SelectSeq([row \in Fetched(r) |-> [row |-> row, column |-> column]],
            LAMBDA c : JsonCell(r, c.row, c.column) = "string")

\* rows_to_completion_values: a cell that is no string is passed over, and no
\* other row takes its place.
Candidates(r, order) == StringsOf(r, ColumnNamed(r, FirstKey(r.columns, order)))
==============================================================================
