----------------------------- MODULE CallInputs -----------------------------
(***************************************************************************)
(* What a call's arguments become: the values that a binding's CEL params  *)
(* evaluate to, the binds those are lowered to (src/src/params.rs), and    *)
(* the dictionary query of the catalog operations with its owner and table *)
(* filters (src/src/catalog.rs).                                           *)
(*                                                                         *)
(* JSON, CEL and bind values are records of a type and a value.  Numbers   *)
(* are scaled down: doubles are exact up to ExactMax (2^53), i64 ends at   *)
(* I64Max and u64 at U64Max.  A float stands for its whole part.  The      *)
(* string of value 0 is the empty one.                                     *)
(***************************************************************************)
EXTENDS Integers, Sequences

CONSTANTS ArgNames, ExactMax, I64Max, U64Max

NoName == "no_argument"

ASSUME ScaleAssumption ==
  /\ ExactMax \in Nat \ {0} /\ I64Max \in Nat /\ U64Max \in Nat
  /\ ExactMax < I64Max /\ I64Max < U64Max
  /\ NoName \notin ArgNames

Elements(s) == {s[i] : i \in DOMAIN s}

V(type, value) == [type |-> type, value |-> value]

\* An integer beyond u64 is parsed as a float.
Json ==
  [type : {"null", "bool", "array", "object"}, value : {0}]
    \cup [type : {"string"}, value : {0, 1}]
    \cup [type : {"integer"}, value : {0, I64Max, I64Max + 2}]
    \cup [type : {"float"}, value : {ExactMax}]

\* The arguments of a call: a JSON value per name that is present.
ArgumentsOver(names) == UNION {[present -> Json] : present \in SUBSET names}

-----------------------------------------------------------------------------
(* params.rs *)

Failed     == V("failed", 0)
Unbindable == V("unbindable", 0)

\* A param reads an argument; it may guard against its absence, it may compute,
\* it may fall back to another argument, or it may read by index.  The last two
\* matter to input_schema and occur alone.
Reads == [form : {"read", "optional", "reciprocal"}, name : ArgNames, other : {NoName}]

LoneReads ==
  [form : {"index"}, name : ArgNames, other : {NoName}]
    \cup [form : {"either"}, name : ArgNames, other : ArgNames]

Params ==
  {<<>>} \cup {<<p>> : p \in Reads \cup LoneReads} \cup {<<p, q>> : p \in Reads, q \in Reads}

\* A param's CEL source, in tokens; round brackets and quotes are left out.
Source(p) ==
  CASE p.form = "read"       -> <<"arguments", ".", p.name>>
    [] p.form = "optional"   -> <<"has", "arguments", ".", p.name, "?",
                                  "arguments", ".", p.name, ":", "null">>
    [] p.form = "reciprocal" -> <<"1.0", "/", "double", "arguments", ".", p.name>>
    [] p.form = "either"     -> <<"has", "arguments", ".", p.name, "?",
                                  "arguments", ".", p.name, ":", "arguments", ".", p.other>>
    [] p.form = "index"      -> <<"arguments", "[", p.name, "]">>

\* The argument whose value a param reads.
Chosen(p, arguments) ==
  IF p.form = "either" /\ p.name \notin DOMAIN arguments THEN p.other ELSE p.name

JsonToCel(v) ==
  CASE v.type = "integer" -> V(IF v.value <= I64Max THEN "int" ELSE "uint", v.value)
    [] v.type = "array"   -> V("list", v.value)
    [] v.type = "object"  -> V("map", v.value)
    [] OTHER              -> v

\* What the CEL library makes of a param.
EvalCel(p, arguments) ==
  LET present == Chosen(p, arguments) \in DOMAIN arguments
      operand == JsonToCel(arguments[Chosen(p, arguments)])
  IN  CASE p.form \in {"read", "either", "index"} -> IF present THEN operand ELSE Failed
        [] p.form = "optional" -> IF present THEN operand ELSE V("null", 0)
        [] p.form = "reciprocal" ->
             IF ~present THEN Failed
             ELSE IF operand.type \notin {"int", "uint", "float"} THEN Failed
             ELSE IF operand.value = 0 THEN V("non_finite", 0)
             ELSE V("float", 1 \div operand.value)

\* A float that JSON cannot write becomes null.
CelToJson(v) ==
  CASE v.type \in {"int", "uint"} -> V("integer", v.value)
    [] v.type = "non_finite"      -> V("null", 0)
    [] v.type = "list"            -> V("array", v.value)
    [] v.type = "map"             -> V("object", v.value)
    [] OTHER                      -> v

\* evaluate_params
Evaluate(params, arguments) ==
  [i \in DOMAIN params |-> CelToJson(EvalCel(params[i], arguments))]

Pow2[e \in Nat] == IF e = 0 THEN 1 ELSE 2 * Pow2[e - 1]

Doubles == {n * Pow2[e] : n \in 0 .. ExactMax, e \in 0 .. U64Max \div ExactMax}

NearestDouble(n) ==
  LET Distance(d) == IF d < n THEN n - d ELSE d - n
  IN  CHOOSE d \in Doubles : \A e \in Doubles : Distance(d) <= Distance(e)

\* Mutant: as_f64 is asked before as_i64.
ToBindFloatFirst(v) ==
  CASE v.type = "integer" -> V("float", NearestDouble(v.value))
    [] v.type \in {"array", "object"} -> Unbindable
    [] OTHER -> v

\* json_to_oracle_bind.  A bool is bound as 0 or 1 (bind_box), which its value
\* already is.
ToBind(v) ==
  CASE v.type = "integer" /\ v.value <= I64Max -> V("int", v.value)
    [] v.type = "integer" /\ v.value > I64Max  -> V("float", NearestDouble(v.value))
    [] v.type \in {"array", "object"} -> Unbindable
    [] OTHER -> v

Binds(params, arguments) ==
  LET values == Evaluate(params, arguments)
  IN  [i \in DOMAIN values |-> ToBind(values[i])]

-----------------------------------------------------------------------------
(* catalog.rs *)

Absent == V("absent", 0)

\* An operator's owner and table filters and the arguments that override them.
Filters ==
  [owner : {Absent, V("string", 0), V("string", 2)},
   table : {Absent, V("string", 0), V("string", 3)},
   ownerArg : {NoName} \cup ArgNames, tableArg : {NoName} \cup ArgNames]

Nonempty(v) == v.type = "string" /\ v.value # 0

\* Mutant: an empty argument wins, too.
ResolveEmptyWins(static, name, arguments) ==
  IF name \in DOMAIN arguments /\ arguments[name].type = "string" THEN arguments[name]
  ELSE IF Nonempty(static) THEN static ELSE Absent

\* resolve_one
Resolve(static, name, arguments) ==
  IF name \in DOMAIN arguments /\ Nonempty(arguments[name]) THEN arguments[name]
  ELSE IF Nonempty(static) THEN static ELSE Absent

\* A predicate of the dictionary query that has a placeholder, and its bind.
Predicate(placeholder, filter) ==
  IF filter = Absent THEN <<>> ELSE <<[placeholder |-> placeholder, bind |-> filter]>>

\* Mutant: the table's predicate is added after the owner's, its bind before.
BuildQueryBindsSwapped(filters, arguments) ==
  LET owner == Predicate("owner", Resolve(filters.owner, filters.ownerArg, arguments))
      table == Predicate("tbl", Resolve(filters.table, filters.tableArg, arguments))
      written == owner \o table
      bound   == table \o owner
  IN  [placeholders |-> [i \in DOMAIN written |-> written[i].placeholder],
       binds        |-> [i \in DOMAIN bound |-> bound[i].bind]]

\* build_query.  Without an owner the predicate is owner = USER.
BuildQuery(filters, arguments) ==
  LET owner == Predicate("owner", Resolve(filters.owner, filters.ownerArg, arguments))
      table == Predicate("tbl", Resolve(filters.table, filters.tableArg, arguments))
      parts == owner \o table
  IN  [placeholders |-> [i \in DOMAIN parts |-> parts[i].placeholder],
       binds        |-> [i \in DOMAIN parts |-> parts[i].bind]]

-----------------------------------------------------------------------------
(* input_schema *)

\* Mutant: only the owner's argument is named.
FilterArgumentsOwnerOnly(filters) == {filters.ownerArg} \ {NoName}

\* argument_names
FilterArguments(filters) == {filters.ownerArg, filters.tableArg} \ {NoName}

\* Where `arguments.` is found in a source.
Markers(source) ==
  {i \in 1 .. Len(source) - 2 : source[i] = "arguments" /\ source[i + 1] = "."}

\* Mutant: the search does not go on after the first find.
ArgumentIdentsFirst(source) ==
  {source[i + 2] : i \in {j \in Markers(source) : \A k \in Markers(source) : j <= k}}

\* extract_argument_idents: the identifiers right after it.
ArgumentIdents(source) == {source[i + 2] : i \in Markers(source)}

\* arguments_referenced_by_params
ParamArguments(params) == UNION {ArgumentIdents(Source(p)) : p \in Elements(params)}
==============================================================================
