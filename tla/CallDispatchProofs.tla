-------------------------- MODULE CallDispatchProofs --------------------------
(***************************************************************************)
(* The inductive invariant IInv of CallDispatch holds for any argument     *)
(* names and any widths of the numbers, and with it what a call tells its  *)
(* caller, the metrics and the audit log, and how its arguments become the *)
(* binds of its statement.                                                 *)
(***************************************************************************)
EXTENDS CallDispatch, WellFoundedInduction, TLAPS

USE ScaleAssumption, CompletionAssumption

-------------------------------------------------------------------------------
(* catalog.rs: the dictionary query *)

\* A filter is absent, what the operator set, or what the caller sent, and never
\* the empty string; a filter that the operator set is never absent.
LEMMA ResolveGiven ==
  ASSUME NEW static, NEW name, NEW args,
         static = Absent \/ static.type = "string"
  PROVE  LET r == Resolve(static, name, args)
         IN  /\ r # Absent =>
                  Nonempty(r) /\ r \in {static} \cup {args[n] : n \in {name} \cap DOMAIN args}
             /\ Nonempty(static) => r # Absent
  BY DEF Resolve, Nonempty, Absent, V

\* Placeholders and binds go together, and none is left out.
LEMMA BuildQueryShape ==
  ASSUME NEW filters, NEW args
  PROVE  LET o == Resolve(filters.owner, filters.ownerArg, args)
             t == Resolve(filters.table, filters.tableArg, args)
             q == BuildQuery(filters, args)
         IN  /\ DOMAIN q.binds = DOMAIN q.placeholders
             /\ \A i \in DOMAIN q.binds :
                  \/ o # Absent /\ q.placeholders[i] = "owner" /\ q.binds[i] = o
                  \/ t # Absent /\ q.placeholders[i] = "tbl" /\ q.binds[i] = t
             /\ o # Absent => "owner" \in Elements(q.placeholders)
             /\ t # Absent => "tbl" \in Elements(q.placeholders)
<1>. PICK o : o = Resolve(filters.owner, filters.ownerArg, args)
  OBVIOUS
<1>. PICK t : t = Resolve(filters.table, filters.tableArg, args)
  OBVIOUS
<1>. PICK q : q = BuildQuery(filters, args)
  OBVIOUS
<1>. DEFINE owner == [placeholder |-> "owner", bind |-> o]
            table == [placeholder |-> "tbl", bind |-> t]
<1>1. PICK parts : parts = Predicate("owner", o) \o Predicate("tbl", t)
  OBVIOUS
<1>2. /\ q.placeholders = [i \in DOMAIN parts |-> parts[i].placeholder]
      /\ q.binds = [i \in DOMAIN parts |-> parts[i].bind]
  BY <1>1 DEF BuildQuery
<1>3. /\ DOMAIN q.binds = DOMAIN parts /\ DOMAIN q.placeholders = DOMAIN parts
      /\ \A i \in DOMAIN parts : /\ q.placeholders[i] = parts[i].placeholder
                                /\ q.binds[i] = parts[i].bind
  BY <1>2
<1>4. /\ \A i \in DOMAIN parts :
           \/ o # Absent /\ parts[i] = [placeholder |-> "owner", bind |-> o]
           \/ t # Absent /\ parts[i] = [placeholder |-> "tbl", bind |-> t]
      /\ o # Absent => \E i \in DOMAIN parts : parts[i].placeholder = "owner"
      /\ t # Absent => \E i \in DOMAIN parts : parts[i].placeholder = "tbl"
  <2>1. CASE o = Absent /\ t = Absent
    <3>1. parts = <<>> /\ DOMAIN parts = {}
      BY <1>1, <2>1 DEF Predicate
    <3>. QED
      BY <2>1, <3>1
  <2>2. CASE o # Absent /\ t = Absent
    <3>1. DOMAIN parts = {1} /\ parts[1] = owner
      BY <1>1, <2>2 DEF Predicate
    <3>. QED
      BY <2>2, <3>1
  <2>3. CASE o = Absent /\ t # Absent
    <3>1. DOMAIN parts = {1} /\ parts[1] = table
      BY <1>1, <2>3 DEF Predicate
    <3>. QED
      BY <2>3, <3>1
  <2>4. CASE o # Absent /\ t # Absent
    <3>1. DOMAIN parts = {1, 2} /\ parts[1] = owner /\ parts[2] = table
      BY <1>1, <2>4 DEF Predicate
    <3>. QED
      BY <2>4, <3>1
  <2>. QED
    BY <2>1, <2>2, <2>3, <2>4
<1>. QED
  BY <1>3, <1>4 DEF Elements

\* The query does not depend on arguments its filters do not name.
LEMMA BuildQueryNames ==
  ASSUME NEW filters \in Filters, NEW args, NEW n \in ArgNames \ FilterArguments(filters),
         NEW more, \A a : a # n => /\ a \in DOMAIN more <=> a \in DOMAIN args
                                   /\ a \in DOMAIN args => more[a] = args[a]
  PROVE  BuildQuery(filters, more) = BuildQuery(filters, args)
<1>1. n # filters.ownerArg /\ n # filters.tableArg
  BY DEF FilterArguments
<1>2. /\ Resolve(filters.owner, filters.ownerArg, more)
           = Resolve(filters.owner, filters.ownerArg, args)
      /\ Resolve(filters.table, filters.tableArg, more)
           = Resolve(filters.table, filters.tableArg, args)
  BY <1>1 DEF Resolve
<1>. QED
  BY <1>2 DEF BuildQuery

-------------------------------------------------------------------------------
(* Doubles *)

\* Every nonempty set of naturals has a least element.
LEMMA Least ==
  ASSUME NEW S \in SUBSET Nat, S # {}
  PROVE  \E x \in S : \A y \in S : x <= y
<1>1. PICK R : R = OpToRel(<, Nat)
  OBVIOUS
<1>2. IsWellFoundedOn(R, Nat)
  BY <1>1, NatLessThanWellFounded
<1>3. PICK x \in S : \A y \in S : <<y, x>> \notin R
  BY <1>2, WFMin
<1>4. \A y \in Nat, z \in Nat : y < z => <<y, z>> \in R
  BY <1>1 DEF OpToRel
<1>5. ASSUME NEW y \in S
      PROVE  x <= y
  <2>1. x \in Nat /\ y \in Nat /\ ~(y < x)
    BY <1>3, <1>4
  <2>. QED
    BY <2>1
<1>. QED
  BY <1>5

\* Induction, for a set of naturals.
LEMMA Induction ==
  ASSUME NEW S, 0 \in S, \A n \in Nat : n \in S => n + 1 \in S
  PROVE  \A n \in Nat : n \in S
<1>. DEFINE T == {n \in Nat : n \notin S}
<1>. SUFFICES ASSUME T # {}
              PROVE  FALSE
  OBVIOUS
<1>1. PICK x \in T : \A y \in T : x <= y
  BY Least
<1>2. x # 0 /\ x - 1 \in Nat /\ x - 1 \notin T
  BY <1>1
<1>. QED
  BY <1>2

\* The definition of Pow2 does define a function.
LEMMA Pow2Is ==
  /\ Pow2[0] = 1
  /\ \A e \in Nat : Pow2[e + 1] = 2 * Pow2[e]
<1>. DEFINE Powers(n) == {g \in [0 .. n -> Nat] :
                            g[0] = 1 /\ \A i \in 0 .. n : i < n => g[i + 1] = 2 * g[i]}
            Some == {n \in Nat : Powers(n) # {}}
<1>1. \A n \in Nat : n \in Some
  <2>1. 0 \in Some
    <3>1. [i \in 0 .. 0 |-> 1] \in Powers(0)
      OBVIOUS
    <3>. QED
      BY <3>1
  <2>2. ASSUME NEW n \in Nat, n \in Some
        PROVE  n + 1 \in Some
    <3>1. PICK g : g \in Powers(n)
      BY <2>2
    <3>2. PICK h : h = [i \in 0 .. n + 1 |-> IF i = n + 1 THEN 2 * g[n] ELSE g[i]]
      OBVIOUS
    <3>3. h \in [0 .. n + 1 -> Nat]
      BY <3>1, <3>2
    <3>4. h[0] = 1
      BY <3>1, <3>2
    <3>5. ASSUME NEW i \in 0 .. n + 1, i < n + 1
          PROVE  h[i + 1] = 2 * h[i]
      BY <3>1, <3>2, <3>5
    <3>6. h \in Powers(n + 1)
      BY <3>3, <3>4, <3>5
    <3>. HIDE DEF Powers
    <3>. QED
      BY <3>6
  <2>. HIDE DEF Some
  <2>. QED
    BY <2>1, <2>2, Induction
<1>2. ASSUME NEW n \in Nat, NEW m \in Nat, NEW g \in Powers(n), NEW h \in Powers(m)
      PROVE  \A i \in Nat : i <= n /\ i <= m => g[i] = h[i]
  <2>. DEFINE Same == {i \in Nat : i <= n /\ i <= m => g[i] = h[i]}
  <2>1. 0 \in Same
    OBVIOUS
  <2>2. ASSUME NEW i \in Nat, i \in Same
        PROVE  i + 1 \in Same
    BY <2>2
  <2>3. \A i \in Nat : i \in Same
    <3>. HIDE DEF Same
    <3>. QED
      BY <2>1, <2>2, Induction
  <2>. QED
    BY <2>3
<1>3. PICK f : /\ f = [n \in Nat |-> f[n]]
              /\ \A n \in Nat : \E g \in Powers(n) : f[n] = g[n]
  <2>1. PICK c : \A n \in Nat : c[n] \in Powers(n)
    <3>. DEFINE chosen == [n \in Nat |-> CHOOSE g : g \in Powers(n)]
    <3>1. \A n \in Nat : chosen[n] \in Powers(n)
      <4>. HIDE DEF Powers
      <4>. QED
        BY <1>1
    <3>. QED
      BY <3>1
  <2>2. PICK h : h = [n \in Nat |-> c[n][n]]
    OBVIOUS
  <2>3. h = [n \in Nat |-> h[n]] /\ \A n \in Nat : h[n] = c[n][n]
    BY <2>2
  <2>. HIDE DEF Powers
  <2>. QED
    BY <2>1, <2>3
<1>4. f[0] = 1
  BY <1>3
<1>5. ASSUME NEW n \in Nat
      PROVE  f[n + 1] = 2 * f[n]
  <2>1. PICK g \in Powers(n + 1) : f[n + 1] = g[n + 1]
    <3>1. n + 1 \in Nat
      OBVIOUS
    <3>. HIDE DEF Powers
    <3>. QED
      BY <1>3, <3>1
  <2>2. PICK h \in Powers(n) : f[n] = h[n]
    BY <1>3
  <2>3. g[n] = h[n]
    <3>. HIDE DEF Powers
    <3>. QED
      BY <1>2
  <2>4. g[n + 1] = 2 * g[n]
    OBVIOUS
  <2>. QED
    BY <2>1, <2>2, <2>3, <2>4
<1>6. f = [e \in Nat |-> IF e = 0 THEN 1 ELSE 2 * f[e - 1]]
  <2>1. ASSUME NEW e \in Nat
        PROVE  f[e] = IF e = 0 THEN 1 ELSE 2 * f[e - 1]
    <3>1. CASE e = 0
      BY <1>4, <3>1
    <3>2. CASE e # 0
      <4>1. e - 1 \in Nat /\ (e - 1) + 1 = e
        BY <3>2
      <4>2. f[(e - 1) + 1] = 2 * f[e - 1]
        BY <1>5, <4>1
      <4>. QED
        BY <3>2, <4>1, <4>2
    <3>. QED
      BY <3>1, <3>2
  <2>. QED
    BY <1>3, <2>1
<1>7. Pow2 = [e \in Nat |-> IF e = 0 THEN 1 ELSE 2 * Pow2[e - 1]]
  <2>1. \E g : g = [e \in Nat |-> IF e = 0 THEN 1 ELSE 2 * g[e - 1]]
    BY <1>6
  <2>. QED
    BY <2>1 DEF Pow2
<1>. QED
  BY <1>7

\* Powers of two outgrow their exponents.
LEMMA Pow2Grows ==
  ASSUME NEW e \in Nat
  PROVE  Pow2[e] \in Nat /\ Pow2[e] >= e + 1
<1>. DEFINE S == {n \in Nat : Pow2[n] \in Nat /\ Pow2[n] >= n + 1}
<1>1. 0 \in S
  BY Pow2Is
<1>2. ASSUME NEW n \in Nat, n \in S
      PROVE  n + 1 \in S
  BY <1>2, Pow2Is
<1>3. \A n \in Nat : n \in S
  <2>. HIDE DEF S
  <2>. QED
    BY <1>1, <1>2, Induction
<1>. QED
  BY <1>3

\* Multiplication keeps the order of naturals.
LEMMA TimesMonotone ==
  ASSUME NEW k \in Nat, NEW m \in Nat, NEW n \in Nat, m <= n
  PROVE  k * m <= k * n /\ k * m \in Nat /\ k * n \in Nat
  OBVIOUS

\* An integer up to the end of u64 has a double within one part in ExactMax.
LEMMA DoubleNear ==
  ASSUME NEW n \in Nat, n <= U64Max + 1
  PROVE  \E d \in Doubles : ExactMax * (d - n) <= n /\ ExactMax * (n - d) <= n
<1>. DEFINE K == U64Max \div ExactMax
<1>1. K \in Nat /\ U64Max + 1 <= ExactMax * (K + 1)
  OBVIOUS
<1>2. CASE n <= ExactMax
  <2>1. n * Pow2[0] = n /\ n \in 0 .. ExactMax /\ 0 \in 0 .. K
    BY <1>1, <1>2, Pow2Is
  <2>2. n \in Doubles
    BY <2>1 DEF Doubles
  <2>3. ExactMax * (n - n) = 0
    OBVIOUS
  <2>. QED
    BY <2>2, <2>3
<1>3. CASE n > ExactMax
  <2>. DEFINE Big == {e \in Nat : n <= ExactMax * Pow2[e]}
  <2>1. K \in Big
    <3>1. Pow2[K] \in Nat /\ K + 1 <= Pow2[K]
      BY <1>1, Pow2Grows
    <3>2. ExactMax * (K + 1) <= ExactMax * Pow2[K] /\ ExactMax * (K + 1) \in Nat /\ ExactMax * Pow2[K] \in Nat
      BY <1>1, <3>1, TimesMonotone
    <3>. QED
      BY <1>1, <3>2
  <2>2. PICK E \in Big : \A e \in Big : E <= e
    BY <2>1, Least
  <2>3. E \in Nat /\ E <= K /\ E # 0 /\ E - 1 \in Nat
    BY <1>3, <2>1, <2>2, Pow2Is
  <2>4. PICK s \in Nat : s = Pow2[E - 1] /\ Pow2[E] = 2 * s
    BY <2>3, Pow2Is, Pow2Grows
  <2>5. ExactMax * s < n /\ n <= ExactMax * (2 * s)
    BY <2>2, <2>3, <2>4
  <2>. DEFINE Up == {q \in Nat : n <= q * (2 * s)}
  <2>6. ExactMax \in Up
    BY <2>5
  <2>7. PICK q \in Up : \A r \in Up : q <= r
    BY <2>6, Least
  <2>8. q \in Nat /\ q <= ExactMax /\ q # 0 /\ q - 1 \in Nat
    BY <1>3, <2>6, <2>7
  <2>9. PICK lo \in Nat, hi \in Nat : lo = (q - 1) * (2 * s) /\ hi = q * (2 * s)
    BY <2>8
  <2>10. lo < n /\ n <= hi
    BY <2>7, <2>8, <2>9
  <2>11. hi = lo + 2 * s
    BY <2>8, <2>9
  <2>12. lo \in Doubles /\ hi \in Doubles
    BY <2>3, <2>4, <2>8, <2>9 DEF Doubles
  <2>13. CASE n - lo <= s
    <3>1. ExactMax * (n - lo) <= ExactMax * s /\ ExactMax * s \in Nat /\ n - lo \in Nat
      BY <2>10, <2>13, TimesMonotone
    <3>2. ExactMax * (lo - n) <= 0
      BY <2>10
    <3>. QED
      BY <2>5, <2>12, <3>1, <3>2
  <2>14. CASE ~(n - lo <= s)
    <3>1. hi - n \in Nat /\ hi - n <= s
      BY <2>10, <2>11, <2>14
    <3>2. ExactMax * (hi - n) <= ExactMax * s /\ ExactMax * s \in Nat
      BY <3>1, TimesMonotone
    <3>3. ExactMax * (n - hi) <= 0
      BY <2>10
    <3>. QED
      BY <2>5, <2>12, <3>2, <3>3
  <2>. QED
    BY <2>13, <2>14
<1>. QED
  BY <1>2, <1>3

\* The nearest double exists, and is as near.
LEMMA NearestIs ==
  ASSUME NEW n \in Nat, n <= U64Max + 1
  PROVE  LET d == NearestDouble(n)
         IN  ExactMax * (d - n) <= n /\ ExactMax * (n - d) <= n
<1>. DEFINE Distance(d) == IF d < n THEN n - d ELSE d - n
<1>1. Doubles \in SUBSET Nat
  <2>1. \A m \in 0 .. ExactMax, e \in 0 .. U64Max \div ExactMax : m * Pow2[e] \in Nat
    BY Pow2Grows
  <2>. QED
    BY <2>1 DEF Doubles
<1>2. PICK near \in Doubles : ExactMax * (near - n) <= n /\ ExactMax * (n - near) <= n
  BY DoubleNear
<1>3. \A d \in Doubles : Distance(d) \in Nat
  BY <1>1
<1>4. PICK m \in {Distance(d) : d \in Doubles} : \A k \in {Distance(d) : d \in Doubles} : m <= k
  <2>1. {Distance(d) : d \in Doubles} \in SUBSET Nat /\ {Distance(d) : d \in Doubles} # {}
    BY <1>2, <1>3
  <2>. QED
    BY <2>1, Least
<1>5. \E d \in Doubles : \A e \in Doubles : Distance(d) <= Distance(e)
  BY <1>4
<1>6. PICK d \in Doubles : d = NearestDouble(n) /\ \A e \in Doubles : Distance(d) <= Distance(e)
  BY <1>5 DEF NearestDouble
<1>7. Distance(d) <= Distance(near) /\ Distance(d) \in Nat /\ Distance(near) \in Nat
  BY <1>2, <1>3, <1>6
<1>8. ExactMax * Distance(d) <= ExactMax * Distance(near) /\ ExactMax * Distance(d) \in Nat
  BY <1>7, TimesMonotone
<1>9. ExactMax * Distance(near) <= n
  BY <1>1, <1>2
<1>10. ExactMax * Distance(d) <= n
  BY <1>1, <1>7, <1>8, <1>9
<1>11. d \in Nat
  BY <1>1
<1>12. CASE d < n
  <2>1. ExactMax * (d - n) <= 0
    BY <1>11, <1>12
  <2>. QED
    BY <1>6, <1>10, <1>11, <1>12, <2>1
<1>13. CASE ~(d < n)
  <2>1. ExactMax * (n - d) <= 0
    BY <1>11, <1>13
  <2>. QED
    BY <1>6, <1>10, <1>11, <1>13, <2>1
<1>. QED
  BY <1>12, <1>13

-------------------------------------------------------------------------------
(* params.rs: values and binds *)

\* A JSON value by its type.
LEMMA JsonType ==
  ASSUME NEW v \in Json
  PROVE  /\ v.type \in {"null", "bool", "array", "object", "string", "integer", "float"}
         /\ v = V(v.type, v.value) /\ v.value \in Nat
         /\ v.type = "integer" => v.value \in {0, I64Max, I64Max + 2}
         /\ v.type \in {"null", "bool", "array", "object"} => v.value = 0
  BY DEF Json, V

\* A param that reads an argument is bound as it is, unless its integer is beyond
\* i64; arrays and objects are refused.
LEMMA ReadBind ==
  ASSUME NEW v \in Json
  PROVE  LET b == ToBind(CelToJson(JsonToCel(v)))
         IN  /\ v.type \in {"array", "object"} => b = Unbindable
             /\ v.type \in {"null", "bool", "string", "float"} => b = v
             /\ v.type = "integer" /\ v.value <= I64Max => b = V("int", v.value)
             /\ v.type = "integer" /\ v.value > I64Max => b = V("float", NearestDouble(v.value))
<1>1. CASE v.type \in {"array", "object"}
  BY <1>1, JsonType DEF ToBind, CelToJson, JsonToCel, Unbindable, V
<1>2. CASE v.type \in {"null", "bool", "string", "float"}
  BY <1>2, JsonType DEF ToBind, CelToJson, JsonToCel, V
<1>3. CASE v.type = "integer"
  BY <1>3, JsonType DEF ToBind, CelToJson, JsonToCel, V
<1>. QED
  BY <1>1, <1>2, <1>3, JsonType

\* The params of a binding, one by one.
LEMMA ParamType ==
  ASSUME NEW params \in Params, NEW i \in DOMAIN params
  PROVE  /\ params[i].form \in {"read", "optional", "reciprocal", "index", "either"}
         /\ params[i].name \in ArgNames
         /\ params[i].form = "either" => params[i].other \in ArgNames
<1>1. CASE params = <<>>
  BY <1>1
<1>2. CASE \E p \in Reads \cup LoneReads : params = <<p>>
  BY <1>2 DEF Reads, LoneReads
<1>3. CASE \E p \in Reads, q \in Reads : params = <<p, q>>
  BY <1>3 DEF Reads
<1>. QED
  BY <1>1, <1>2, <1>3 DEF Params

\* The scan of a param's source finds each argument that the param reads, but for
\* one that it reads by index.
LEMMA ReadsAreScanned ==
  ASSUME NEW p, p.form \in {"read", "optional", "reciprocal", "either"}
  PROVE  /\ p.name \in ArgumentIdents(Source(p))
         /\ p.form = "either" => p.other \in ArgumentIdents(Source(p))
<1>1. CASE p.form = "read"
  <2>1. Source(p) = <<"arguments", ".", p.name>>
    BY <1>1 DEF Source
  <2>2. 1 \in Markers(Source(p)) /\ Source(p)[1 + 2] = p.name
    BY <2>1 DEF Markers
  <2>. QED
    BY <1>1, <2>2 DEF ArgumentIdents
<1>2. CASE p.form = "optional"
  <2>1. Source(p) = <<"has", "arguments", ".", p.name, "?", "arguments", ".", p.name, ":", "null">>
    BY <1>2 DEF Source
  <2>2. 2 \in Markers(Source(p)) /\ Source(p)[2 + 2] = p.name
    BY <2>1 DEF Markers
  <2>. QED
    BY <1>2, <2>2 DEF ArgumentIdents
<1>3. CASE p.form = "reciprocal"
  <2>1. Source(p) = <<"1.0", "/", "double", "arguments", ".", p.name>>
    BY <1>3 DEF Source
  <2>2. 4 \in Markers(Source(p)) /\ Source(p)[4 + 2] = p.name
    BY <2>1 DEF Markers
  <2>. QED
    BY <1>3, <2>2 DEF ArgumentIdents
<1>4. CASE p.form = "either"
  <2>1. Source(p) = <<"has", "arguments", ".", p.name, "?", "arguments", ".", p.name, ":",
                      "arguments", ".", p.other>>
    BY <1>4 DEF Source
  <2>2. 2 \in Markers(Source(p)) /\ Source(p)[2 + 2] = p.name
    BY <2>1 DEF Markers
  <2>3. 10 \in Markers(Source(p)) /\ Source(p)[10 + 2] = p.other
    BY <2>1 DEF Markers
  <2>. QED
    BY <2>2, <2>3 DEF ArgumentIdents
<1>. QED
  BY <1>1, <1>2, <1>3, <1>4

\* An argument that is present is a JSON value.
LEMMA ArgumentType ==
  ASSUME NEW args \in ArgumentsOver(ArgNames), NEW n \in DOMAIN args
  PROVE  args[n] \in Json
  BY DEF ArgumentsOver

\* A param that evaluates and binds: what it is bound as.
LEMMA ParamBind ==
  ASSUME NEW p, p.form \in {"read", "optional", "reciprocal", "index", "either"},
         NEW args \in ArgumentsOver(ArgNames), NEW n, n = Chosen(p, args),
         CelToJson(EvalCel(p, args)) # Failed,
         ToBind(CelToJson(EvalCel(p, args))) # Unbindable
  PROVE  LET b == ToBind(CelToJson(EvalCel(p, args)))
         IN  /\ p.form # "reciprocal" /\ n \in DOMAIN args =>
                  IF args[n].type # "integer" THEN b = args[n]
                  ELSE args[n].value <= I64Max => b = V("int", args[n].value)
             /\ b.type = "null" =>
                  \/ p.form = "optional" /\ n \notin DOMAIN args
                  \/ p.form = "reciprocal" /\ args[n].value = 0
                  \/ p.form # "reciprocal" /\ args[n].type = "null"
<1>. DEFINE b == ToBind(CelToJson(EvalCel(p, args)))
<1>1. CASE p.form # "reciprocal" /\ n \in DOMAIN args
  <2>1. EvalCel(p, args) = JsonToCel(args[n]) /\ args[n] \in Json
    BY <1>1, ArgumentType DEF EvalCel
  <2>. QED
    BY <1>1, <2>1, ReadBind, JsonType DEF V
<1>2. CASE p.form # "reciprocal" /\ n \notin DOMAIN args
  <2>1. p.form = "optional"
    BY <1>2 DEF EvalCel, CelToJson, Failed, V
  <2>. QED
    BY <1>2, <2>1
<1>3. CASE p.form = "reciprocal"
  <2>1. n \in DOMAIN args
    BY <1>3 DEF EvalCel, CelToJson, Failed, V
  <2>2. PICK v \in Json : v = args[n]
    BY <2>1, ArgumentType
  <2>3. JsonToCel(v).type \in {"int", "uint", "float"} /\ JsonToCel(v).value = v.value
    BY <1>3, <2>1, <2>2, JsonType DEF EvalCel, CelToJson, Failed, V, JsonToCel
  <2>4. v.value # 0 => b.type # "null"
    BY <1>3, <2>1, <2>2, <2>3 DEF EvalCel, CelToJson, ToBind, V
  <2>. QED
    BY <1>3, <2>1, <2>2, <2>4
<1>. QED
  BY <1>1, <1>2, <1>3

\* An integer beyond i64 is bound as a double that differs from it by no more than
\* one part in ExactMax.
LEMMA ParamBindNearly ==
  ASSUME NEW p, p.form \in {"read", "optional", "index", "either"},
         NEW args \in ArgumentsOver(ArgNames), NEW n, n = Chosen(p, args), n \in DOMAIN args,
         args[n].type = "integer", args[n].value > I64Max
  PROVE  LET b == ToBind(CelToJson(EvalCel(p, args)))
         IN  /\ b.type = "float"
             /\ ExactMax * (b.value - args[n].value) <= args[n].value
             /\ ExactMax * (args[n].value - b.value) <= args[n].value
<1>1. PICK v \in Json : v = args[n]
  BY ArgumentType
<1>2. EvalCel(p, args) = JsonToCel(v)
  BY <1>1 DEF EvalCel
<1>3. ToBind(CelToJson(JsonToCel(v))) = V("float", NearestDouble(v.value))
  BY <1>1, ReadBind
<1>4. v.value \in Nat /\ v.value <= U64Max + 1
  BY <1>1, JsonType
<1>. QED
  BY <1>1, <1>2, <1>3, <1>4, NearestIs DEF V

\* The binds do not depend on arguments that the scan of the params does not find
\* and no param reads by index.
LEMMA BindsNames ==
  ASSUME NEW params \in Params, NEW args, NEW n \in ArgNames \ ParamArguments(params),
         \A p \in Elements(params) : p.form = "index" => p.name # n,
         NEW more, \A a : a # n => /\ a \in DOMAIN more <=> a \in DOMAIN args
                                   /\ a \in DOMAIN args => more[a] = args[a]
  PROVE  Binds(params, more) = Binds(params, args)
<1>1. ASSUME NEW i \in DOMAIN params
      PROVE  EvalCel(params[i], more) = EvalCel(params[i], args)
  <2>1. PICK p : p = params[i]
    OBVIOUS
  <2>2. p.form \in {"read", "optional", "reciprocal", "index", "either"}
    BY <2>1, ParamType
  <2>3. p \in Elements(params) /\ n \notin ArgumentIdents(Source(p))
    BY <2>1 DEF ParamArguments, Elements
  <2>4. p.name # n /\ (p.form = "either" => p.other # n)
    BY <2>2, <2>3, ReadsAreScanned
  <2>5. Chosen(p, more) = Chosen(p, args) /\ Chosen(p, args) # n
    BY <2>4 DEF Chosen
  <2>. QED
    BY <2>1, <2>2, <2>5 DEF EvalCel
<1>2. Evaluate(params, more) = Evaluate(params, args)
  BY <1>1 DEF Evaluate
<1>. QED
  BY <1>2 DEF Binds

-------------------------------------------------------------------------------
(* The inductive invariant *)

\* What a registered binding can look like.
LEMMA BindingType ==
  ASSUME binding \in Bindings
  PROVE  /\ binding.params \in Params /\ binding.filters \in Filters
         /\ binding.op \in {"query", "execute"}
         /\ binding.surface \in {"tool", "resource", "prompt"}
<1>1. NoFilters \in Filters /\ <<>> \in Params
  BY DEF NoFilters, Filters, Params, Absent, V
<1>. QED
  BY <1>1 DEF Bindings

LEMMA NoArgumentsType == NoArguments \in ArgumentsOver(ArgNames)
<1>1. NoArguments = [a \in {} |-> Failed]
  BY DEF NoArguments
<1>2. NoArguments \in [{} -> Json] /\ {} \in SUBSET ArgNames
  BY <1>1
<1>. QED
  BY <1>2 DEF ArgumentsOver

LEMMA InitInv == Init => IInv
<1>. SUFFICES ASSUME Init
              PROVE  IInv
  OBVIOUS
<1>1. TypeOK
  <2>1. binding \in Bindings /\ request \in Requests \cup Completions
    BY Zenon DEF Init
  <2>2. arguments \in ArgumentsOver(ArgNames)
    BY NoArgumentsType DEF Init
  <2>3. /\ stage = "lookup" /\ ran = "none" /\ committed = FALSE /\ failure = NoFailure
        /\ reply = NoReply /\ label = "none" /\ metrics = 0
    BY Zenon DEF Init
  <2>4. committed \in BOOLEAN
    BY Zenon, <2>3
  <2>. QED
    BY <2>1, <2>2, <2>3, <2>4 DEF TypeOK, NoReply
<1>2. Stages
  BY DEF Init, Stages
<1>3. Runs /\ Statements /\ Concluded /\ Completed /\ CommittedErrorExplained
  BY DEF Init, Runs, Statements, Concluded, Completed, CommittedErrorExplained, NoReply
<1>. QED
  BY <1>1, <1>2, <1>3 DEF IInv

\* The lookup of the binding.
LEMMA LookUpInv ==
  ASSUME IInv, LookUp
  PROVE  IInv'
<1>. USE DEF LookUp, Conclude, Refusal, input, bound, outcome, emitted
<1>1. TypeOK'
  BY DEF IInv, TypeOK
<1>2. Stages'
  BY DEF IInv, Stages
<1>3. Statements' /\ Completed'
  BY DEF IInv, Statements, Completed
<1>4. Concluded'
  BY DEF IInv, Stages, Concluded, ReplyAgrees
<1>5. CommittedErrorExplained'
  BY DEF IInv, Stages, CommittedErrorExplained
<1>6. Runs'
  BY DEF IInv, Stages, Runs
<1>. QED
  BY <1>1, <1>2, <1>3, <1>4, <1>5, <1>6 DEF IInv

\* The payload.
LEMMA ParseInv ==
  ASSUME IInv, Parse
  PROVE  IInv'
<1>. USE DEF Parse, Conclude, Refusal, input, bound, outcome, emitted
<1>1. arguments' \in ArgumentsOver(ArgNames)
  <2>1. Mentioned \subseteq ArgNames
    BY DEF Mentioned
  <2>2. ArgumentsOver(Mentioned) \subseteq ArgumentsOver(ArgNames)
    BY <2>1 DEF ArgumentsOver
  <2>. QED
    BY <2>2, NoArgumentsType DEF IInv, TypeOK
<1>2. TypeOK'
  BY <1>1 DEF IInv, TypeOK
<1>3. Stages'
  BY DEF IInv, Stages
<1>4. Statements' /\ Completed'
  BY DEF IInv, Statements, Completed
<1>5. Concluded'
  BY DEF IInv, Stages, Concluded, ReplyAgrees
<1>6. CommittedErrorExplained'
  BY DEF IInv, Stages, CommittedErrorExplained
<1>7. Runs'
  BY DEF IInv, Stages, Runs
<1>. QED
  BY <1>2, <1>3, <1>4, <1>5, <1>6, <1>7 DEF IInv

\* Binding fails or succeeds.
LEMMA ParamsFailInv ==
  ASSUME IInv, ParamsFail
  PROVE  IInv'
<1>. USE DEF ParamsFail, Conclude, ErrorReply, input, emitted
<1>1. TypeOK'
  BY NoArgumentsType DEF IInv, TypeOK
<1>2. Stages'
  BY DEF IInv, Stages
<1>3. Statements' /\ Completed'
  BY DEF IInv, Statements, Completed
<1>4. Concluded'
  BY DEF IInv, Stages, Concluded, ReplyAgrees
<1>5. CommittedErrorExplained'
  BY DEF IInv, Stages, CommittedErrorExplained
<1>6. Runs'
  BY DEF IInv, Stages, Runs, IsCatalog
<1>. QED
  BY <1>1, <1>2, <1>3, <1>4, <1>5, <1>6 DEF IInv

LEMMA BindInv ==
  ASSUME IInv, ParamsBind \/ CatalogBind
  PROVE  IInv'
<1>. USE DEF ParamsBind, CatalogBind, input, outcome, emitted
<1>1. TypeOK'
  BY DEF IInv, TypeOK
<1>2. Stages'
  BY DEF IInv, Stages
<1>3. Statements'
  BY DEF Statements, StatementFor, IsCatalog, EvaluationFails, BindingFails
<1>4. Completed'
  BY DEF IInv, Completed
<1>5. Concluded' /\ CommittedErrorExplained'
  BY DEF IInv, Stages, Concluded, CommittedErrorExplained
<1>6. Runs'
  BY DEF IInv, Stages, Runs, IsCatalog
<1>. QED
  BY <1>1, <1>2, <1>3, <1>4, <1>5, <1>6 DEF IInv

\* The statement runs.
LEMMA RunOkInv ==
  ASSUME IInv, RunOk
  PROVE  IInv'
<1>. USE DEF RunOk, Consume, input, outcome, emitted
<1>1. EffectiveOp \in {"query", "execute"}
  BY BindingType DEF IInv, TypeOK, EffectiveOp
<1>2. TypeOK'
  BY <1>1, NoArgumentsType DEF IInv, TypeOK
<1>3. Stages'
  BY DEF IInv, Stages
<1>4. Statements' /\ Completed'
  BY DEF IInv, Statements, Completed
<1>5. Concluded' /\ CommittedErrorExplained'
  BY DEF IInv, Stages, Concluded, CommittedErrorExplained, NoReply
<1>6. Runs'
  BY <1>1 DEF IInv, TypeOK, Requests, Completions, Stages, Runs, EffectiveOp, IsCatalog
<1>. QED
  BY <1>2, <1>3, <1>4, <1>5, <1>6 DEF IInv

\* The marks in an error's message; only a lost connection or a call that was
\* given up, both retryable, may still commit.
LEMMA FailureMarks ==
  ASSUME NEW f \in Failures
  PROVE  /\ f.marks \subseteq Marks
         /\ MayCommit(f.cause) => f.cause \in {"call_timed_out", "lost"} /\ Retryable(f.marks)
  BY DEF Failures, Marks, MayCommit, Retryable

LEMMA RunFailsInv ==
  ASSUME IInv, RunFails
  PROVE  IInv'
<1>1. PICK f \in Failures, late \in BOOLEAN :
        /\ stage = "run" /\ ran' = EffectiveOp /\ failure' = f
        /\ committed' = (late /\ EffectiveOp = "execute" /\ MayCommit(f.cause))
        /\ reply' = ErrorReply(f.marks, OpLabel) /\ label' = FailureLabel(f.marks)
        /\ stage' = "observe" /\ arguments' = NoArguments /\ statement' = NoStatement
        /\ UNCHANGED <<input, completed, emitted>>
  BY DEF RunFails, Consume, Conclude
<1>. USE DEF input, emitted
<1>2. EffectiveOp \in {"query", "execute"}
  BY BindingType DEF IInv, TypeOK, EffectiveOp
<1>3. committed' \in BOOLEAN /\ (committed' => MayCommit(f.cause))
  BY Zenon, <1>1
<1>4. label' \in {"timeout", "transport_error", "oracle_error"}
  BY <1>1 DEF FailureLabel
<1>5. TypeOK'
  BY <1>1, <1>2, <1>3, <1>4, NoArgumentsType DEF IInv, TypeOK, ErrorReply
<1>6. Stages'
  BY <1>1 DEF IInv, Stages
<1>7. Statements' /\ Completed'
  BY <1>1 DEF IInv, Statements, Completed
<1>8. Concluded'
  BY <1>1, <1>4 DEF IInv, Stages, Concluded, ReplyAgrees, ErrorReply
<1>9. CommittedErrorExplained'
  BY <1>1, <1>3, FailureMarks DEF CommittedErrorExplained, ErrorReply
<1>10. Runs'
  BY <1>1, <1>2, <1>3, <1>4 DEF IInv, TypeOK, Requests, Completions, Stages, Runs, EffectiveOp, IsCatalog
<1>. QED
  BY <1>5, <1>6, <1>7, <1>8, <1>9, <1>10 DEF IInv

\* The reply is shaped for its surface.
LEMMA ShapeInv ==
  ASSUME IInv, Shape
  PROVE  IInv'
<1>. USE DEF Success, ErrorReply, input, bound, outcome, emitted
<1>1. binding.surface \in {"tool", "resource", "prompt"}
  BY BindingType DEF IInv, TypeOK
<1>2. /\ stage = "shape" /\ stage' = "observe"
      /\ UNCHANGED <<binding, request, arguments, statement, ran, committed, failure, completed, metrics, audits>>
  BY <1>1 DEF Shape, Conclude
<1>3. \/ binding.surface = "tool" /\ reply' = Success("envelope", OpLabel) /\ label' = "ok"
      \/ binding.surface = "prompt" /\ reply' = Success("messages", "none") /\ label' = "ok"
      \/ /\ binding.surface = "resource" /\ (binding.uri \/ request.uri)
         /\ reply' = Success("contents", "none") /\ label' = "ok"
      \/ /\ binding.surface = "resource"
         /\ reply' = ErrorReply({}, OpLabel) /\ label' = "oracle_error"
  BY Zenon, <1>1 DEF Shape, Conclude
<1>4. /\ label' \in {"ok", "oracle_error"}
      /\ reply'.body \in {"envelope", "messages", "contents"}
  BY <1>3
<1>5. TypeOK'
  BY <1>2, <1>4 DEF IInv, TypeOK
<1>6. Stages'
  BY <1>2 DEF IInv, Stages
<1>7. Statements' /\ Completed'
  BY <1>2 DEF IInv, Statements, Completed
<1>8. ReplyAgrees'
  BY <1>2, <1>3 DEF ReplyAgrees, Retryable
<1>9. Concluded'
  BY <1>2, <1>4, <1>8 DEF Concluded
<1>10. CommittedErrorExplained'
  <2>1. failure = NoFailure
    BY <1>2 DEF IInv, Stages
  <2>2. reply'.error # "none" => binding.surface = "resource"
    BY <1>3
  <2>. QED
    BY <1>2, <2>1, <2>2 DEF CommittedErrorExplained
<1>11. Runs'
  BY <1>2, <1>4 DEF IInv, Stages, Runs, IsCatalog
<1>. QED
  BY <1>5, <1>6, <1>7, <1>8, <1>9, <1>10, <1>11 DEF IInv

\* The call is reported.
LEMMA ObserveInv ==
  ASSUME IInv, Observe
  PROVE  IInv'
<1>. USE DEF Observe, input, bound, outcome
<1>1. metrics = 0 /\ audits = {}
  BY DEF IInv, Stages
<1>2. TypeOK'
  BY <1>1 DEF IInv, TypeOK
<1>3. Stages'
  BY <1>1 DEF IInv, Stages
<1>4. Statements' /\ Completed'
  BY DEF IInv, Statements, Completed
<1>5. Concluded'
  <2>. SUFFICES ASSUME request.entry = "execute"
                PROVE  Concluded'
    BY DEF Concluded
  <2>1. ReplyAgrees /\ label # "none"
    BY DEF IInv, Concluded
  <2>2. ReplyAgrees'
    BY <2>1 DEF ReplyAgrees
  <2>3. audits' = AuditAction(label)
    BY <1>1
  <2>4. AuditAction(label)' = AuditAction(label)
    BY DEF AuditAction
  <2>. QED
    BY <1>1, <2>1, <2>2, <2>3, <2>4 DEF Concluded
<1>6. CommittedErrorExplained'
  BY DEF IInv, CommittedErrorExplained
<1>7. Runs'
  BY DEF IInv, Runs, IsCatalog
<1>. QED
  BY <1>2, <1>3, <1>4, <1>5, <1>6, <1>7 DEF IInv

\* A completion.
LEMMA CompletionInv ==
  ASSUME IInv, CompletionLookUp \/ CompletionOk \/ CompletionFails
  PROVE  IInv'
<1>. USE DEF Success, Refusal, input, bound, outcome, emitted
<1>1. CASE CompletionLookUp
  <2>. USE <1>1 DEF CompletionLookUp
  <2>1. TypeOK'
    BY DEF IInv, TypeOK
  <2>2. Stages'
    BY DEF IInv, Stages
  <2>3. Statements' /\ Completed'
    BY DEF IInv, Statements, Completed
  <2>4. Concluded' /\ CommittedErrorExplained'
    BY DEF IInv, Stages, Concluded, CommittedErrorExplained
  <2>5. Runs'
    BY DEF IInv, Stages, Runs, IsCatalog
  <2>. QED
    BY <2>1, <2>2, <2>3, <2>4, <2>5 DEF IInv
<1>2. CASE CompletionOk
  <2>1. PICK result \in Results, order \in KeyOrders :
          completed' = [result |-> result, order |-> order,
                        candidates |-> Candidates(result, order)]
    BY <1>2 DEF CompletionOk
  <2>. USE <1>2 DEF CompletionOk
  <2>2. TypeOK'
    BY DEF IInv, TypeOK
  <2>3. Stages'
    BY DEF IInv, Stages
  <2>4. Statements'
    BY DEF IInv, Statements
  <2>5. Completed'
    BY <2>1 DEF Completed
  <2>6. Concluded' /\ CommittedErrorExplained'
    BY DEF IInv, Stages, Concluded, CommittedErrorExplained
  <2>7. Runs'
    BY DEF IInv, Stages, Runs, IsCatalog
  <2>. QED
    BY <2>2, <2>3, <2>4, <2>5, <2>6, <2>7 DEF IInv
<1>3. CASE CompletionFails
  <2>. USE <1>3 DEF CompletionFails
  <2>1. TypeOK'
    BY DEF IInv, TypeOK
  <2>2. Stages'
    BY DEF IInv, Stages
  <2>3. Statements' /\ Completed'
    BY DEF IInv, Statements, Completed
  <2>4. Concluded' /\ CommittedErrorExplained'
    BY DEF IInv, Stages, Concluded, CommittedErrorExplained
  <2>5. Runs'
    BY DEF IInv, Stages, Runs, IsCatalog
  <2>. QED
    BY <2>1, <2>2, <2>3, <2>4, <2>5 DEF IInv
<1>. QED
  BY <1>1, <1>2, <1>3

LEMMA NextInv == IInv /\ [Next]_vars => IInv'
<1>. SUFFICES ASSUME IInv, [Next]_vars
              PROVE  IInv'
  OBVIOUS
<1>1. CASE UNCHANGED vars
  <2>. USE <1>1 DEF vars, input, bound, outcome, emitted
  <2>1. TypeOK'
    BY DEF IInv, TypeOK
  <2>2. Stages' /\ Runs' /\ Statements' /\ Completed'
    BY DEF IInv, Stages, Runs, Statements, Completed, StatementFor, IsCatalog,
           EvaluationFails, BindingFails
  <2>3. Concluded' /\ CommittedErrorExplained'
    BY DEF IInv, Concluded, CommittedErrorExplained, ReplyAgrees
  <2>. QED
    BY <2>1, <2>2, <2>3 DEF IInv
<1>2. CASE Answered
  BY <1>1, <1>2 DEF Answered
<1>. QED
  BY <1>1, <1>2, LookUpInv, ParseInv, ParamsFailInv, BindInv, RunOkInv, RunFailsInv,
     ShapeInv, ObserveInv, CompletionInv DEF Next

\* All that is known of a call between two steps, on every path through execute()
\* and complete_template_variable().
THEOREM DispatchInvariant == Spec => []IInv
<1>. QED
  BY InitInv, NextInv, PTL DEF Spec

-------------------------------------------------------------------------------
(* What it says of a call *)

\* The caller's reply, the gateway's isError, the metric and the audit log agree on
\* every path out of execute(): emit_host_observability runs once, with the label
\* that fits the reply.
THEOREM DispatchObserversAgree == Spec => []ObserversAgree
<1>1. IInv => ObserversAgree
  <2>. SUFFICES ASSUME IInv, stage = "done", request.entry = "execute"
                PROVE  /\ metrics = 1
                       /\ audits # {} <=> label \notin {"ok", "profile_not_found"}
                       /\ ReplyAgrees
    BY DEF ObserversAgree
  <2>1. ReplyAgrees /\ label # "none" /\ metrics = 1 /\ audits = AuditAction(label)
    BY DEF IInv, Concluded
  <2>2. label \in {"ok", "timeout", "transport_error", "oracle_error", "invalid_spec",
                   "profile_not_found"}
    BY <2>1 DEF IInv, TypeOK
  <2>. QED
    BY <2>1, <2>2 DEF AuditAction
<1>. QED
  BY <1>1, DispatchInvariant, PTL

\* A mutation that is durable although its caller was told of an error: the reply
\* is retryable, because the call was given up or its connection lost, or the
\* statement ran for a resource whose uri was looked at too late.
THEOREM DispatchCommittedErrorExplained == Spec => []CommittedErrorExplained
<1>1. IInv => CommittedErrorExplained
  BY DEF IInv
<1>. QED
  BY <1>1, DispatchInvariant, PTL

\* The placeholders of a dictionary query are bound to the values of their own
\* filters, whatever the caller sends for owner_arg and table_arg (build_query,
\* resolve_one).
THEOREM DispatchFiltersStay == Spec => []FiltersStay
<1>1. IInv => FiltersStay
  <2>. SUFFICES ASSUME IInv, stage = "run", IsCatalog
                PROVE  FiltersStay
    BY DEF FiltersStay
  <2>1. statement = BuildQuery(binding.filters, arguments)
    BY DEF IInv, Statements, StatementFor
  <2>2. binding.filters \in Filters
    BY BindingType DEF IInv, TypeOK
  <2>3. /\ binding.filters.owner = Absent \/ binding.filters.owner.type = "string"
        /\ binding.filters.table = Absent \/ binding.filters.table.type = "string"
    BY <2>2 DEF Filters, V
  <2>. DEFINE o == Resolve(binding.filters.owner, binding.filters.ownerArg, arguments)
              t == Resolve(binding.filters.table, binding.filters.tableArg, arguments)
  <2>4. /\ o # Absent =>
             /\ Nonempty(o)
             /\ o \in {binding.filters.owner}
                        \cup {arguments[n] : n \in {binding.filters.ownerArg} \cap DOMAIN arguments}
        /\ Nonempty(binding.filters.owner) => o # Absent
    BY <2>3, ResolveGiven
  <2>5. /\ t # Absent =>
             /\ Nonempty(t)
             /\ t \in {binding.filters.table}
                        \cup {arguments[n] : n \in {binding.filters.tableArg} \cap DOMAIN arguments}
        /\ Nonempty(binding.filters.table) => t # Absent
    BY <2>3, ResolveGiven
  <2>6. /\ DOMAIN statement.binds = DOMAIN statement.placeholders
        /\ \A i \in DOMAIN statement.binds :
             \/ o # Absent /\ statement.placeholders[i] = "owner" /\ statement.binds[i] = o
             \/ t # Absent /\ statement.placeholders[i] = "tbl" /\ statement.binds[i] = t
        /\ o # Absent => "owner" \in Elements(statement.placeholders)
        /\ t # Absent => "tbl" \in Elements(statement.placeholders)
    BY <2>1, BuildQueryShape
  <2>. HIDE DEF o, t
  <2>. QED
    BY <2>4, <2>5, <2>6 DEF FiltersStay
<1>. QED
  BY <1>1, DispatchInvariant, PTL

\* The binds of a query are its params in their order: an argument is bound as
\* itself up to i64::MAX, and NULL only for null, absence or a value that is not
\* finite; beyond i64::MAX an integer becomes a double as near as doubles go
\* (evaluate_params, json_to_oracle_bind).
THEOREM DispatchBindsAreParams == Spec => []BindsAreParams
<1>1. IInv => BindsAreParams
  <2>. SUFFICES ASSUME IInv, stage = "run", ~IsCatalog
                PROVE  /\ DOMAIN statement.binds = DOMAIN binding.params
                       /\ \A i \in DOMAIN binding.params :
                            /\ BoundExactly(binding.params[i], statement.binds[i])
                            /\ BoundNearly(binding.params[i], statement.binds[i])
    BY DEF ExactBinds, BindsAreParams
  <2>1. statement.binds = Binds(binding.params, arguments)
    BY DEF IInv, Statements, StatementFor
  <2>2. /\ binding.params \in Params /\ arguments \in ArgumentsOver(ArgNames)
        /\ ~EvaluationFails /\ ~BindingFails
    BY BindingType DEF IInv, TypeOK, Statements
  <2>3. /\ DOMAIN statement.binds = DOMAIN binding.params
        /\ \A i \in DOMAIN binding.params :
             statement.binds[i] = ToBind(CelToJson(EvalCel(binding.params[i], arguments)))
    BY <2>1 DEF Binds, Evaluate
  <2>4. ASSUME NEW i \in DOMAIN binding.params
        PROVE  /\ BoundExactly(binding.params[i], statement.binds[i])
               /\ BoundNearly(binding.params[i], statement.binds[i])
    <3>1. binding.params[i].form \in {"read", "optional", "reciprocal", "index", "either"}
      BY <2>2, ParamType
    <3>2. CelToJson(EvalCel(binding.params[i], arguments)) # Failed
      BY <2>2 DEF EvaluationFails, Evaluate, Elements
    <3>3. ToBind(CelToJson(EvalCel(binding.params[i], arguments))) # Unbindable
      BY <2>2 DEF BindingFails, Binds, Evaluate, Elements
    <3>4. PICK p : p = binding.params[i]
      OBVIOUS
    <3>5. BoundExactly(p, statement.binds[i])
      BY <2>2, <2>3, <3>1, <3>2, <3>3, <3>4, ParamBind DEF BoundExactly
    <3>6. BoundNearly(p, statement.binds[i])
      BY <2>2, <2>3, <3>1, <3>4, ParamBindNearly DEF BoundNearly
    <3>. QED
      BY <3>4, <3>5, <3>6
  <2>. QED
    BY <2>3, <2>4
<1>. QED
  BY <1>1, DispatchInvariant, PTL

\* The statement depends on no argument but those that input_schema names and those
\* that a param reads by index: the scan of a param's source finds the others, the
\* ones that only one of its branches reads included (argument_names,
\* extract_argument_idents).
THEOREM DispatchSchemaNamesInputs == Spec => []SchemaNamesInputs
<1>1. IInv => SchemaNamesInputs
  <2>. DEFINE indexed == {p.name : p \in {q \in Elements(binding.params) : q.form = "index"}}
  <2>. SUFFICES ASSUME IInv, stage = "run",
                       NEW n \in ArgNames \ (SchemaNames \cup indexed), NEW v \in Json
                PROVE  StatementFor([a \in DOMAIN arguments \cup {n} |->
                                       IF a = n THEN v ELSE arguments[a]]) = statement
    BY DEF SchemaNamesInputs, DependsOnlyOn
  <2>1. PICK more : more = [a \in DOMAIN arguments \cup {n} |->
                              IF a = n THEN v ELSE arguments[a]]
    OBVIOUS
  <2>2. \A a : a # n => /\ a \in DOMAIN more <=> a \in DOMAIN arguments
                        /\ a \in DOMAIN arguments => more[a] = arguments[a]
    BY <2>1
  <2>3. binding.params \in Params /\ binding.filters \in Filters
    BY BindingType DEF IInv, TypeOK
  <2>4. StatementFor(more) = StatementFor(arguments)
    <3>1. CASE IsCatalog
      BY <2>2, <2>3, <3>1, BuildQueryNames DEF StatementFor, SchemaNames
    <3>2. CASE ~IsCatalog
      <4>1. n \in ArgNames \ ParamArguments(binding.params)
        BY <3>2 DEF SchemaNames
      <4>2. \A p \in Elements(binding.params) : p.form = "index" => p.name # n
        OBVIOUS
      <4>. QED
        BY <2>2, <2>3, <3>2, <4>1, <4>2, BindsNames DEF StatementFor
    <3>. QED
      BY <3>1, <3>2
  <2>. QED
    BY <2>1, <2>4 DEF IInv, Statements
<1>. QED
  BY <1>1, DispatchInvariant, PTL

-------------------------------------------------------------------------------
(* The cells of a completion's result *)

\* What a fetched cell can be is decided by the type of its column.
LEMMA ResultType ==
  ASSUME NEW r \in Results
  PROVE  /\ r.types \in OneColumn \cup TwoColumns
         /\ r.columns \in [DOMAIN r.types -> ColumnNames]
         /\ \A row \in Fetched(r), j \in DOMAIN r.types :
              r.rows[row][j] \in CellsOf[r.types[j]]
<1>. DEFINE Row(types) == {row \in [DOMAIN types -> UNION {CellsOf[t] : t \in DOMAIN CellsOf}] :
                             \A i \in DOMAIN types : row[i] \in CellsOf[types[i]]}
<1>1. PICK types \in OneColumn \cup TwoColumns :
        r \in [columns : [DOMAIN types -> ColumnNames], types : {types},
              rows : UNION {[1 .. k -> Row(types)] : k \in 0 .. MaxRows}, max : 0 .. MaxRows]
  BY DEF Results
<1>2. /\ r.types = types /\ r.columns \in [DOMAIN types -> ColumnNames]
      /\ r.rows \in UNION {[1 .. k -> Row(types)] : k \in 0 .. MaxRows} /\ r.max \in Nat
  BY <1>1
<1>3. PICK k \in 0 .. MaxRows : r.rows \in [1 .. k -> Row(types)]
  BY <1>2
<1>4. Len(r.rows) = k
  BY <1>3
<1>5. Fetched(r) \subseteq 1 .. k
  BY <1>2, <1>4 DEF Fetched
<1>6. \A row \in 1 .. k, j \in DOMAIN types : r.rows[row][j] \in CellsOf[types[j]]
  BY <1>3
<1>. QED
  BY <1>2, <1>5, <1>6

\* A cell that is shown as null is NULL, or no read of it succeeds.
LEMMA NullCells ==
  ASSUME NEW type \in DOMAIN CellsOf, NEW cell \in CellsOf[type],
         ColumnToJson(type, cell) = "null"
  PROVE  cell \in {NullCell, {}}
<1>1. type \in {"number", "text", "binary", "boolean"}
  BY DEF CellsOf
<1>2. CASE type = "number"
  BY <1>2 DEF CellsOf, ColumnToJson, NumberToJson, StringToJson, NullCell
<1>3. CASE type = "text"
  BY <1>3 DEF CellsOf, ColumnToJson, StringToJson, NullCell
<1>4. CASE type = "binary"
  BY <1>4 DEF CellsOf, ColumnToJson, StringToJson, NullCell
<1>5. CASE type = "boolean"
  BY <1>5 DEF CellsOf, ColumnToJson, StringToJson, NullCell
<1>. QED
  BY <1>1, <1>2, <1>3, <1>4, <1>5

\* Columns and their types.
LEMMA ColumnTypes ==
  ASSUME NEW types \in OneColumn \cup TwoColumns
  PROVE  /\ DOMAIN types \in {{1}, {1, 2}}
         /\ \A j \in DOMAIN types : types[j] \in DOMAIN CellsOf
  BY DEF OneColumn, TwoColumns, CellsOf

\* A cell is shown as null only if it is NULL or cannot even be read as a string
\* (column_to_json).
THEOREM DispatchOnlyNullIsNull == Spec => []OnlyNullIsNull
<1>1. IInv => OnlyNullIsNull
  <2>. SUFFICES ASSUME IInv, completed # NoCompletion,
                       NEW r, r = completed.result,
                       NEW row \in Fetched(r), NEW j \in DOMAIN r.columns,
                       JsonCell(r, row, j) = "null"
                PROVE  r.rows[row][j] \in {NullCell, {}}
    BY DEF OnlyNullIsNull
  <2>1. r \in Results
    BY DEF IInv, Completed
  <2>2. /\ j \in DOMAIN r.types /\ r.types[j] \in DOMAIN CellsOf
        /\ r.rows[row][j] \in CellsOf[r.types[j]]
    BY <2>1, ResultType, ColumnTypes
  <2>. QED
    BY <2>2, NullCells DEF JsonCell
<1>. QED
  BY <1>1, DispatchInvariant, PTL
===============================================================================
