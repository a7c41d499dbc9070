---------------------------- MODULE CallDispatch ----------------------------
(***************************************************************************)
(* One call of execute() (src/src/lib.rs) from the lookup of its binding   *)
(* to the reply: the early returns, the binds its arguments become, the    *)
(* statement that runs, the reply's body for its surface, the error it is  *)
(* classified as, and the metrics and audit event it leaves behind; or one *)
(* call of complete_template_variable().                                   *)
(*                                                                         *)
(* run_pooled is one step here; PooledCalls models what goes on inside it. *)
(* An error message is the set of classes of substrings that the code      *)
(* looks for in it: "timeout" for "timed out" and "timeout", "transport"   *)
(* for the other retryable ones, such as "connect", "pool" and "eof".      *)
(***************************************************************************)
EXTENDS CallInputs, Completion

VARIABLES
  binding,    \* the registered spec, as far as a call reads it
  request,    \* the request, as far as it decides what happens
  arguments,  \* the payload, from when it is parsed until it is bound
  stage,
  statement,  \* what is handed to run_pooled: its placeholders and binds
  completed,  \* the completion's result, key order and candidates
  ran,        \* op handed to run_pooled: none, query or execute
  committed,  \* the call commits the statement, possibly after its reply
  failure,    \* what went wrong and the marks in its message
  reply, label,
  metrics, audits

input   == <<binding, request>>
bound   == <<arguments, statement>>
outcome == <<ran, committed, failure, completed>>
emitted == <<metrics, audits>>
vars    == <<input, bound, stage, outcome, reply, label, emitted>>

Marks == {"timeout", "transport"}

NoFilters == [owner |-> Absent, table |-> Absent, ownerArg |-> NoName, tableArg |-> NoName]

\* register_profile accepts read_query and a static uri on resources only, and
\* list_columns only with a table or a table_arg.
Bindings ==
  LET Surfaces == {b \in [op : {"query", "execute"},
                          surface : {"tool", "resource", "prompt"},
                          readQuery : BOOLEAN, uri : BOOLEAN] :
                     b.readQuery \/ b.uri => b.surface = "resource"}
      Inputs == [operation : {"query"}, params : Params, filters : {NoFilters}]
                  \cup [operation : {"list_tables"}, params : {<<>>}, filters : Filters]
                  \cup {i \in [operation : {"list_columns"}, params : {<<>>},
                               filters : Filters] :
                          Nonempty(i.filters.table) \/ i.filters.tableArg # NoName}
  IN  {[operation |-> i.operation, params |-> i.params, filters |-> i.filters,
        op |-> b.op, surface |-> b.surface, readQuery |-> b.readQuery, uri |-> b.uri] :
         i \in Inputs, b \in Surfaces}

\* The argument named uri is only read when the reply is shaped, and kept apart.
Requests ==
  {r \in [entry : {"execute"}, known : BOOLEAN,
          payload : {"empty", "json", "not_json"}, uri : BOOLEAN] :
     r.uri => r.payload = "json"}

\* complete_template_variable reads of the binding whether it is configured.
Completions ==
  [entry : {"completion"}, known : BOOLEAN, payload : {"configured", "unconfigured"},
   uri : {FALSE}]

IsCatalog == binding.operation # "query"

NoArguments  == <<>>
NoStatement  == [placeholders |-> <<>>, binds |-> <<>>]
NoCompletion == [result |-> <<>>, order |-> "none", candidates |-> <<>>]

NoFailure == [cause |-> "none", marks |-> {}]

\* The errors run_pooled returns.  The fixed texts of run_pooled and of
\* run_statement_blocking carry marks of their own; the driver's text of a
\* lost connection says so, that of a rejected statement quotes whatever names
\* the statement and the schema use, and that of a panic is the panic's.
Failures ==
  [cause : {"acquire_failed"}, marks : {{"transport"}, Marks}]
    \cup [cause : {"acquire_timed_out"}, marks : {Marks}]
    \cup [cause : {"set_call_timeout_failed", "call_timed_out"}, marks : {{"timeout"}, Marks}]
    \cup [cause : {"lost"}, marks : {{"transport"}, Marks}]
    \cup [cause : {"rejected", "task_failed"}, marks : SUBSET Marks]

\* Mutant: a statement is committed before its outcome is known.
MayCommitEarly(cause) == cause \in {"call_timed_out", "lost", "rejected"}

\* Whether the call itself may still commit a mutation that failed this way.
\* What a later call on the same session commits is in PooledCalls.
MayCommit(cause) == cause \in {"call_timed_out", "lost"}

NoReply == [body |-> "none", error |-> "none", retryable |-> FALSE, op |-> "none"]

Init ==
  /\ binding \in Bindings
  /\ \/ request \in Requests
     \/ /\ request \in Completions
        /\ binding = CHOOSE b \in Bindings : b.params = <<>> /\ b.filters = NoFilters
  /\ arguments = NoArguments /\ statement = NoStatement
  /\ stage = "lookup"
  /\ ran = "none" /\ committed = FALSE /\ failure = NoFailure /\ completed = NoCompletion
  /\ reply = NoReply /\ label = "none"
  /\ metrics = 0 /\ audits = {}

-----------------------------------------------------------------------------
(* classify_error and the envelope *)

Retryable(marks) == marks # {}

ErrorReply(marks, op) ==
  [body |-> "envelope",
   error |-> IF Retryable(marks) THEN "transport_error" ELSE "oracle_error",
   retryable |-> Retryable(marks), op |-> op]

Success(body, op) == [body |-> body, error |-> "none", retryable |-> FALSE, op |-> op]

\* An error returned to the host in place of a payload.
Refusal(kind) == [body |-> "none", error |-> kind, retryable |-> FALSE, op |-> "none"]

OpLabel == IF IsCatalog THEN binding.operation ELSE binding.op

Conclude(r, l) ==
  /\ reply' = r
  /\ label' = l
  /\ stage' = "observe"

-----------------------------------------------------------------------------
LookUp ==
  /\ stage = "lookup" /\ request.entry = "execute"
  /\ IF request.known THEN stage' = "parse" /\ UNCHANGED <<reply, label>>
     ELSE Conclude(Refusal("profile_not_found"), "profile_not_found")
  /\ UNCHANGED <<input, bound, outcome, emitted>>

\* The arguments that the binding mentions; the others are looked at by
\* SchemaNamesInputs only.
Mentioned ==
  ArgNames \cap ({p.name : p \in Elements(binding.params)}
                   \cup {p.other : p \in Elements(binding.params)}
                   \cup {binding.filters.ownerArg, binding.filters.tableArg})

\* An empty payload, and JSON that is no object, has no arguments.
Parse ==
  /\ stage = "parse"
  /\ IF request.payload = "not_json"
     THEN /\ Conclude(Refusal("invalid_spec"), "invalid_spec")
          /\ UNCHANGED arguments
     ELSE /\ arguments' \in IF request.payload = "json" THEN ArgumentsOver(Mentioned)
                            ELSE {NoArguments}
          /\ stage' = "bind"
          /\ UNCHANGED <<reply, label>>
  /\ UNCHANGED <<input, statement, outcome, emitted>>

EvaluationFails == Failed \in Elements(Evaluate(binding.params, arguments))
BindingFails    == Unbindable \in Elements(Binds(binding.params, arguments))

\* finish_error: a param that fails to evaluate, or whose value is an array or
\* an object.  All params are evaluated before the first is bound.  The message
\* of the former quotes the CEL source, hence any names in it.
ParamsFail ==
  /\ stage = "bind" /\ ~IsCatalog
  /\ EvaluationFails \/ BindingFails
  /\ \E marks \in SUBSET Marks :
       /\ ~EvaluationFails => marks = {}
       /\ failure' = [cause |-> "params", marks |-> marks]
       /\ Conclude(ErrorReply(marks, binding.op), "invalid_spec")
  /\ arguments' = NoArguments
  /\ UNCHANGED <<input, statement, ran, committed, completed, emitted>>

\* The statement that a binding runs for some arguments.
StatementFor(args) ==
  IF IsCatalog THEN BuildQuery(binding.filters, args)
  ELSE [placeholders |-> <<>>, binds |-> Binds(binding.params, args)]

ParamsBind ==
  /\ stage = "bind" /\ ~IsCatalog
  /\ ~EvaluationFails /\ ~BindingFails
  /\ statement' = StatementFor(arguments)
  /\ stage' = "run"
  /\ UNCHANGED <<input, arguments, outcome, reply, label, emitted>>

\* Catalog operations have no params to evaluate.
CatalogBind ==
  /\ stage = "bind" /\ IsCatalog
  /\ statement' = StatementFor(arguments)
  /\ stage' = "run"
  /\ UNCHANGED <<input, arguments, outcome, reply, label, emitted>>

\* Mutant: a catalog query or a read_query runs under the binding's own op.
EffectiveOpDeclared == binding.op

EffectiveOp ==
  IF IsCatalog \/ (binding.surface = "resource" /\ binding.readQuery)
  THEN "query" ELSE binding.op

\* run_pooled consumes the binds.
Consume == arguments' = NoArguments /\ statement' = NoStatement

RunOk ==
  /\ stage = "run"
  /\ ran' = EffectiveOp
  /\ committed' = (EffectiveOp = "execute")
  /\ stage' = "shape"
  /\ Consume
  /\ UNCHANGED <<input, failure, completed, reply, label, emitted>>

FailureLabel(marks) ==
  CASE "timeout" \in marks                      -> "timeout"
    [] "timeout" \notin marks /\ Retryable(marks) -> "transport_error"
    [] OTHER                                    -> "oracle_error"

RunFails ==
  /\ stage = "run"
  /\ ran' = EffectiveOp
  /\ \E f \in Failures :
       /\ failure' = f
       /\ \E late \in BOOLEAN :
            committed' = (late /\ EffectiveOp = "execute" /\ MayCommit(f.cause))
       /\ Conclude(ErrorReply(f.marks, OpLabel), FailureLabel(f.marks))
  /\ Consume
  /\ UNCHANGED <<input, completed, emitted>>

\* Mutant: a read without a uri is answered like one that has it.
ShapeWithoutUri ==
  /\ stage = "shape"
  /\ CASE binding.surface = "tool"     -> Conclude(Success("envelope", OpLabel), "ok")
       [] binding.surface = "prompt"   -> Conclude(Success("messages", "none"), "ok")
       [] binding.surface = "resource" -> Conclude(Success("contents", "none"), "ok")
  /\ UNCHANGED <<input, bound, outcome, emitted>>

\* A resource read needs a uri, which is only looked at now that the statement
\* has run; its message carries no mark.
Shape ==
  /\ stage = "shape"
  /\ CASE binding.surface = "tool"   -> Conclude(Success("envelope", OpLabel), "ok")
       [] binding.surface = "prompt" -> Conclude(Success("messages", "none"), "ok")
       [] binding.surface = "resource" ->
            IF binding.uri \/ request.uri THEN Conclude(Success("contents", "none"), "ok")
            ELSE Conclude(ErrorReply({}, OpLabel), "oracle_error")
  /\ UNCHANGED <<input, bound, outcome, emitted>>

\* Mutant: rejected statements are not audited.
AuditActionMissing(l) ==
  CASE l = "timeout"                               -> {"request_timeout"}
    [] l \in {"transport_error", "invalid_spec"} -> {"request_failed"}
    [] OTHER                                       -> {}

\* audit_action_for_outcome
AuditAction(l) ==
  CASE l = "timeout"                               -> {"request_timeout"}
    [] l \in {"transport_error", "invalid_spec"} -> {"request_failed"}
    [] l = "oracle_error"                          -> {"query_rejected"}
    [] OTHER                                       -> {}

\* emit_host_observability, with a host handle installed.
Observe ==
  /\ stage = "observe"
  /\ metrics' = metrics + 1
  /\ audits'  = audits \cup AuditAction(label)
  /\ stage'   = "done"
  /\ UNCHANGED <<input, bound, outcome, reply, label>>

-----------------------------------------------------------------------------
(* complete_template_variable, which leaves no metrics and no audit event *)

CompletionLookUp ==
  /\ stage = "lookup" /\ request.entry = "completion"
  /\ IF request.known /\ request.payload = "configured"
     THEN stage' = "complete" /\ UNCHANGED reply
     ELSE /\ reply' = IF request.known THEN Success("candidates", "none")
                      ELSE Refusal("profile_not_found")
          /\ stage' = "done"
  /\ UNCHANGED <<input, bound, outcome, label, emitted>>

CompletionOk ==
  /\ stage = "complete"
  /\ \E result \in Results, order \in KeyOrders :
       completed' = [result |-> result, order |-> order,
                     candidates |-> Candidates(result, order)]
  /\ ran' = "query"
  /\ reply' = Success("candidates", "none")
  /\ stage' = "done"
  /\ UNCHANGED <<input, bound, committed, failure, label, emitted>>

CompletionFails ==
  /\ stage = "complete"
  /\ failure' \in Failures
  /\ ran' = "query"
  /\ reply' = Refusal("transport")
  /\ stage' = "done"
  /\ UNCHANGED <<input, bound, committed, completed, label, emitted>>

Answered == stage = "done" /\ UNCHANGED vars

Next ==
  \/ LookUp \/ Parse \/ ParamsFail \/ ParamsBind \/ CatalogBind \/ RunOk \/ RunFails
  \/ Shape \/ Observe
  \/ CompletionLookUp \/ CompletionOk \/ CompletionFails
  \/ Answered

Spec == Init /\ [][Next]_vars

-----------------------------------------------------------------------------
TypeOK ==
  /\ binding \in Bindings /\ request \in Requests \cup Completions
  /\ stage \in {"lookup", "parse", "bind", "run", "shape", "observe", "complete", "done"}
  /\ arguments \in ArgumentsOver(ArgNames)
  /\ ran \in {"none", "query", "execute"}
  /\ committed \in BOOLEAN
  /\ failure \in {NoFailure} \cup Failures
                   \cup [cause : {"params"}, marks : SUBSET Marks]
  /\ reply.body \in {"none", "envelope", "contents", "messages", "candidates"}
  /\ label \in {"none", "ok", "timeout", "transport_error", "oracle_error",
                "invalid_spec", "profile_not_found"}
  /\ metrics \in 0 .. 1

\* Whatever a caller sends for owner_arg and table_arg, the n-th placeholder of the
\* dictionary query is bound to a value of its own filter (build_query writes the
\* text and the binds side by side); a filter that the operator set stays a filter;
\* and no predicate compares with the empty string, which is NULL in Oracle
\* (resolve_one).
FiltersStay ==
  stage = "run" /\ IsCatalog =>
    LET Given(static, name) ==
          {static} \cup {arguments[n] : n \in {name} \cap DOMAIN arguments}
        f == binding.filters
    IN  /\ DOMAIN statement.binds = DOMAIN statement.placeholders
        /\ \A i \in DOMAIN statement.binds :
             /\ Nonempty(statement.binds[i])
             /\ statement.binds[i] \in
                  IF statement.placeholders[i] = "owner" THEN Given(f.owner, f.ownerArg)
                  ELSE Given(f.table, f.tableArg)
        /\ Nonempty(f.owner) => "owner" \in Elements(statement.placeholders)
        /\ Nonempty(f.table) => "tbl" \in Elements(statement.placeholders)

\* The i-th param and its bind, and the argument it reads.
BoundExactly(p, b) ==
  LET present == Chosen(p, arguments) \in DOMAIN arguments
      arg == arguments[Chosen(p, arguments)]
  IN  /\ p.form # "reciprocal" /\ present =>
           IF arg.type # "integer" THEN b = arg
           ELSE arg.value <= I64Max => b = V("int", arg.value)
      /\ b.type = "null" =>
           \/ p.form = "optional" /\ ~present
           \/ p.form = "reciprocal" /\ arg.value = 0
           \/ p.form # "reciprocal" /\ arg.type = "null"

BoundNearly(p, b) ==
  LET arg == arguments[Chosen(p, arguments)]
  IN  p.form # "reciprocal" /\ Chosen(p, arguments) \in DOMAIN arguments
        /\ arg.type = "integer" /\ arg.value > I64Max =>
          /\ b.type = "float"
          /\ ExactMax * (b.value - arg.value) <= arg.value
          /\ ExactMax * (arg.value - b.value) <= arg.value

ExactBinds ==
  stage = "run" /\ ~IsCatalog =>
    /\ DOMAIN statement.binds = DOMAIN binding.params
    /\ \A i \in DOMAIN binding.params : BoundExactly(binding.params[i], statement.binds[i])

\* A param that reads an argument is bound as that argument, through JSON, CEL and
\* JSON again: exactly, but for an integer beyond i64, which becomes a double
\* (json_to_oracle_bind).  NULL is bound only for null, for an argument that may
\* be absent, and for a computed value that is not finite.
BindsAreParams ==
  /\ ExactBinds
  /\ stage = "run" /\ ~IsCatalog =>
       \A i \in DOMAIN binding.params : BoundNearly(binding.params[i], statement.binds[i])

\* The arguments that input_schema tells the gateway's clients of.
SchemaNames ==
  IF IsCatalog THEN FilterArguments(binding.filters) ELSE ParamArguments(binding.params)

\* The statement does not change with an argument outside a set of names.
DependsOnlyOn(names) ==
  \A n \in ArgNames \ names, v \in Json :
    StatementFor([a \in DOMAIN arguments \cup {n} |->
                    IF a = n THEN v ELSE arguments[a]]) = statement

\* The statement of a call depends on no argument but those that input_schema names
\* and those that a param reads by index: the scan of the sources for `arguments.`
\* finds each of the others, also those that only a branch of a param reads.
SchemaNamesInputs ==
  stage = "run" =>
    DependsOnlyOn(SchemaNames \cup {p.name : p \in {q \in Elements(binding.params) : q.form = "index"}})

\* A cell of a fetched row is shown as null only if it is NULL, or if not even the
\* last resort of column_to_json, reading it as a string, succeeds.
OnlyNullIsNull ==
  completed # NoCompletion =>
    LET r == completed.result
    IN  \A row \in Fetched(r), j \in DOMAIN r.columns :
          JsonCell(r, row, j) = "null" => r.rows[row][j] \in {NullCell, {}}

\* The reply's body and error fit the surface, the request and the label.
ReplyAgrees ==
  /\ reply.error = "none" <=> label = "ok"
  /\ reply.error # "none" => reply.body \in {"none", "envelope"}
  /\ reply.error = "none" =>
       reply.body = CASE binding.surface = "tool"     -> "envelope"
                      [] binding.surface = "prompt"   -> "messages"
                      [] binding.surface = "resource" -> "contents"
  /\ reply.body = "contents" => binding.uri \/ request.uri

\* What the observers of a call learn agrees, on every path out of execute(): the
\* body that the strict decoder of the surface is given, the gateway's isError, the
\* metric's outcome and the audit log.  Only a call to an unknown binding fails
\* without an audit event, and a body for resources/read has a uri.
ObserversAgree ==
  stage = "done" /\ request.entry = "execute" =>
    /\ metrics = 1
    /\ audits # {} <=> label \notin {"ok", "profile_not_found"}
    /\ ReplyAgrees

\* An error reply whose mutation is durable all the same: it came too late, or
\* the connection was lost, or the statement ran for a resource without a uri.
CommittedErrorExplained ==
  reply.error # "none" /\ committed =>
    \/ reply.retryable /\ failure.cause \in {"call_timed_out", "lost"}
    \/ binding.surface = "resource" /\ failure = NoFailure

-----------------------------------------------------------------------------
(* The inductive invariant *)

\* A completion goes its own way; nothing is concluded, reported or run before
\* its stage.
Stages ==
  /\ request.entry = "completion" => stage \in {"lookup", "complete", "done"}
  /\ request.entry = "execute" => stage # "complete"
  /\ stage \notin {"observe", "done"} =>
       reply = NoReply /\ label = "none" /\ failure = NoFailure
  /\ stage # "done" => metrics = 0 /\ audits = {}
  /\ stage \in {"lookup", "parse", "bind", "run", "complete"} => ~committed
  /\ request.entry = "completion" => ~committed

\* What has run fits what the binding, the stage and the outcome say: nothing runs
\* before its stage or for a call that is refused, and only a declared op: execute
\* that is no catalog query and no read_query runs as a mutation.
Runs ==
  /\ stage \in {"lookup", "parse", "bind", "run", "complete"} => ran = "none"
  /\ label \in {"invalid_spec", "profile_not_found"} => ran = "none"
  /\ stage = "shape" \/ label = "ok" => ran # "none"
  /\ committed => ran = "execute"
  /\ ran = "execute" =>
       /\ request.entry = "execute" /\ binding.op = "execute" /\ ~IsCatalog
       /\ ~(binding.surface = "resource" /\ binding.readQuery)

\* The statement that is about to run is the one its arguments make.
Statements ==
  /\ statement = IF stage = "run" THEN StatementFor(arguments) ELSE NoStatement
  /\ stage = "run" /\ ~IsCatalog => ~EvaluationFails /\ ~BindingFails

\* The label fits the reply, and after it the audit log fits the label.
Concluded ==
  request.entry = "execute" =>
    /\ stage \in {"observe", "done"} => ReplyAgrees /\ label # "none"
    /\ stage = "done" => metrics = 1 /\ audits = AuditAction(label)

Completed ==
  completed # NoCompletion =>
    /\ completed.result \in Results /\ completed.order \in KeyOrders
    /\ completed.candidates = Candidates(completed.result, completed.order)

\* All that is known of a call between two steps.
IInv ==
  TypeOK /\ Stages /\ Runs /\ Statements /\ Concluded /\ Completed /\ CommittedErrorExplained

-----------------------------------------------------------------------------
(* A statement of the documentation that the code does not keep. *)

\* envelope.rs, classify_error: SQL rejections and caller or config problems are
\* not retryable.
RejectionNotRetryable == failure.cause \in {"rejected", "params"} => ~reply.retryable
==============================================================================
