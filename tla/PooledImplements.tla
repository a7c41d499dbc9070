-------------------------- MODULE PooledImplements --------------------------
(***************************************************************************)
(* PooledCalls implements CallContract.  A statement is durable or open as *)
(* the database has it, unapplied until the task runs it, and void once    *)
(* the task is past it and the database no longer has it.  A statement     *)
(* that failed is "unknown" to its caller: its work may sit uncommitted on *)
(* the session it ran on until the next commit there.                      *)
(***************************************************************************)
EXTENDS PooledCalls

Effect(c) ==
  CASE c \in durable                     -> "durable"
    [] c \in OpenWork \ durable          -> "open"
    [] c \notin durable \cup OpenWork /\ worker[c] \in {"none", "spawned"} -> "unapplied"
    [] OTHER                             -> "void"

Verdict(c) ==
  CASE pc[c] = "new"                          -> "idle"
    [] pc[c] \notin {"new", "answered"}       -> "pending"
    [] pc[c] = "answered" /\ answer[c] = "ok" -> "done"
    [] pc[c] = "answered" /\ answer[c] \in NotRun -> "not_run"
    [] OTHER                                  -> "unknown"

Contract == INSTANCE CallContract WITH
  mutates <- {c \in Calls : EffectiveOp(entry[c]) = "execute"},
  effect  <- [c \in Calls |-> Effect(c)],
  verdict <- [c \in Calls |-> Verdict(c)]

\* run_pooled, the pool and the sessions keep the contract: an error answer
\* other than a failed get() says nothing, a success says durable.
KeepsContract == Contract!Spec
==============================================================================
