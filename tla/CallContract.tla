---------------------------- MODULE CallContract ----------------------------
(***************************************************************************)
(* What a caller of the plugin may rely on, without a pool, timers or      *)
(* tasks: how the effect of its statement and the answer it was given      *)
(* relate.                                                                 *)
(*                                                                         *)
(* A call answered "done" has its mutation durable.  A call answered       *)
(* "not_run" never takes effect.  "unknown" promises nothing: the effect   *)
(* may already be durable, may become durable later, or may never happen,  *)
(* so a caller that retries it may apply its mutation twice.               *)
(***************************************************************************)
CONSTANT Calls

VARIABLES
  mutates,   \* calls whose statement changes data
  effect,    \* unapplied, open (uncommitted), durable, or void (never)
  verdict    \* idle, pending, done, not_run or unknown

contractVars == <<mutates, effect, verdict>>

Live(c)  == verdict[c] \in {"pending", "unknown"}
Becomes(S, e) == effect' = [c \in Calls |-> IF c \in S THEN e ELSE effect[c]]

Init ==
  /\ mutates = {}
  /\ effect  = [c \in Calls |-> "unapplied"]
  /\ verdict = [c \in Calls |-> "idle"]

Submit(c) ==
  /\ verdict[c] = "idle"
  /\ verdict' = [verdict EXCEPT ![c] = "pending"]
  /\ \E m \in BOOLEAN : mutates' = mutates \cup (IF m THEN {c} ELSE {})
  /\ UNCHANGED effect

Apply(c) ==
  /\ Live(c)
  /\ c \in mutates
  /\ effect[c] = "unapplied"
  /\ Becomes({c}, "open")
  /\ UNCHANGED <<mutates, verdict>>

\* The open work of some calls becomes durable together.
CommitAll(S) ==
  /\ \A c \in S : effect[c] = "open"
  /\ Becomes(S, "durable")
  /\ UNCHANGED <<mutates, verdict>>

\* The work of some calls is lost, or turns out to change nothing.
Discard(S) ==
  /\ \A c \in S : effect[c] = "open" \/ (effect[c] = "unapplied" /\ Live(c))
  /\ Becomes(S, "void")
  /\ UNCHANGED <<mutates, verdict>>

Done(c) ==
  /\ verdict[c] = "pending"
  /\ c \in mutates => effect[c] = "durable"
  /\ verdict' = [verdict EXCEPT ![c] = "done"]
  /\ UNCHANGED <<mutates, effect>>

NotRun(c) ==
  /\ verdict[c] = "pending"
  /\ effect[c] = "unapplied"
  /\ verdict' = [verdict EXCEPT ![c] = "not_run"]
  /\ UNCHANGED <<mutates, effect>>

Unknown(c) ==
  /\ verdict[c] = "pending"
  /\ verdict' = [verdict EXCEPT ![c] = "unknown"]
  /\ UNCHANGED <<mutates, effect>>

Next ==
  \/ \E c \in Calls : Submit(c) \/ Apply(c) \/ Done(c) \/ NotRun(c) \/ Unknown(c)
  \/ \E S \in SUBSET Calls : CommitAll(S) \/ Discard(S)

Spec == Init /\ [][Next]_contractVars
==============================================================================
