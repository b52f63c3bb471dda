------------------------------ MODULE TaskRows ------------------------------
(***************************************************************************)
(* The life of a task row in coarse steps: "running" is everything between  *)
(* the claim of a task and the end of its attempt, its wait for children    *)
(* included.  It is what the modules of the queue have in common, each of   *)
(* which tells another part of the story in detail.                         *)
(*                                                                          *)
(* As in TaskLifecycle a step moves any set of rows, each in one way.       *)
(***************************************************************************)
EXTENDS Naturals

CONSTANTS Tasks, MaxRetries

VARIABLES state, retries

rowVars == <<state, retries>>

Moves(t, from, to) == state[t] \in from /\ state'[t] = to
Free(t) == retries'[t] = retries[t]
Charged(t) == retries[t] < MaxRetries[t] /\ retries'[t] = retries[t] + 1

Create(t) == Moves(t, {"absent"}, "pending") /\ Free(t)
Claim(t)  == Moves(t, {"pending"}, "running") /\ Free(t)
End(t)    == \E s \in {"done", "failed"} : Moves(t, {"running"}, s) /\ Free(t)
Cancel(t) == Moves(t, {"pending", "running", "failed"}, "cancelled") /\ Free(t)
Retry(t)  == Moves(t, {"running", "failed"}, "pending") /\ (Free(t) \/ Charged(t))
Stay(t)   == Moves(t, {state[t]}, state[t]) /\ Free(t)

RowStep(t) ==
  Create(t) \/ Claim(t) \/ End(t) \/ Cancel(t) \/ Retry(t) \/ Stay(t)

Init ==
  /\ state = [t \in Tasks |-> "absent"]
  /\ retries = [t \in Tasks |-> 0]

Next == \A t \in Tasks : RowStep(t)

Spec == Init /\ [][Next]_rowVars
=============================================================================
