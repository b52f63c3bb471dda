---------------------------- MODULE TaskQueueDocs ----------------------------
(***************************************************************************)
(* What the comments and the documentation of the queue say and the code    *)
(* does not keep: one property per statement, each refuted by a run.        *)
(***************************************************************************)
EXTENDS TaskQueue

\* "The write is dropped if that execution no longer owns the task" (action_done):
\* a dropped write never leaves a row in execution with nobody to resolve it.
NoLimbo == \A t \in Tasks : state[t] \in Executing => Covered(t)

\* Progress is "best-effort": where execute() never raises, no task fails.
ProgressIsHarmless == \A t \in Tasks : state[t] # "failed"
==============================================================================
