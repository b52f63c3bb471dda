---------------------------- MODULE TaskLifecycle ----------------------------
(***************************************************************************)
(* What the task table promises, whoever writes it: the life of one row of *)
(* generic.task.queue.task, told with the three columns the queue's         *)
(* decisions rest on.  `state' is the selection field, `runner' the id of   *)
(* the execution attempt that owns the row and `retries' the number of      *)
(* automatic retries charged so far.                                        *)
(*                                                                          *)
(* One action per state-changing method of the model.  The methods check    *)
(* the old state in _check_transition; _action_auto_retry does not, its     *)
(* callers do.  Rows are independent, and one transaction may move several  *)
(* of them, so a step moves any set of rows, each by one method.            *)
(***************************************************************************)
EXTENDS Naturals

CONSTANTS
  Tasks,        \* task rows that can ever exist
  Runners,      \* runner ids (uuids drawn at claim time)
  NoRunner,     \* runner_id is not set
  MaxRetries    \* max_retries of every task

VARIABLES state, runner, retries

lifeVars == <<state, runner, retries>>

\* "absent": the row has not been created yet.
States == {"absent", "pending", "assigned", "running", "stuck", "waiting",
           "done", "failed", "cancelled"}

\* ALLOWED_TRANSITIONS, the table _check_transition consults.
AllowedTransitions ==
  [pending   |-> {"assigned", "cancelled"},
   assigned  |-> {"running", "pending", "cancelled"},
   running   |-> {"done", "failed", "waiting", "stuck", "cancelled"},
   stuck     |-> {"done", "failed", "pending", "cancelled"},
   waiting   |-> {"done", "failed", "cancelled"},
   failed    |-> {"pending", "cancelled"},
   done      |-> {},
   cancelled |-> {}]

MayMove(from, to) == from # "absent" /\ to \in AllowedTransitions[from]

------------------------------------------------------------------------------
Moves(t, to) == MayMove(state[t], to) /\ state'[t] = to
Keeps(t) == runner'[t] = runner[t] /\ retries'[t] = retries[t]

Create(t) ==
  /\ state[t] = "absent" /\ state'[t] = "pending"
  /\ Keeps(t)

\* claim_task: action_assign and a runner id no row carries.
Claim(t) ==
  /\ Moves(t, "assigned")
  /\ runner'[t] \in Runners
  /\ \A u \in Tasks : runner[u] # runner'[t]
  /\ retries'[t] = retries[t]

Start(t)        == Moves(t, "running") /\ Keeps(t)
MarkStuck(t)    == Moves(t, "stuck") /\ Keeps(t)
WaitChildren(t) == Moves(t, "waiting") /\ Keeps(t)
Done(t)         == Moves(t, "done") /\ Keeps(t)
Cancel(t)       == Moves(t, "cancelled") /\ Keeps(t)

\* Recovery of a lost execution clears the runner before failing the task.
Fail(t) ==
  /\ Moves(t, "failed")
  /\ runner'[t] \in {runner[t], NoRunner}
  /\ retries'[t] = retries[t]

\* _action_requeue (from assigned) and action_retry (from failed) charge
\* nothing to the retry budget.
Requeue(t) ==
  /\ state[t] \in {"assigned", "failed"} /\ Moves(t, "pending")
  /\ runner'[t] = NoRunner
  /\ retries'[t] = retries[t]

AutoRetry(t) ==
  /\ state[t] \in {"running", "stuck", "failed"} /\ state'[t] = "pending"
  /\ runner'[t] = NoRunner
  /\ retries[t] < MaxRetries[t]
  /\ retries'[t] = retries[t] + 1

RowStep(t) ==
  \/ Create(t) \/ Claim(t) \/ Start(t) \/ MarkStuck(t) \/ WaitChildren(t)
  \/ Done(t) \/ Fail(t) \/ Cancel(t) \/ Requeue(t) \/ AutoRetry(t)

RowSame(t) == state'[t] = state[t] /\ Keeps(t)

------------------------------------------------------------------------------
LifeInit ==
  /\ state = [t \in Tasks |-> "absent"]
  /\ runner = [t \in Tasks |-> NoRunner]
  /\ retries = [t \in Tasks |-> 0]

LifeNext == \A t \in Tasks : RowStep(t) \/ RowSame(t)

LifeSpec == LifeInit /\ [][LifeNext]_lifeVars
==============================================================================
