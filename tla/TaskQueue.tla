------------------------------ MODULE TaskQueue ------------------------------
(***************************************************************************)
(* The task queue at run time: the task table, the worker records, one      *)
(* supervisor loop per worker and one execution thread per claim.           *)
(*                                                                          *)
(* A runner id names both the attempt and the thread that makes it: the id  *)
(* is drawn by claim_task and handed to the one thread spawned for it.      *)
(*                                                                          *)
(* Transactions.  Odoo cursors are REPEATABLE READ.  A transaction that     *)
(* reads a row and writes it later holds a snapshot: `snap' is what it read *)
(* and `stale' says that somebody has committed a write of the row since.   *)
(* A row write over a stale snapshot raises SerializationFailure; SELECT    *)
(* ... FOR UPDATE SKIP LOCKED finds no row when the qualification fails on  *)
(* the snapshot, raises when the snapshot is stale, and skips a locked row. *)
(* Transactions that nothing can interleave with are one action; the ones   *)
(* that stay open across other people's steps are a begin and an end:       *)
(* execute(), the failure handler, the stuck mark and a user's request.     *)
(*                                                                          *)
(* One pass of run_service() is modelled step by step, in any order.        *)
(***************************************************************************)
EXTENDS Naturals, FiniteSets

CONSTANTS
  Tasks, Workers, Runners,
  NoTask, NoWorker, NoRunner,
  Slots,        \* max_parallel_jobs of every worker
  Policy,       \* retry_policy of every task
  MaxRetries,   \* max_retries of every task
  Parents,      \* tasks whose execute() may call action_wait_children()
  Hanging,      \* tasks whose execute() never returns
  Raises,       \* the kinds of exception execute() may raise
  Returning,    \* workers whose process, once down, is started again
  Env,          \* what the environment may do, see EnvEvents
  MaxCrashes    \* bound on deaths and orderly stops of processes

EnvEvents ==
  {"starve",    \* a live worker fails to heartbeat for DEFAULT_HEARTBEAT_TIMEOUT
   "respawn",   \* the service stops a worker and starts another in its process
   "reload",    \* die_on_stuck_timeout set: a stuck service exits its process
   "timeout",   \* tasks have a timeout
   "edit",      \* users write the row's user-writable fields
   "cancel",    \* users cancel
   "progress",  \* execute() calls update_progress()
   "nothread",  \* the operating system refuses to start a thread
   "txfail"}    \* a transaction is lost (connection, database)

ASSUME QueueAssumption ==
  /\ NoTask \notin Tasks /\ NoWorker \notin Workers /\ NoRunner \notin Runners
  /\ Slots \in Nat \ {0}
  /\ Policy \in [Tasks -> {"no_retry", "retry_known", "retry_any"}]
  /\ MaxRetries \in [Tasks -> Nat]
  /\ Parents \subseteq Tasks /\ Hanging \subseteq Tasks
  /\ Returning \subseteq Workers
  /\ Raises \subseteq {"known", "other"}
  /\ Env \subseteq EnvEvents
  /\ MaxCrashes \in Nat

VARIABLES
  state, worker, runner, retries,   \* columns of generic.task.queue.task
  userTx,                           \* the row is locked by a user's request
  wstate, beating,                  \* worker record; last_heartbeat is recent
  sup, marking,                     \* supervisor loop; open stuck mark
  tracked, timedOut,                \* _active_tasks and _TaskThread.timed_out
  pc, job, home, snap, stale, exc,  \* the execution threads
  crashes

rowVars    == <<state, worker, runner, retries>>
workerVars == <<wstate, beating>>
trackVars  == <<tracked, timedOut>>
placeVars  == <<job, home>>
txVars     == <<pc, snap, stale, exc>>
vars == <<rowVars, userTx, workerVars, sup, marking, trackVars, placeVars,
          txVars, crashes>>

States == {"absent", "pending", "assigned", "running", "stuck", "waiting",
           "done", "failed", "cancelled"}
InFlight    == {"assigned", "running", "stuck"}
Executing   == {"running", "stuck"}
Cancellable == {"pending", "assigned", "running", "stuck", "waiting", "failed"}

NoSnap == [state |-> "absent", mine |-> FALSE]
OpenTx == {"executing", "handling"}

TypeOK ==
  /\ state \in [Tasks -> States]
  /\ worker \in [Tasks -> Workers \cup {NoWorker}]
  /\ runner \in [Tasks -> Runners \cup {NoRunner}]
  /\ retries \in [Tasks -> Nat]
  /\ userTx \in [Tasks -> BOOLEAN]
  /\ wstate \in [Workers -> {"none", "active", "stuck", "dead"}]
  /\ beating \in [Workers -> BOOLEAN]
  /\ sup \in [Workers -> {"down", "init", "up", "leaving"}]
  /\ marking \in [Workers -> Runners \cup {NoRunner}]
  /\ tracked \in [Runners -> BOOLEAN]
  /\ timedOut \in [Runners -> BOOLEAN]
  /\ pc \in [Runners -> {"gone", "spawned", "started", "executing",
                         "caught", "handling"}]
  /\ job \in [Runners -> Tasks \cup {NoTask}]
  /\ home \in [Runners -> Workers \cup {NoWorker}]
  /\ snap \in [Runners -> [state : States, mine : BOOLEAN]]
  /\ stale \in [Runners -> BOOLEAN]
  /\ exc \in [Runners -> {"none", "known", "other"}]
  /\ crashes \in Nat

Init ==
  /\ state = [t \in Tasks |-> "absent"]
  /\ worker = [t \in Tasks |-> NoWorker]
  /\ runner = [t \in Tasks |-> NoRunner]
  /\ retries = [t \in Tasks |-> 0]
  /\ userTx = [t \in Tasks |-> FALSE]
  /\ wstate = [w \in Workers |-> "none"]
  /\ beating = [w \in Workers |-> FALSE]
  /\ sup = [w \in Workers |-> "down"]
  /\ marking = [w \in Workers |-> NoRunner]
  /\ tracked = [r \in Runners |-> FALSE]
  /\ timedOut = [r \in Runners |-> FALSE]
  /\ pc = [r \in Runners |-> "gone"]
  /\ job = [r \in Runners |-> NoTask]
  /\ home = [r \in Runners |-> NoWorker]
  /\ snap = [r \in Runners |-> NoSnap]
  /\ stale = [r \in Runners |-> FALSE]
  /\ exc = [r \in Runners |-> "none"]
  /\ crashes = 0

------------------------------------------------------------------------------
\* Rows and transactions

Live(r) == pc[r] # "gone"

\* The stuck mark of worker w holds the row lock of its task.
Marks(w, t) == marking[w] # NoRunner /\ job[marking[w]] = t
Locked(t) == userTx[t] \/ \E w \in Workers : Marks(w, t)

\* A commit that wrote the rows S makes the snapshots of them stale.
Touch(S) ==
  stale' = [r \in Runners |->
              stale[r] \/ (pc[r] \in OpenTx /\ job[r] \in S)]

\* Thread r reads its row in a new transaction.
Snapshot(r) ==
  /\ snap' = [snap EXCEPT ![r] = [state |-> state[job[r]],
                                  mine  |-> runner[job[r]] = r]]
  /\ stale' = [stale EXCEPT ![r] = FALSE]

\* Thread r ends; S are the rows its last transaction wrote.
EndThread(r, S) ==
  /\ pc' = [pc EXCEPT ![r] = "gone"]
  /\ snap' = [snap EXCEPT ![r] = NoSnap]
  /\ stale' = [q \in Runners |->
                 q # r /\ (stale[q] \/ (pc[q] \in OpenTx /\ job[q] \in S))]
  /\ exc' = [exc EXCEPT ![r] = "none"]

SetState(t, s) == state' = [state EXCEPT ![t] = s]

\* _acquire_finalization as r's snapshot sees it: the qualification, and
\* whether the row can then be locked.
OwnsAnyAttempt(r) == snap[r].state \in Executing        \* mutant: no runner check
Owns(r) == snap[r].state \in Executing /\ snap[r].mine

CanLockStale(r) == ~Locked(job[r])                     \* mutant: no recheck
CanLock(r) == ~stale[r] /\ ~Locked(job[r])

HasBudgetAndOne(t) == retries[t] <= MaxRetries[t]      \* mutant: off by one
HasBudget(t) == retries[t] < MaxRetries[t]

\* Mutants: the count runs down, the runner id is kept.
AutoRetryDown(t) ==
  /\ SetState(t, "pending")
  /\ worker' = [worker EXCEPT ![t] = NoWorker]
  /\ runner' = [runner EXCEPT ![t] = NoRunner]
  /\ retries' = [retries EXCEPT ![t] = @ - 1]

AutoRetryKeepsRunner(t) ==
  /\ SetState(t, "pending")
  /\ worker' = [worker EXCEPT ![t] = NoWorker]
  /\ retries' = [retries EXCEPT ![t] = @ + 1]
  /\ UNCHANGED runner

\* _action_auto_retry: back to pending, one retry charged.
AutoRetry(t) ==
  /\ SetState(t, "pending")
  /\ worker' = [worker EXCEPT ![t] = NoWorker]
  /\ runner' = [runner EXCEPT ![t] = NoRunner]
  /\ retries' = [retries EXCEPT ![t] = @ + 1]

\* _handle_lost_execution of the rows S in one transaction: an assigned task
\* never started and is requeued free of charge, a retriable one is charged a
\* retry, any other fails with its runner cleared.  The rows U only lose their
\* worker.
Charged(t) == state[t] # "assigned"
              /\ Policy[t] \in {"retry_known", "retry_any"} /\ HasBudget(t)
Requeued(t) == state[t] = "assigned" \/ Charged(t)

LoseExecutions(S, U) ==
  /\ state' = [t \in Tasks |->
                 IF t \notin S THEN state[t]
                 ELSE IF Requeued(t) THEN "pending" ELSE "failed"]
  /\ worker' = [t \in Tasks |-> IF (t \in S /\ Requeued(t)) \/ t \in U
                                THEN NoWorker ELSE worker[t]]
  /\ runner' = [t \in Tasks |-> IF t \in S THEN NoRunner ELSE runner[t]]
  /\ retries' = [t \in Tasks |-> IF t \in S /\ Charged(t)
                                 THEN retries[t] + 1 ELSE retries[t]]

------------------------------------------------------------------------------
\* Users.  A request that writes a row holds its lock until it commits.

Create(t) ==
  /\ state[t] = "absent" /\ SetState(t, "pending")
  /\ UNCHANGED <<worker, runner, retries, userTx, workerVars, sup, marking,
                 trackVars, placeVars, txVars, crashes>>

UserLock(t) ==
  /\ Env \cap {"edit", "cancel"} # {}
  /\ state[t] \in Cancellable /\ ~Locked(t)
  /\ userTx' = [userTx EXCEPT ![t] = TRUE]
  /\ UNCHANGED <<rowVars, workerVars, sup, marking, trackVars, placeVars,
                 txVars, crashes>>

\* write() of user-writable fields: none the queue decides on here.
UserEdit(t) ==
  /\ "edit" \in Env /\ userTx[t]
  /\ userTx' = [userTx EXCEPT ![t] = FALSE]
  /\ Touch({t})
  /\ UNCHANGED <<rowVars, workerVars, sup, marking, trackVars, placeVars,
                 pc, snap, exc, crashes>>

\* action_cancel: runner and worker stay on the row, the thread is not told.
UserCancel(t) ==
  /\ "cancel" \in Env /\ userTx[t]
  /\ userTx' = [userTx EXCEPT ![t] = FALSE]
  /\ SetState(t, "cancelled")
  /\ Touch({t})
  /\ UNCHANGED <<worker, runner, retries, workerVars, sup, marking, trackVars,
                 placeVars, pc, snap, exc, crashes>>

UserAbort(t) ==
  /\ "txfail" \in Env /\ userTx[t]
  /\ userTx' = [userTx EXCEPT ![t] = FALSE]
  /\ UNCHANGED <<rowVars, workerVars, sup, marking, trackVars, placeVars,
                 txVars, crashes>>

\* action_retry, the manual one: never charged.
ManualRetry(t) ==
  /\ state[t] = "failed" /\ ~Locked(t)
  /\ SetState(t, "pending")
  /\ worker' = [worker EXCEPT ![t] = NoWorker]
  /\ runner' = [runner EXCEPT ![t] = NoRunner]
  /\ Touch({t})
  /\ UNCHANGED <<retries, userTx, workerVars, sup, marking, trackVars,
                 placeVars, pc, snap, exc, crashes>>

------------------------------------------------------------------------------
\* Execution threads: _task_thread_target

\* Phase 1.  action_start checks the state and nothing else.
StartTask(r) ==
  LET t == job[r] IN
  /\ pc[r] = "spawned"
  /\ state[t] = "assigned" /\ ~Locked(t)
  /\ SetState(t, "running")
  /\ pc' = [pc EXCEPT ![r] = "started"]
  /\ Touch({t})
  /\ UNCHANGED <<worker, runner, retries, userTx, workerVars, sup, marking,
                 trackVars, placeVars, snap, exc, crashes>>

\* The transition is refused, or the UPDATE waited for a writer that
\* committed: the thread ends.
StartRefused(r) ==
  /\ pc[r] = "spawned"
  /\ \/ state[job[r]] # "assigned"
     \/ Locked(job[r])
     \/ "txfail" \in Env
  /\ EndThread(r, {})
  /\ UNCHANGED <<rowVars, userTx, workerVars, sup, marking, trackVars,
                 placeVars, crashes>>

\* Phase 2 begins: execute() runs on whatever the row says now.
ExecBegin(r) ==
  /\ pc[r] = "started"
  /\ pc' = [pc EXCEPT ![r] = "executing"]
  /\ Snapshot(r)
  /\ UNCHANGED <<rowVars, userTx, workerVars, sup, marking, trackVars,
                 placeVars, exc, crashes>>

\* update_progress: a cursor of its own, committed at once; a locked row is
\* skipped.
Progress(r) ==
  /\ "progress" \in Env /\ pc[r] = "executing" /\ ~Locked(job[r])
  /\ Touch({job[r]})
  /\ UNCHANGED <<rowVars, userTx, workerVars, sup, marking, trackVars,
                 placeVars, pc, snap, exc, crashes>>

Returns(r) == pc[r] = "executing" /\ job[r] \notin Hanging

\* execute() called action_wait_children and returned: no runner check.
ExecWait(r) ==
  LET t == job[r] IN
  /\ Returns(r) /\ t \in Parents
  /\ snap[r].state = "running" /\ CanLock(r)
  /\ SetState(t, "waiting")
  /\ EndThread(r, {t})
  /\ UNCHANGED <<worker, runner, retries, userTx, workerVars, sup, marking,
                 trackVars, placeVars, crashes>>

\* action_done(runner_id) writes the result.
ExecDone(r) ==
  LET t == job[r] IN
  /\ Returns(r) /\ Owns(r) /\ CanLock(r)
  /\ SetState(t, "done")
  /\ EndThread(r, {t})
  /\ UNCHANGED <<worker, runner, retries, userTx, workerVars, sup, marking,
                 trackVars, placeVars, crashes>>

\* The thread found itself waiting, or action_done found no row to lock: the
\* transaction commits without a final state.
ExecDropped(r) ==
  /\ Returns(r)
  /\ ~Owns(r) \/ (~stale[r] /\ Locked(job[r]))
  /\ EndThread(r, {})
  /\ UNCHANGED <<rowVars, userTx, workerVars, sup, marking, trackVars,
                 placeVars, crashes>>

Catch(r, kind) ==
  /\ pc' = [pc EXCEPT ![r] = "caught"]
  /\ exc' = [exc EXCEPT ![r] = kind]
  /\ snap' = [snap EXCEPT ![r] = NoSnap]
  /\ stale' = [stale EXCEPT ![r] = FALSE]
  /\ UNCHANGED <<rowVars, userTx, workerVars, sup, marking, trackVars,
                 placeVars, crashes>>

\* A row write over a stale snapshot: SerializationFailure, a known error.
ExecConflict(r) ==
  /\ Returns(r) /\ stale[r]
  /\ Owns(r) \/ (job[r] \in Parents /\ snap[r].state = "running")
  /\ Catch(r, "known")

ExecRaise(r, kind) ==
  /\ Returns(r) /\ kind \in Raises
  /\ Catch(r, kind)

\* The handler reads the task in a new transaction.
HandleBegin(r) ==
  /\ pc[r] = "caught"
  /\ pc' = [pc EXCEPT ![r] = "handling"]
  /\ Snapshot(r)
  /\ UNCHANGED <<rowVars, userTx, workerVars, sup, marking, trackVars,
                 placeVars, exc, crashes>>

\* _should_auto_retry and the budget.
Retriable(r) ==
  /\ \/ Policy[job[r]] = "retry_any"
     \/ Policy[job[r]] = "retry_known" /\ exc[r] = "known"
  /\ HasBudget(job[r])

HandleRetry(r) ==
  /\ pc[r] = "handling" /\ Retriable(r) /\ Owns(r) /\ CanLock(r)
  /\ AutoRetry(job[r])
  /\ EndThread(r, {job[r]})
  /\ UNCHANGED <<userTx, workerVars, sup, marking, trackVars, placeVars,
                 crashes>>

HandleFail(r) ==
  /\ pc[r] = "handling" /\ ~Retriable(r) /\ Owns(r) /\ CanLock(r)
  /\ SetState(job[r], "failed")
  /\ EndThread(r, {job[r]})
  /\ UNCHANGED <<worker, runner, retries, userTx, workerVars, sup, marking,
                 trackVars, placeVars, crashes>>

\* Nothing to lock, a SerializationFailure or a lost transaction: the handler
\* has no handler, the thread ends.
HandleDropped(r) ==
  /\ pc[r] = "handling"
  /\ ~Owns(r) \/ ~CanLock(r) \/ "txfail" \in Env
  /\ EndThread(r, {})
  /\ UNCHANGED <<rowVars, userTx, workerVars, sup, marking, trackVars,
                 placeVars, crashes>>

------------------------------------------------------------------------------
\* The supervisor loop of a worker: run_service

Idle(w) == sup[w] = "up" /\ marking[w] = NoRunner
Team(w) == {r \in Runners : tracked[r] /\ home[r] = w}

TimedOut(w) == {r \in Team(w) : timedOut[r] /\ Live(r)}
IsStuckLate(w) == Cardinality(TimedOut(w)) > Slots     \* mutant: off by one
IsStuck(w) == Cardinality(TimedOut(w)) >= Slots

Heartbeat(w) ==
  /\ Idle(w)
  /\ wstate' = [wstate EXCEPT ![w] = IF IsStuck(w) THEN "stuck" ELSE "active"]
  /\ beating' = [beating EXCEPT ![w] = TRUE]
  /\ UNCHANGED <<rowVars, userTx, sup, marking, trackVars, placeVars, txVars,
                 crashes>>

\* on_shutdown waits up to SHUTDOWN_TASK_WAIT without a heartbeat, and the two
\* limits are equal: the wait can outlast the heartbeat.  A thread is taken to
\* begin its execute() in less time.
Overdue(w) ==
  /\ sup[w] = "leaving"
  /\ \A r \in Runners : home[r] = w => pc[r] \notin {"spawned", "started"}

\* No heartbeat for DEFAULT_HEARTBEAT_TIMEOUT seconds.
HeartbeatExpires(w) ==
  /\ sup[w] = "down" \/ Overdue(w) \/ "starve" \in Env
  /\ beating' = [beating EXCEPT ![w] = FALSE]
  /\ UNCHANGED <<rowVars, userTx, wstate, sup, marking, trackVars, placeVars,
                 txVars, crashes>>

\* _finalize_completed: a finished thread leaves _active_tasks; if it had
\* timed out and its row is still stuck under its runner id, it is lost.
FinalizeCompleted(w, r) ==
  LET t == job[r]
      lost == IF timedOut[r] /\ state[t] = "stuck" /\ runner[t] = r /\ ~Locked(t)
              THEN {t} ELSE {}
  IN /\ Idle(w) /\ r \in Team(w) /\ ~Live(r)
     /\ tracked' = [tracked EXCEPT ![r] = FALSE]
     /\ timedOut' = [timedOut EXCEPT ![r] = FALSE]
     /\ job' = [job EXCEPT ![r] = NoTask]
     /\ home' = [home EXCEPT ![r] = NoWorker]
     /\ LoseExecutions(lost, {})
     /\ Touch(lost)
     /\ UNCHANGED <<userTx, workerVars, sup, marking, pc, snap, exc, crashes>>

\* _timeout_task on a running row: action_stuck, the row locked till it commits.
MarkBegin(w, r) ==
  /\ "timeout" \in Env
  /\ Idle(w) /\ r \in Team(w) /\ Live(r) /\ ~timedOut[r]
  /\ state[job[r]] = "running" /\ ~Locked(job[r])
  /\ marking' = [marking EXCEPT ![w] = r]
  /\ UNCHANGED <<rowVars, userTx, workerVars, sup, trackVars, placeVars,
                 txVars, crashes>>

MarkEnd(w) ==
  /\ sup[w] = "up" /\ marking[w] # NoRunner
  /\ marking' = [marking EXCEPT ![w] = NoRunner]
  /\ timedOut' = [timedOut EXCEPT ![marking[w]] = TRUE]

MarkCommit(w) ==
  /\ MarkEnd(w)
  /\ SetState(job[marking[w]], "stuck")
  /\ Touch({job[marking[w]]})
  /\ UNCHANGED <<worker, runner, retries, userTx, workerVars, sup, tracked,
                 placeVars, pc, snap, exc, crashes>>

MarkFails(w) ==
  /\ "txfail" \in Env
  /\ MarkEnd(w)
  /\ UNCHANGED <<rowVars, userTx, workerVars, sup, tracked, placeVars, txVars,
                 crashes>>

\* _timeout_task that marks nothing: the row is not running, or it changed
\* between the read and the write.  timed_out is set all the same.  A timeout
\* is taken to be longer than a thread needs to start.
MarkSkipped(w, r) ==
  /\ "timeout" \in Env
  /\ Idle(w) /\ r \in Team(w) /\ ~timedOut[r] /\ pc[r] # "spawned"
  /\ \/ state[job[r]] # "running"
     \/ Env \cap {"edit", "progress", "txfail"} # {}
  /\ timedOut' = [timedOut EXCEPT ![r] = TRUE]
  /\ UNCHANGED <<rowVars, userTx, workerVars, sup, marking, tracked, placeVars,
                 txVars, crashes>>

\* _check_waiting_parent: the parent stays waiting (no step), completes or
\* fails, depending on its children, which are not modelled here.
CheckWaitingParent(w, t) ==
  /\ Idle(w) /\ state[t] = "waiting" /\ ~Locked(t)
  /\ \E s \in {"done", "failed"} : SetState(t, s)
  /\ Touch({t})
  /\ UNCHANGED <<worker, runner, retries, userTx, workerVars, sup, marking,
                 trackVars, placeVars, pc, snap, exc, crashes>>

AutoRetryFailed(w, t) ==
  /\ Idle(w) /\ state[t] = "failed" /\ ~Locked(t)
  /\ Policy[t] = "retry_any" /\ HasBudget(t)
  /\ AutoRetry(t)
  /\ Touch({t})
  /\ UNCHANGED <<userTx, workerVars, sup, marking, trackVars, placeVars, pc,
                 snap, exc, crashes>>

\* check_stale_workers: every record with an old heartbeat, the caller's too.
StaleWorkerAnyAge(v) == wstate[v] \in {"active", "stuck"}   \* mutant
StaleWorkerActive(v) == wstate[v] = "active" /\ ~beating[v]  \* mutant
StaleWorker(v) == wstate[v] \in {"active", "stuck"} /\ ~beating[v]

CheckStaleWorkers(w) ==
  /\ Idle(w) /\ \E v \in Workers : StaleWorker(v)
  /\ wstate' = [v \in Workers |-> IF StaleWorker(v) THEN "dead" ELSE wstate[v]]
  /\ UNCHANGED <<rowVars, userTx, beating, sup, marking, trackVars, placeVars,
                 txVars, crashes>>

\* _recover_dead_worker_tasks, one row of the batch.
RecoverDeadWorkerTask(w, t) ==
  /\ Idle(w) /\ state[t] \in InFlight /\ ~Locked(t)
  /\ \E v \in Workers : worker[t] = v /\ wstate[v] = "dead"
  /\ LoseExecutions({t}, {})
  /\ Touch({t})
  /\ UNCHANGED <<userTx, workerVars, sup, marking, trackVars, placeVars, pc,
                 snap, exc, crashes>>

\* A uuid no row carries and no thread was given.
Fresh(r) == ~Live(r) /\ ~tracked[r] /\ \A t \in Tasks : runner[t] # r

HasSlotAndOne(w) == Cardinality(Team(w)) <= Slots      \* mutant: off by one
HasSlot(w) == Cardinality(Team(w)) < Slots

\* claim_task for one row of the batch.
Assign(w, t, r) ==
  /\ Idle(w) /\ HasSlot(w)
  /\ state[t] = "pending" /\ ~Locked(t) /\ Fresh(r)
  /\ SetState(t, "assigned")
  /\ worker' = [worker EXCEPT ![t] = w]
  /\ runner' = [runner EXCEPT ![t] = r]
  /\ Touch({t})
  /\ UNCHANGED <<retries, userTx, workerVars, sup, marking, snap, exc, crashes>>

\* _spawn_task_thread: an entry in _active_tasks ...
Enlist(w, t, r) ==
  /\ tracked' = [tracked EXCEPT ![r] = TRUE]
  /\ timedOut' = [timedOut EXCEPT ![r] = FALSE]
  /\ job' = [job EXCEPT ![r] = t]
  /\ home' = [home EXCEPT ![r] = w]

\* ... and the thread is started.
Claim(w, t, r) ==
  /\ Assign(w, t, r) /\ Enlist(w, t, r)
  /\ pc' = [pc EXCEPT ![r] = "spawned"]

\* thread.start() raises: the entry has a thread that never ran, and the loop
\* goes on (on_error does nothing) ...
SpawnFails(w, t, r) ==
  /\ "nothread" \in Env
  /\ Assign(w, t, r) /\ Enlist(w, t, r)
  /\ UNCHANGED pc

\* ... without the rows of the batch that were behind.
SpawnSkipped(w, t, r) ==
  /\ "nothread" \in Env
  /\ Assign(w, t, r)
  /\ UNCHANGED <<trackVars, placeVars, pc>>

------------------------------------------------------------------------------
\* Start, stop and death of a worker

\* on_init: find_or_create takes the record over.
Start(w) ==
  /\ sup[w] = "down"
  /\ sup' = [sup EXCEPT ![w] = "init"]
  /\ wstate' = [wstate EXCEPT ![w] = "active"]
  /\ beating' = [beating EXCEPT ![w] = TRUE]
  /\ UNCHANGED <<rowVars, userTx, marking, trackVars, placeVars, txVars, crashes>>

\* Mutant: a task not yet started is forgotten.
OrphansStarted(w) ==
  {t \in Tasks : worker[t] = w /\ state[t] \in Executing \cup {"waiting"}}
Orphans(w) == {t \in Tasks : worker[t] = w /\ state[t] \in InFlight \cup {"waiting"}}

\* _cleanup_orphaned_tasks.  A locked in-flight orphan is skipped; writing a
\* locked waiting one fails the whole transaction.
CleanupOrphans(w) ==
  LET waiting == {t \in Orphans(w) : state[t] = "waiting"}
      lost    == {t \in Orphans(w) \ waiting : ~Locked(t)}
  IN /\ sup[w] = "init" /\ \A t \in waiting : ~Locked(t)
     /\ LoseExecutions(lost, waiting)
     /\ Touch(lost \cup waiting)
     /\ sup' = [sup EXCEPT ![w] = "up"]
     /\ UNCHANGED <<userTx, workerVars, marking, trackVars, placeVars, pc, snap,
                    exc, crashes>>

\* The exception is logged and the worker starts its loop.
CleanupFails(w) ==
  /\ sup[w] = "init"
  /\ \/ "txfail" \in Env
     \/ \E t \in Orphans(w) : state[t] = "waiting" /\ Locked(t)
  /\ sup' = [sup EXCEPT ![w] = "up"]
  /\ UNCHANGED <<rowVars, userTx, workerVars, marking, trackVars, placeVars,
                 txVars, crashes>>

\* Mutant: the shutdown recovers the tasks whose threads it did not see end.
LeaveRecovering(w) ==
  /\ Idle(w)
  /\ sup' = [sup EXCEPT ![w] = "leaving"]
  /\ LoseExecutions({t \in Orphans(w) : ~Locked(t)}, {})
  /\ Touch({t \in Orphans(w) : ~Locked(t)})
  /\ UNCHANGED <<userTx, workerVars, marking, trackVars, placeVars, pc, snap, exc>>

\* The loop of w has seen the stop event and waits in on_shutdown for its
\* threads, which run on.
Leave(w) ==
  /\ Idle(w)
  /\ sup' = [sup EXCEPT ![w] = "leaving"]
  /\ UNCHANGED <<rowVars, userTx, workerVars, marking, trackVars, placeVars,
                 txVars>>

\* request_hard_reload after _die_on_stuck_timeout: the service stops.
HardReload(w) ==
  /\ "reload" \in Env /\ IsStuck(w)
  /\ Leave(w)
  /\ UNCHANGED crashes

\* The container stops the service (signal, memory or CPU limit), or it was
\* stuck when the stop was requested and is no longer.
Shutdown(w) ==
  /\ crashes < MaxCrashes /\ crashes' = crashes + 1
  /\ Leave(w)

\* The service stops the worker alone (database probe failed).
StopWorker(w) ==
  /\ "respawn" \in Env
  /\ Leave(w)
  /\ UNCHANGED crashes

\* on_shutdown is over in a process that goes on: the worker forgets its
\* threads, which live on.
WorkerEnds(w) ==
  /\ "respawn" \in Env /\ sup[w] = "leaving"
  /\ sup' = [sup EXCEPT ![w] = "down"]
  /\ tracked' = [r \in Runners |-> tracked[r] /\ home[r] # w]
  /\ timedOut' = [r \in Runners |-> timedOut[r] /\ home[r] # w]
  /\ UNCHANGED <<rowVars, userTx, workerVars, marking, placeVars, txVars, crashes>>

\* The process of worker w is gone, its threads and open transactions with it.
ProcessDies(w) ==
  LET dead == {r \in Runners : home[r] = w} IN
  /\ sup' = [sup EXCEPT ![w] = "down"]
  /\ marking' = [marking EXCEPT ![w] = NoRunner]
  /\ tracked' = [r \in Runners |-> tracked[r] /\ r \notin dead]
  /\ timedOut' = [r \in Runners |-> timedOut[r] /\ r \notin dead]
  /\ pc' = [r \in Runners |-> IF r \in dead THEN "gone" ELSE pc[r]]
  /\ job' = [r \in Runners |-> IF r \in dead THEN NoTask ELSE job[r]]
  /\ home' = [r \in Runners |-> IF r \in dead THEN NoWorker ELSE home[r]]
  /\ snap' = [r \in Runners |-> IF r \in dead THEN NoSnap ELSE snap[r]]
  /\ stale' = [r \in Runners |-> stale[r] /\ r \notin dead]
  /\ exc' = [r \in Runners |-> IF r \in dead THEN "none" ELSE exc[r]]
  /\ UNCHANGED <<rowVars, userTx, workerVars>>

Crash(w) ==
  /\ crashes < MaxCrashes /\ crashes' = crashes + 1
  /\ sup[w] # "down" \/ \E r \in Runners : Live(r) /\ home[r] = w
  /\ ProcessDies(w)

\* The wait is over, the process exits: its threads are daemons.
ProcessExits(w) ==
  /\ sup[w] = "leaving"
  /\ ProcessDies(w)
  /\ UNCHANGED crashes

------------------------------------------------------------------------------
UserStep(t) ==
  \/ Create(t) \/ UserLock(t) \/ UserEdit(t) \/ UserCancel(t) \/ UserAbort(t)
  \/ ManualRetry(t)

\* What a thread does left to itself, however execute() behaves.
ThreadRuns(r) ==
  \/ StartTask(r) \/ StartRefused(r) \/ ExecBegin(r)
  \/ ExecWait(r) \/ ExecDone(r) \/ ExecDropped(r) \/ ExecConflict(r)
  \/ HandleBegin(r) \/ HandleRetry(r) \/ HandleFail(r) \/ HandleDropped(r)

ThreadStep(r) ==
  \/ ThreadRuns(r) \/ Progress(r) \/ \E kind \in Raises : ExecRaise(r, kind)

SupervisorStep(w) ==
  \/ Heartbeat(w) \/ HeartbeatExpires(w)
  \/ MarkCommit(w) \/ MarkFails(w) \/ CheckStaleWorkers(w)
  \/ \E r \in Runners : \/ FinalizeCompleted(w, r) \/ MarkBegin(w, r)
                        \/ MarkSkipped(w, r)
  \/ \E t \in Tasks : \/ CheckWaitingParent(w, t) \/ AutoRetryFailed(w, t)
                      \/ RecoverDeadWorkerTask(w, t)
                      \/ \E r \in Runners : \/ Claim(w, t, r) \/ SpawnFails(w, t, r)
                                            \/ SpawnSkipped(w, t, r)

ProcessStep(w) ==
  \/ Start(w) \/ CleanupOrphans(w) \/ CleanupFails(w)
  \/ HardReload(w) \/ Shutdown(w) \/ StopWorker(w)
  \/ WorkerEnds(w) \/ ProcessExits(w) \/ Crash(w)

Next ==
  \/ \E t \in Tasks : UserStep(t)
  \/ \E r \in Runners : ThreadStep(r)
  \/ \E w \in Workers : SupervisorStep(w) \/ ProcessStep(w)

Spec == Init /\ [][Next]_vars

------------------------------------------------------------------------------
(* Fairness.  Threads and transactions the process runs go on until they end *)
(* (a Hanging execute() never does); a server manager starts the process of  *)
(* a Returning worker again; a process that is down misses its heartbeat and *)
(* one that is leaving exits, the waits of its shutdown being bounded.       *)
(* Every pass of the loop performs every step of it, whatever happened in    *)
(* between, so the steps that other steps can disable for a while are        *)
(* strongly fair.  Nothing is assumed of users, crashes or claims.           *)
Fairness ==
  /\ \A t \in Tasks : WF_vars(UserEdit(t) \/ UserCancel(t) \/ UserAbort(t))
  /\ \A r \in Runners : WF_vars(ThreadRuns(r))
  /\ \A w \in Returning : WF_vars(Start(w))
  /\ \A w \in Workers :
       /\ WF_vars(sup[w] = "down" /\ HeartbeatExpires(w))
       /\ WF_vars(CleanupOrphans(w) \/ CleanupFails(w))
       /\ WF_vars(MarkCommit(w) \/ MarkFails(w))
       /\ WF_vars(HardReload(w)) /\ WF_vars(ProcessExits(w))
       /\ SF_vars(CheckStaleWorkers(w))
       /\ SF_vars(\E r \in Runners : FinalizeCompleted(w, r))
       /\ SF_vars(\E r \in Runners : MarkBegin(w, r) \/ MarkSkipped(w, r))
       /\ SF_vars(\E t \in Tasks : RecoverDeadWorkerTask(w, t))

FairSpec == Spec /\ Fairness

\* Claims too: no pending task is passed over for ever.  claim_task takes the
\* oldest of the highest priority, so this says that users do not create, or
\* retry, tasks ahead of it without end.
ClaimFairness ==
  \A w \in Workers, t \in Tasks : SF_vars(\E r \in Runners : Claim(w, t, r))

------------------------------------------------------------------------------
(* Properties *)

\* The columns tell who owns a row: nobody until it is claimed, a worker and a
\* runner while it is in flight, and no runner id is on two rows.
OwnedRows ==
  \A t \in Tasks :
    /\ state[t] \in {"absent", "pending"} =>
         worker[t] = NoWorker /\ runner[t] = NoRunner
    /\ state[t] \in InFlight => worker[t] # NoWorker /\ runner[t] # NoRunner
    /\ \A u \in Tasks \ {t} : runner[t] # NoRunner => runner[u] # runner[t]

Leaving(r) == sup[home[r]] = "leaving"

\* Two threads execute one task only while the process of the one that lost the
\* row is on its way out: what the recovery paths keep of the promise in the
\* comments of on_shutdown.
ExclusiveExecution ==
  \A q, r \in Runners :
    Live(q) /\ Live(r) /\ q # r /\ job[q] = job[r] =>
      \/ Leaving(q) /\ runner[job[q]] # q
      \/ Leaving(r) /\ runner[job[r]] # r

\* A worker never runs more than max_parallel_jobs threads.
SlotsBound ==
  \A w \in Workers : Cardinality({r \in Runners : Live(r) /\ home[r] = w}) <= Slots

\* Somebody will resolve row t: its thread, the cleanup or the sweep of its
\* worker's rows, the finalizer of a timed-out thread, or a user's request that
\* is about to commit.
Covered(t) ==
  \/ userTx[t]
  \/ Live(runner[t])
  \/ sup[worker[t]] # "up" \/ wstate[worker[t]] = "dead"
  \/ tracked[runner[t]] /\ timedOut[runner[t]] /\ state[t] = "stuck"
  \/ \E w \in Workers : marking[w] = runner[t]

\* No row in flight is left in limbo when its thread ends: the drops of the
\* zombie guard, the safety net of _finalize_completed and the recovery paths
\* leave no gap between them.
NoOrphan == \A t \in Tasks : state[t] \in InFlight => Covered(t)

\* Only the thread that owns a row in execution completes it, and it ends
\* doing so: the zombie-thread guard of action_done.
DoneByOwner ==
  [][\A t \in Tasks : state[t] \in Executing /\ state'[t] = "done" =>
       /\ pc[runner[t]] = "executing" /\ job[runner[t]] = t
       /\ ~Live(runner[t])']_vars

\* A claimed row is started by the thread it was claimed for: action_start asks
\* for no runner id, so the threads of earlier claims must be gone by then.
StartedByOwner ==
  [][\A t \in Tasks : state[t] = "assigned" /\ state'[t] = "running" =>
       pc[runner[t]] = "spawned" /\ pc'[runner[t]] = "started"]_vars

\* Whatever the interleaving, a row only moves as the model's methods allow,
\* charged within its retry budget.
Life == INSTANCE TaskLifecycle WITH
  state <- state, runner <- runner, retries <- retries
LifeSpec == Life!LifeSpec

\* A task in flight does not stay in flight for ever, be its thread dead,
\* hung or cut off from its row.
InFlightResolves ==
  \A t \in Tasks : state[t] \in InFlight ~> state[t] \notin InFlight

\* A pending task is executed or cancelled in the end.
PendingServed ==
  \A t \in Tasks : state[t] = "pending" ~>
                   state[t] \in {"waiting", "done", "failed", "cancelled"}
==============================================================================
