------------------------ MODULE TaskQueueRowProofs ------------------------
(***************************************************************************)
(* What every write of the task table respects, in every environment: the   *)
(* refinement of TaskLifecycle, the ownership columns and the zombie-thread *)
(* guard.  Each is proved from the invariant of TaskQueueProofs, one step   *)
(* per action that writes a row.                                            *)
(***************************************************************************)
EXTENDS TaskQueueProofs

\* The actions that write the columns of a row.
LEMMA RowWriters ==
  ASSUME [Next]_vars
  PROVE  \/ UNCHANGED rowVars
         \/ \E t \in Tasks : Create(t) \/ UserCancel(t) \/ ManualRetry(t)
         \/ \E r \in Runners : \/ StartTask(r) \/ ExecWait(r) \/ ExecDone(r)
                              \/ HandleRetry(r) \/ HandleFail(r)
         \/ \E w \in Workers :
              \/ MarkCommit(w) \/ CleanupOrphans(w)
              \/ \E r \in Runners : FinalizeCompleted(w, r)
              \/ \E t \in Tasks : \/ CheckWaitingParent(w, t)
                                 \/ AutoRetryFailed(w, t)
                                 \/ RecoverDeadWorkerTask(w, t)
                                 \/ \E r \in Runners : Assign(w, t, r)
<1>1. ASSUME NEW t \in Tasks, UserLock(t) \/ UserEdit(t) \/ UserAbort(t)
      PROVE  UNCHANGED rowVars
  BY <1>1 DEF UserLock, UserEdit, UserAbort
<1>2. ASSUME NEW r \in Runners,
             \/ StartRefused(r) \/ ExecBegin(r) \/ ExecDropped(r)
             \/ ExecConflict(r) \/ HandleBegin(r) \/ HandleDropped(r)
             \/ Progress(r) \/ \E kind \in Raises : ExecRaise(r, kind)
      PROVE  UNCHANGED rowVars
  BY <1>2 DEF StartRefused, ExecBegin, ExecDropped, ExecConflict, HandleBegin,
              HandleDropped, Progress, ExecRaise, Catch
<1>3. ASSUME NEW w \in Workers,
             \/ Heartbeat(w) \/ HeartbeatExpires(w) \/ MarkFails(w)
             \/ CheckStaleWorkers(w)
             \/ \E r \in Runners : MarkBegin(w, r) \/ MarkSkipped(w, r)
      PROVE  UNCHANGED rowVars
  BY <1>3 DEF Heartbeat, HeartbeatExpires, MarkFails, MarkEnd,
              CheckStaleWorkers, MarkBegin, MarkSkipped
<1>4. ASSUME NEW w \in Workers,
             \/ Start(w) \/ CleanupFails(w) \/ Leave(w) \/ WorkerEnds(w)
             \/ ProcessDies(w)
      PROVE  UNCHANGED rowVars
  BY <1>4 DEF Start, CleanupFails, Leave, WorkerEnds, ProcessDies
<1>5. ASSUME NEW w \in Workers, NEW t \in Tasks, NEW r \in Runners,
             Claim(w, t, r) \/ SpawnFails(w, t, r) \/ SpawnSkipped(w, t, r)
      PROVE  Assign(w, t, r)
  BY <1>5 DEF Claim, SpawnFails, SpawnSkipped
<1>6. ASSUME UNCHANGED vars PROVE UNCHANGED rowVars
  BY <1>6 DEF vars
<1>7. QED
  BY <1>1, <1>2, <1>3, <1>4, <1>5, <1>6, ProcessSteps
     DEF Next, UserStep, ThreadStep, ThreadRuns, SupervisorStep

------------------------------------------------------------------------------
\* Refinement

LEMMA LifeStep ==
  ASSUME TypeOK, JobInv, LockInv, SnapInv, [Next]_vars
  PROVE  [Life!LifeNext]_(Life!lifeVars)
<1> USE QueueAssumption
    DEF rowVars, placeVars, States, Live, SetState, Returns, AutoRetry,
        LoseExecutions, Charged, Requeued, HasBudget, MarkEnd, Fresh, OpenTx,
        Owns, CanLock, Executing, InFlight, Cancellable, Orphans, TypeOK,
        JobInv, LockInv, SnapInv, Life!lifeVars, Life!LifeNext, Life!RowStep,
        Life!RowSame, Life!Keeps, Life!Moves, Life!MayMove,
        Life!AllowedTransitions, Life!Create, Life!Claim, Life!Start,
        Life!MarkStuck, Life!WaitChildren, Life!Done, Life!Fail, Life!Cancel,
        Life!Requeue, Life!AutoRetry
<1>1. ASSUME NEW t \in Tasks, Create(t) PROVE [Life!LifeNext]_(Life!lifeVars)
  BY <1>1 DEF Create
<1>2. ASSUME NEW t \in Tasks, UserCancel(t) PROVE [Life!LifeNext]_(Life!lifeVars)
  BY <1>2 DEF UserCancel
<1>3. ASSUME NEW t \in Tasks, ManualRetry(t) PROVE [Life!LifeNext]_(Life!lifeVars)
  BY <1>3 DEF ManualRetry
<1>4. ASSUME NEW r \in Runners, StartTask(r) PROVE [Life!LifeNext]_(Life!lifeVars)
  BY <1>4 DEF StartTask
<1>5. ASSUME NEW r \in Runners, ExecWait(r) PROVE [Life!LifeNext]_(Life!lifeVars)
  BY <1>5 DEF ExecWait
<1>6. ASSUME NEW r \in Runners, ExecDone(r) PROVE [Life!LifeNext]_(Life!lifeVars)
  BY <1>6 DEF ExecDone
<1>7. ASSUME NEW r \in Runners, HandleRetry(r) PROVE [Life!LifeNext]_(Life!lifeVars)
  <2>1. /\ state[job[r]] \in {"running", "stuck"}
        /\ retries[job[r]] < MaxRetries[job[r]] /\ job[r] \in Tasks
    BY <1>7 DEF HandleRetry, Retriable
  <2>2. Life!RowStep(job[r])
    BY <1>7, <2>1 DEF HandleRetry
  <2>3. \A t \in Tasks \ {job[r]} : Life!RowSame(t)
    BY <1>7 DEF HandleRetry
  <2>4. QED
    BY <2>2, <2>3
<1>8. ASSUME NEW r \in Runners, HandleFail(r) PROVE [Life!LifeNext]_(Life!lifeVars)
  BY <1>8 DEF HandleFail
<1>9. ASSUME NEW w \in Workers, MarkCommit(w) PROVE [Life!LifeNext]_(Life!lifeVars)
  BY <1>9 DEF MarkCommit
<1>10. ASSUME NEW w \in Workers, CleanupOrphans(w) PROVE [Life!LifeNext]_(Life!lifeVars)
  BY <1>10 DEF CleanupOrphans
<1>11. ASSUME NEW w \in Workers, NEW r \in Runners, FinalizeCompleted(w, r) PROVE [Life!LifeNext]_(Life!lifeVars)
  BY <1>11 DEF FinalizeCompleted
<1>12. ASSUME NEW w \in Workers, NEW t \in Tasks, CheckWaitingParent(w, t) PROVE [Life!LifeNext]_(Life!lifeVars)
  BY <1>12 DEF CheckWaitingParent
<1>13. ASSUME NEW w \in Workers, NEW t \in Tasks, AutoRetryFailed(w, t) PROVE [Life!LifeNext]_(Life!lifeVars)
  BY <1>13 DEF AutoRetryFailed
<1>14. ASSUME NEW w \in Workers, NEW t \in Tasks, RecoverDeadWorkerTask(w, t) PROVE [Life!LifeNext]_(Life!lifeVars)
  BY <1>14 DEF RecoverDeadWorkerTask
<1>15. ASSUME NEW w \in Workers, NEW t \in Tasks, NEW r \in Runners, Assign(w, t, r) PROVE [Life!LifeNext]_(Life!lifeVars)
  BY <1>15 DEF Assign
<1>16. ASSUME UNCHANGED rowVars PROVE [Life!LifeNext]_(Life!lifeVars)
  BY <1>16
<1>17. QED
  BY RowWriters, <1>1, <1>2, <1>3, <1>4, <1>5, <1>6, <1>7, <1>8, <1>9,
     <1>10, <1>11, <1>12, <1>13, <1>14, <1>15, <1>16

\* TaskQueue implements TaskLifecycle: whatever starves, dies, is edited, lost
\* or late, every row moves by one of the model's methods, with a runner id no
\* row carries when it is claimed, and is charged within its retry budget.
THEOREM ImplementsLifecycle == Spec => LifeSpec
<1>1. Init => Life!LifeInit
  BY DEF Init, Life!LifeInit
<1>2. QueueInv /\ [Next]_vars => [Life!LifeNext]_(Life!lifeVars)
  BY LifeStep DEF QueueInv
<1>3. QED
  BY <1>1, <1>2, QueueInvariant, PTL DEF Spec, LifeSpec, Life!LifeSpec

------------------------------------------------------------------------------
\* What follows from the life of a row alone

InBudget == \A t \in Tasks : retries[t] \in 0..MaxRetries[t]

LEMMA LifeBudget ==
  /\ Life!LifeInit => InBudget
  /\ InBudget /\ [Life!LifeNext]_(Life!lifeVars) => InBudget'
<1>1. Life!LifeInit => InBudget
  BY QueueAssumption DEF Life!LifeInit, InBudget
<1>2. ASSUME InBudget, Life!LifeNext PROVE InBudget'
  <2> SUFFICES ASSUME NEW t \in Tasks PROVE retries'[t] \in 0..MaxRetries[t]
    BY DEF InBudget
  <2>1. \/ retries'[t] = retries[t]
        \/ retries[t] < MaxRetries[t] /\ retries'[t] = retries[t] + 1
    BY <1>2 DEF Life!LifeNext, Life!RowStep, Life!RowSame, Life!Keeps,
                Life!Create, Life!Claim, Life!Start, Life!MarkStuck,
                Life!WaitChildren, Life!Done, Life!Fail, Life!Cancel,
                Life!Requeue, Life!AutoRetry
  <2>2. retries[t] \in 0..MaxRetries[t] /\ MaxRetries[t] \in Nat
    BY <1>2, QueueAssumption DEF InBudget
  <2> QED
    BY <2>1, <2>2
<1>3. ASSUME InBudget, UNCHANGED Life!lifeVars PROVE InBudget'
  BY <1>3 DEF InBudget, Life!lifeVars
<1> QED
  BY <1>1, <1>2, <1>3

\* No row is retried automatically more often than its max_retries, whoever
\* retries, recovers and sweeps it (_action_auto_retry, which checks nothing).
THEOREM RetriesStayInBudget == Spec => []InBudget
BY LifeBudget, ImplementsLifecycle, PTL DEF LifeSpec, Life!LifeSpec

\* An attempt in the coarse view of TaskTree and UniqueKey: from its claim to
\* its end, the wait for children included.
Coarse ==
  [t \in Tasks |-> IF state[t] \in InFlight \cup {"waiting"} THEN "running"
                   ELSE state[t]]
Rows == INSTANCE TaskRows WITH state <- Coarse

LEMMA LifeIsCoarse ==
  /\ Life!LifeInit => Rows!Init
  /\ TypeOK /\ [Life!LifeNext]_(Life!lifeVars) => [Rows!Next]_(Rows!rowVars)
<1> USE DEF InFlight
<1>1. Life!LifeInit => Rows!Init
  BY DEF Life!LifeInit, Rows!Init, Coarse
<1>2. ASSUME TypeOK, NEW t \in Tasks, Life!RowStep(t) PROVE Rows!RowStep(t)
  <2> DEFINE from(to) == {s \in States : Life!MayMove(s, to)}
  <2>8. /\ from("assigned") \subseteq {"pending"}
        /\ from("running") \cup from("stuck") \cup from("waiting") \subseteq InFlight
        /\ from("done") \cup from("failed") \subseteq InFlight \cup {"waiting"}
        /\ from("cancelled") \subseteq InFlight \cup {"pending", "waiting", "failed"}
    BY DEF Life!MayMove, Life!AllowedTransitions, States
  <2>9. \A to : Life!Moves(t, to) => state[t] \in from(to) /\ state'[t] = to
    BY <1>2 DEF Life!Moves, TypeOK
  <2> HIDE DEF from
  <2> USE <2>8, <2>9
      DEF Life!Keeps, Coarse, Rows!RowStep, Rows!Moves, Rows!Free
  <2>1. CASE Life!Create(t)
    BY <2>1 DEF Life!Create, Rows!Create
  <2>2. CASE Life!Claim(t)
    BY <2>2 DEF Life!Claim, Rows!Claim
  <2>3. CASE Life!Start(t) \/ Life!MarkStuck(t) \/ Life!WaitChildren(t)
    BY <2>3 DEF Life!Start, Life!MarkStuck, Life!WaitChildren, Rows!Stay
  <2>4. CASE Life!Done(t) \/ Life!Fail(t)
    BY <2>4 DEF Life!Done, Life!Fail, Rows!End
  <2>5. CASE Life!Cancel(t)
    BY <2>5 DEF Life!Cancel, Rows!Cancel
  <2>6. CASE Life!Requeue(t) \/ Life!AutoRetry(t)
    BY <2>6 DEF Life!Requeue, Life!AutoRetry, Rows!Retry, Rows!Charged
  <2> QED
    BY <1>2, <2>1, <2>2, <2>3, <2>4, <2>5, <2>6 DEF Life!RowStep
<1>3. ASSUME NEW t \in Tasks, Life!RowSame(t) PROVE Rows!RowStep(t)
  BY <1>3 DEF Life!RowSame, Life!Keeps, Coarse, Rows!RowStep, Rows!Stay,
              Rows!Moves, Rows!Free
<1>4. TypeOK /\ Life!LifeNext => Rows!Next
  BY <1>2, <1>3 DEF Life!LifeNext, Rows!Next
<1>5. UNCHANGED Life!lifeVars => UNCHANGED Rows!rowVars
  BY DEF Life!lifeVars, Rows!rowVars, Coarse
<1> QED
  BY <1>1, <1>4, <1>5

\* Seen from outside its attempt, a row of the queue at run time, with all that
\* may befall it, lives the same life as those of TaskTree and UniqueKey
\* (_check_transition, _action_auto_retry).
THEOREM ImplementsRows == Spec => Rows!Spec
BY ImplementsLifecycle, LifeIsCoarse, TypeCorrect, PTL DEF LifeSpec, Life!LifeSpec, Rows!Spec

\* What a step never does to a row: take it out of a final state, or hand it
\* to another attempt while it is in flight.
Lasting ==
  \A t \in Tasks :
    /\ state[t] \in {"done", "cancelled"} =>
         state'[t] = state[t] /\ runner'[t] = runner[t]
         /\ retries'[t] = retries[t]
    /\ state[t] \in InFlight /\ state'[t] \in InFlight =>
         runner'[t] = runner[t]

LEMMA LifeLasts == [Life!LifeNext]_(Life!lifeVars) => [Lasting]_vars
<1>1. ASSUME Life!LifeNext, NEW t \in Tasks
      PROVE  /\ state[t] \in {"done", "cancelled"} =>
                  state'[t] = state[t] /\ runner'[t] = runner[t]
                  /\ retries'[t] = retries[t]
             /\ state[t] \in InFlight /\ state'[t] \in InFlight =>
                  runner'[t] = runner[t]
  <2>1. Life!RowStep(t) \/ Life!RowSame(t)
    BY <1>1 DEF Life!LifeNext
  <2> QED
    BY <2>1 DEF Life!RowStep, Life!RowSame, Life!Keeps, Life!Create, Life!Claim,
                Life!Start, Life!MarkStuck, Life!WaitChildren, Life!Done,
                Life!Fail, Life!Cancel, Life!Requeue, Life!AutoRetry,
                Life!Moves, Life!MayMove, Life!AllowedTransitions, InFlight
<1>2. Life!LifeNext => Lasting
  BY <1>1 DEF Lasting
<1>3. UNCHANGED Life!lifeVars => Lasting
  BY DEF Life!lifeVars, Lasting
<1> QED
  BY <1>2, <1>3

\* A done or cancelled row is never written again by the queue, and a row in
\* flight keeps the runner id of its claim until it is resolved
\* (_check_transition, claim_task).
THEOREM RowsLast == Spec => [][Lasting]_vars
BY LifeLasts, ImplementsLifecycle, PTL DEF LifeSpec, Life!LifeSpec

------------------------------------------------------------------------------
\* Ownership

LEMMA OwnedStep ==
  ASSUME TypeOK, JobInv, LockInv, SnapInv, OwnedRows, [Next]_vars
  PROVE  OwnedRows'
<1> USE QueueAssumption
    DEF rowVars, placeVars, Live, SetState, Returns, AutoRetry,
        LoseExecutions, Requeued, MarkEnd, Fresh, OpenTx, Owns, CanLock,
        Executing, InFlight, Cancellable, Orphans, TypeOK, JobInv, LockInv,
        SnapInv, OwnedRows
<1>1. ASSUME NEW t \in Tasks, Create(t) PROVE OwnedRows'
  BY <1>1 DEF Create
<1>2. ASSUME NEW t \in Tasks, UserCancel(t) PROVE OwnedRows'
  BY <1>2 DEF UserCancel
<1>3. ASSUME NEW t \in Tasks, ManualRetry(t) PROVE OwnedRows'
  BY <1>3 DEF ManualRetry
<1>4. ASSUME NEW r \in Runners, StartTask(r) PROVE OwnedRows'
  BY <1>4 DEF StartTask
<1>5. ASSUME NEW r \in Runners, ExecWait(r) PROVE OwnedRows'
  BY <1>5 DEF ExecWait
<1>6. ASSUME NEW r \in Runners, ExecDone(r) PROVE OwnedRows'
  BY <1>6 DEF ExecDone
<1>7. ASSUME NEW r \in Runners, HandleRetry(r) PROVE OwnedRows'
  BY <1>7 DEF HandleRetry
<1>8. ASSUME NEW r \in Runners, HandleFail(r) PROVE OwnedRows'
  BY <1>8 DEF HandleFail
<1>9. ASSUME NEW w \in Workers, MarkCommit(w) PROVE OwnedRows'
  BY <1>9 DEF MarkCommit
<1>10. ASSUME NEW w \in Workers, CleanupOrphans(w) PROVE OwnedRows'
  BY <1>10 DEF CleanupOrphans
<1>11. ASSUME NEW w \in Workers, NEW r \in Runners, FinalizeCompleted(w, r) PROVE OwnedRows'
  BY <1>11 DEF FinalizeCompleted
<1>12. ASSUME NEW w \in Workers, NEW t \in Tasks, CheckWaitingParent(w, t) PROVE OwnedRows'
  BY <1>12 DEF CheckWaitingParent
<1>13. ASSUME NEW w \in Workers, NEW t \in Tasks, AutoRetryFailed(w, t) PROVE OwnedRows'
  BY <1>13 DEF AutoRetryFailed
<1>14. ASSUME NEW w \in Workers, NEW t \in Tasks, RecoverDeadWorkerTask(w, t) PROVE OwnedRows'
  BY <1>14 DEF RecoverDeadWorkerTask
<1>15. ASSUME NEW w \in Workers, NEW t \in Tasks, NEW r \in Runners, Assign(w, t, r) PROVE OwnedRows'
  BY <1>15 DEF Assign
<1>16. ASSUME UNCHANGED rowVars PROVE OwnedRows'
  BY <1>16
<1>17. QED
  BY RowWriters, <1>1, <1>2, <1>3, <1>4, <1>5, <1>6, <1>7, <1>8, <1>9,
     <1>10, <1>11, <1>12, <1>13, <1>14, <1>15, <1>16

\* The worker and runner columns tell who owns a row, in every environment.
THEOREM RowsAreOwned == Spec => []OwnedRows
<1>1. Init => OwnedRows
  BY QueueAssumption DEF Init, OwnedRows, InFlight
<1>2. QueueInv /\ OwnedRows /\ [Next]_vars => OwnedRows'
  BY OwnedStep DEF QueueInv
<1>3. QED
  BY <1>1, <1>2, QueueInvariant, PTL DEF Spec

------------------------------------------------------------------------------
\* The zombie-thread guard

\* What DoneByOwner says of one step.
DoneStep ==
  \A t \in Tasks : state[t] \in Executing /\ state'[t] = "done" =>
    /\ pc[runner[t]] = "executing" /\ job[runner[t]] = t
    /\ ~Live(runner[t])'

LEMMA DoneOnlyByOwner ==
  ASSUME TypeOK, JobInv, LockInv, SnapInv, [Next]_vars
  PROVE  DoneStep
<1> USE QueueAssumption
    DEF rowVars, Live, SetState, EndThread, Returns, AutoRetry,
        LoseExecutions, MarkEnd, OpenTx, Owns, CanLock, Executing, InFlight,
        Cancellable, TypeOK, JobInv, LockInv, SnapInv, DoneStep
<1>1. ASSUME NEW t \in Tasks, Create(t) PROVE DoneStep
  BY <1>1 DEF Create
<1>2. ASSUME NEW t \in Tasks, UserCancel(t) PROVE DoneStep
  BY <1>2 DEF UserCancel
<1>3. ASSUME NEW t \in Tasks, ManualRetry(t) PROVE DoneStep
  BY <1>3 DEF ManualRetry
<1>4. ASSUME NEW r \in Runners, StartTask(r) PROVE DoneStep
  BY <1>4 DEF StartTask
<1>5. ASSUME NEW r \in Runners, ExecWait(r) PROVE DoneStep
  BY <1>5 DEF ExecWait
<1>6. ASSUME NEW r \in Runners, ExecDone(r) PROVE DoneStep
  BY <1>6 DEF ExecDone
<1>7. ASSUME NEW r \in Runners, HandleRetry(r) PROVE DoneStep
  BY <1>7 DEF HandleRetry
<1>8. ASSUME NEW r \in Runners, HandleFail(r) PROVE DoneStep
  BY <1>8 DEF HandleFail
<1>9. ASSUME NEW w \in Workers, MarkCommit(w) PROVE DoneStep
  BY <1>9 DEF MarkCommit
<1>10. ASSUME NEW w \in Workers, CleanupOrphans(w) PROVE DoneStep
  BY <1>10 DEF CleanupOrphans
<1>11. ASSUME NEW w \in Workers, NEW r \in Runners, FinalizeCompleted(w, r) PROVE DoneStep
  BY <1>11 DEF FinalizeCompleted
<1>12. ASSUME NEW w \in Workers, NEW t \in Tasks, CheckWaitingParent(w, t) PROVE DoneStep
  BY <1>12 DEF CheckWaitingParent
<1>13. ASSUME NEW w \in Workers, NEW t \in Tasks, AutoRetryFailed(w, t) PROVE DoneStep
  BY <1>13 DEF AutoRetryFailed
<1>14. ASSUME NEW w \in Workers, NEW t \in Tasks, RecoverDeadWorkerTask(w, t) PROVE DoneStep
  BY <1>14 DEF RecoverDeadWorkerTask
<1>15. ASSUME NEW w \in Workers, NEW t \in Tasks, NEW r \in Runners, Assign(w, t, r) PROVE DoneStep
  BY <1>15 DEF Assign
<1>16. ASSUME UNCHANGED rowVars PROVE DoneStep
  BY <1>16
<1>17. QED
  BY RowWriters, <1>1, <1>2, <1>3, <1>4, <1>5, <1>6, <1>7, <1>8, <1>9,
     <1>10, <1>11, <1>12, <1>13, <1>14, <1>15, <1>16

\* In every environment only the thread whose runner id the row carries
\* completes a row in execution, and it ends doing so.
THEOREM OnlyOwnersComplete == Spec => DoneByOwner
<1>1. QueueInv /\ [Next]_vars => [DoneStep]_vars
  BY DoneOnlyByOwner DEF QueueInv
<1>2. QED
  BY <1>1, QueueInvariant, PTL DEF Spec, DoneByOwner, DoneStep
==============================================================================
