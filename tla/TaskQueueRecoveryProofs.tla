----------------------- MODULE TaskQueueRecoveryProofs -----------------------
(***************************************************************************)
(* What the recovery paths rest on.  The comments of on_shutdown argue that *)
(* taking a row away from a worker is safe because its threads are dead by  *)
(* then.  That is so of a process that died; the threads of one that is     *)
(* leaving may outlive its heartbeat, and what is proved is that they can   *)
(* do their row no more harm.  Workers that starve and workers replaced     *)
(* inside their process are outside: nothing of this holds of them.         *)
(***************************************************************************)
EXTENDS TaskQueueRowProofs, FiniteSetTheorems

\* A worker is silent only when its process is dead or leaving.
NoZombies == "starve" \notin Env /\ "respawn" \notin Env

Vouched(w) == beating[w] /\ wstate[w] \in {"active", "stuck"}

\* Thread r has its row, which nobody but a user has taken out of flight.
Keeps(r) ==
  /\ worker[job[r]] = home[r] /\ runner[job[r]] = r
  /\ state[job[r]] \in InFlight \cup {"cancelled"}

\* Thread r, of a worker that is leaving, has lost its row for good: what it
\* has read of it is stale, or that it is another's.
Lost(r) ==
  /\ Leaving(r) /\ runner[job[r]] # r
  /\ pc[r] \in {"executing", "caught", "handling"}
  /\ pc[r] = "executing" => stale[r]
  /\ pc[r] = "handling" => stale[r] \/ ~snap[r].mine

\* A worker that is not down is known alive, unless its shutdown is overdue; a
\* live thread has a loop above it and its row, unless it has lost it.
AliveInv == \A w \in Workers : sup[w] # "down" => Vouched(w) \/ Overdue(w)

ExclInv ==
  \A r \in Runners : Live(r) =>
    sup[home[r]] \in {"up", "leaving"} /\ (Keeps(r) \/ Lost(r))

\* Steps that touch none of that and start no thread.
Quiet ==
  /\ UNCHANGED <<rowVars, workerVars, sup, placeVars>>
  /\ \A r \in Runners :
       /\ Live(r)' => Live(r) /\ (Lost(r) => Lost(r)')
       /\ pc'[r] \in {"spawned", "started"} => pc[r] \in {"spawned", "started"}

LEMMA QuietPreserves == AliveInv /\ ExclInv /\ Quiet => AliveInv' /\ ExclInv'
  BY DEF AliveInv, ExclInv, Quiet, Live, Keeps, Vouched, Overdue, rowVars,
         workerVars, placeVars

\* The steps of users, of threads and of supervisors that are quiet.
LEMMA QuietSteps ==
  ASSUME TypeOK
  PROVE  /\ \A t \in Tasks : UserLock(t) \/ UserEdit(t) \/ UserAbort(t) => Quiet
         /\ \A r \in Runners :
              \/ StartRefused(r) \/ ExecBegin(r) \/ ExecDropped(r)
              \/ ExecConflict(r) \/ HandleBegin(r) \/ HandleDropped(r)
              \/ Progress(r) \/ \E kind \in Raises : ExecRaise(r, kind)
              => Quiet
         /\ \A w \in Workers :
              \/ MarkFails(w)
              \/ \E r \in Runners : MarkBegin(w, r) \/ MarkSkipped(w, r)
              => Quiet
         /\ UNCHANGED vars => Quiet
<1> USE DEF Quiet, Lost, Leaving, Live, Touch, TypeOK, rowVars, placeVars,
            txVars, trackVars
<1>1. ASSUME NEW t \in Tasks, UserLock(t) \/ UserEdit(t) \/ UserAbort(t)
      PROVE  Quiet
  BY <1>1 DEF UserLock, UserEdit, UserAbort
<1>2. ASSUME NEW r \in Runners,
             StartRefused(r) \/ ExecDropped(r) \/ HandleDropped(r)
      PROVE  Quiet
  BY <1>2 DEF StartRefused, ExecDropped, HandleDropped, EndThread
<1>3. ASSUME NEW r \in Runners,
             ExecBegin(r) \/ HandleBegin(r) \/ Progress(r)
      PROVE  Quiet
  <2>1. CASE ExecBegin(r)
    BY <2>1 DEF ExecBegin, Snapshot
  <2>2. CASE HandleBegin(r)
    BY <2>2 DEF HandleBegin, Snapshot
  <2>3. CASE Progress(r)
    BY <2>3 DEF Progress
  <2>4. QED
    BY <1>3, <2>1, <2>2, <2>3
<1>4. ASSUME NEW r \in Runners,
             ExecConflict(r) \/ \E kind \in Raises : ExecRaise(r, kind)
      PROVE  Quiet
  BY <1>4 DEF ExecConflict, ExecRaise, Catch, Returns
<1>5. ASSUME NEW w \in Workers,
             \/ MarkFails(w)
             \/ \E r \in Runners : MarkBegin(w, r) \/ MarkSkipped(w, r)
      PROVE  Quiet
  BY <1>5 DEF MarkFails, MarkEnd, MarkBegin, MarkSkipped
<1>6. UNCHANGED vars => Quiet
  BY DEF vars
<1>7. QED
  BY <1>1, <1>2, <1>3, <1>4, <1>5, <1>6

------------------------------------------------------------------------------
\* Mutual exclusion of executions

LEMMA ExclStep ==
  ASSUME NoZombies, TypeOK, JobInv, LockInv, AliveInv, ExclInv, [Next]_vars
  PROVE  AliveInv' /\ ExclInv'
<1> DEFINE Goal == AliveInv' /\ ExclInv'
<1> USE QueueAssumption
    DEF rowVars, workerVars, trackVars, placeVars, txVars, Live, SetState,
        Touch, Returns, Team, MarkEnd, Fresh, Idle, InFlight, Executing,
        OpenTx, Vouched, Overdue, Keeps, Lost, Leaving,
        TypeOK, JobInv, AliveInv, ExclInv, NoZombies
<1>1. ASSUME NEW t \in Tasks, Create(t) PROVE Goal
  BY <1>1 DEF Create
<1>2. ASSUME NEW t \in Tasks, UserCancel(t) PROVE Goal
  BY <1>2 DEF UserCancel
<1>3. ASSUME NEW t \in Tasks, ManualRetry(t) PROVE Goal
  BY <1>3 DEF ManualRetry
<1>4. ASSUME NEW r \in Runners, StartTask(r) PROVE Goal
  BY <1>4 DEF StartTask
<1>5. ASSUME NEW r \in Runners,
             ExecWait(r) \/ ExecDone(r) \/ HandleRetry(r) \/ HandleFail(r)
      PROVE  Goal
  \* It is no lost thread that writes a final state.
  <2>1. /\ Live(r) /\ Keeps(r) /\ EndThread(r, {job[r]})
        /\ \A t \in Tasks \ {job[r]} : /\ state'[t] = state[t]
                                       /\ worker'[t] = worker[t]
                                       /\ runner'[t] = runner[t]
        /\ runner'[job[r]] \in {r, NoRunner}
        /\ UNCHANGED <<workerVars, sup, placeVars>>
    BY <1>5 DEF ExecWait, ExecDone, HandleRetry, HandleFail, AutoRetry, Owns,
                CanLock
  <2>2. \A q \in Runners \ {r} : Live(q) /\ job[q] = job[r] => Lost(q)
    BY <2>1
  <2>3. \A q \in Runners \ {r} : /\ pc'[q] = pc[q] /\ snap'[q] = snap[q]
                                 /\ stale[q] => stale'[q]
    BY <2>1 DEF EndThread
  <2>4. pc'[r] = "gone"
    BY <2>1 DEF EndThread
  <2>5. AliveInv'
    BY <2>1, <2>3, <2>4
  <2>6. ExclInv'
    BY <2>1, <2>2, <2>3, <2>4
  <2>7. QED
    BY <2>5, <2>6
<1>6. ASSUME NEW w \in Workers, Heartbeat(w) PROVE Goal
  BY <1>6 DEF Heartbeat
<1>7. ASSUME NEW w \in Workers, HeartbeatExpires(w) PROVE Goal
  BY <1>7 DEF HeartbeatExpires
<1>8. ASSUME NEW w \in Workers, NEW r \in Runners, FinalizeCompleted(w, r)
       PROVE  Goal
  <2> DEFINE S == IF timedOut[r] /\ state[job[r]] = "stuck"
                     /\ runner[job[r]] = r /\ ~Locked(job[r])
                  THEN {job[r]} ELSE {}
  <2>1. /\ LoseExecutions(S, {}) /\ \A t \in S : runner[t] = r
        /\ ~Live(r) /\ Touch(S)
        /\ job' = [job EXCEPT ![r] = NoTask]
        /\ home' = [home EXCEPT ![r] = NoWorker]
        /\ UNCHANGED <<workerVars, sup, pc, snap>>
    BY <1>8 DEF FinalizeCompleted
  <2> HIDE DEF S
  <2>2. \A q \in Runners : Live(q) => q # r /\ (Keeps(q) => job[q] \notin S)
    BY <2>1
  <2>3. AliveInv'
    BY <2>1
  <2>4. ExclInv'
    BY <2>1, <2>2 DEF LoseExecutions
  <2>5. QED
    BY <2>3, <2>4
<1>9. ASSUME NEW w \in Workers, MarkCommit(w) PROVE Goal
  BY <1>9 DEF MarkCommit, LockInv
<1>10. ASSUME NEW w \in Workers, CheckStaleWorkers(w) PROVE Goal
  BY <1>10 DEF CheckStaleWorkers, StaleWorker
<1>11. ASSUME NEW w \in Workers, NEW t \in Tasks, CheckWaitingParent(w, t)
       PROVE  Goal
  BY <1>11 DEF CheckWaitingParent
<1>12. ASSUME NEW w \in Workers, NEW t \in Tasks, AutoRetryFailed(w, t)
       PROVE  Goal
  BY <1>12 DEF AutoRetryFailed, AutoRetry
<1>13. ASSUME NEW w \in Workers, NEW t \in Tasks, RecoverDeadWorkerTask(w, t)
       PROVE  Goal
  \* The row's worker is dead, so a thread that has the row belongs to an
  \* overdue shutdown and is past its start: now it has lost the row.
  <2>1. /\ LoseExecutions({t}, {}) /\ Touch({t})
        /\ UNCHANGED <<workerVars, sup, placeVars, pc, snap>>
    BY <1>13 DEF RecoverDeadWorkerTask
  <2>2. ASSUME NEW q \in Runners, Live(q), job[q] = t, Keeps(q)
        PROVE  Overdue(home[q])
    <3>1. ~Vouched(home[q]) /\ home[q] \in Workers /\ sup[home[q]] # "down"
      BY <1>13, <2>2 DEF RecoverDeadWorkerTask
    <3>2. QED
      BY <3>1
  <2>3. \A q \in Runners : Live(q) /\ job[q] = t => Lost(q)'
    <3> SUFFICES ASSUME NEW q \in Runners, Live(q), job[q] = t PROVE Lost(q)'
      OBVIOUS
    <3>1. runner'[t] = NoRunner
      BY <2>1 DEF LoseExecutions
    <3>2. CASE Keeps(q)
      <4>1. sup[home[q]] = "leaving" /\ pc[q] \in {"executing", "caught", "handling"}
        BY <2>2, <3>2
      <4>2. pc[q] \in OpenTx => stale'[q]
        BY <2>1
      <4>3. QED
        BY <2>1, <3>1, <4>1, <4>2
    <3>3. CASE Lost(q)
      <4>1. stale[q] => stale'[q]
        BY <2>1
      <4>2. QED
        BY <2>1, <3>1, <3>3, <4>1
    <3>4. QED
      BY <3>2, <3>3
  <2>4. \A q \in Runners : Live(q) /\ job[q] # t =>
          (Keeps(q) => Keeps(q)') /\ (Lost(q) => Lost(q)')
    BY <2>1 DEF LoseExecutions
  <2>5. AliveInv'
    BY <2>1
  <2>6. ExclInv'
    <3> HIDE DEF Keeps, Lost
    <3> QED
      BY <2>1, <2>3, <2>4
  <2>7. QED
    BY <2>5, <2>6
<1>14. ASSUME NEW w \in Workers, NEW t \in Tasks, NEW r \in Runners,
              Claim(w, t, r) \/ SpawnFails(w, t, r) \/ SpawnSkipped(w, t, r)
       PROVE  Goal
  <2>1. \A q \in Runners : Live(q) /\ job[q] = t => Lost(q) /\ q # r
    BY <1>14 DEF Claim, SpawnFails, SpawnSkipped, Assign
  <2>2. CASE Claim(w, t, r)
    BY <2>1, <2>2 DEF Claim, Assign, Enlist
  <2>3. CASE SpawnFails(w, t, r)
    BY <2>1, <2>3 DEF SpawnFails, Assign, Enlist
  <2>4. CASE SpawnSkipped(w, t, r)
    BY <2>1, <2>4 DEF SpawnSkipped, Assign
  <2>5. QED
    BY <1>14, <2>2, <2>3, <2>4
<1>15. ASSUME NEW w \in Workers, Start(w) PROVE Goal
  BY <1>15 DEF Start
<1>16. ASSUME NEW w \in Workers, CleanupOrphans(w) PROVE Goal
  <2>1. PICK S \in SUBSET Orphans(w), U \in SUBSET Orphans(w) :
          /\ LoseExecutions(S, U) /\ Touch(S \cup U)
          /\ sup[w] = "init" /\ sup' = [sup EXCEPT ![w] = "up"]
          /\ UNCHANGED <<workerVars, placeVars, pc, snap>>
    BY <1>16 DEF CleanupOrphans
  <2>2. \A q \in Runners : Live(q) =>
          home[q] # w /\ (Keeps(q) => job[q] \notin S \cup U)
    BY <2>1 DEF Orphans
  <2>3. AliveInv'
    BY <2>1
  <2>4. ExclInv'
    BY <2>1, <2>2 DEF LoseExecutions
  <2>5. QED
    BY <2>3, <2>4
<1>17. ASSUME NEW w \in Workers, CleanupFails(w) PROVE Goal
  BY <1>17 DEF CleanupFails
<1>18. ASSUME NEW w \in Workers, Leave(w) PROVE Goal
  BY <1>18 DEF Leave
<1>19. ASSUME NEW w \in Workers, ProcessDies(w) PROVE Goal
  BY <1>19 DEF ProcessDies
<1>20. ASSUME NEW w \in Workers, ProcessStep(w) PROVE Goal
  <2> HIDE DEF Goal
  <2>1. ~WorkerEnds(w)
    BY DEF WorkerEnds
  <2> QED
    BY <1>15, <1>16, <1>17, <1>18, <1>19, <1>20, <2>1, ProcessSteps
<1>21. Quiet => Goal
  BY QuietPreserves
<1>22. QED
  <2> HIDE DEF AliveInv, ExclInv
  <2> QED
    BY <1>1, <1>2, <1>3, <1>4, <1>5, <1>6, <1>7, <1>8, <1>9, <1>10, <1>11,
       <1>12, <1>13, <1>14, <1>20, <1>21, QuietSteps
       DEF Next, UserStep, ThreadStep, ThreadRuns, SupervisorStep

\* Where workers neither starve nor are replaced inside their process, two
\* threads execute one task only while the one that has lost it is in a process
\* on its way out, whatever crashes, times out, is cancelled, edited or lost.
THEOREM ExecutionsAreExclusive == NoZombies => (Spec => []ExclusiveExecution)
<1> SUFFICES ASSUME NoZombies PROVE Spec => []ExclusiveExecution
  OBVIOUS
<1>1. Init => AliveInv /\ ExclInv
  BY DEF Init, AliveInv, ExclInv, Live
<1>2. QueueInv /\ AliveInv /\ ExclInv /\ [Next]_vars => AliveInv' /\ ExclInv'
  BY ExclStep DEF QueueInv
<1>3. ExclInv => ExclusiveExecution
  BY DEF ExclInv, ExclusiveExecution, Keeps, Lost
<1>4. QED
  BY <1>1, <1>2, <1>3, QueueInvariant, PTL DEF Spec

\* What StartedByOwner says of one step.
StartStep ==
  \A t \in Tasks : state[t] = "assigned" /\ state'[t] = "running" =>
    pc[runner[t]] = "spawned" /\ pc'[runner[t]] = "started"

LEMMA StartsOwnRow ==
  ASSUME TypeOK, JobInv, LockInv, ExclInv, [Next]_vars
  PROVE  StartStep
<1> SUFFICES ASSUME NEW t \in Tasks, state[t] = "assigned", state'[t] = "running"
             PROVE  pc[runner[t]] = "spawned" /\ pc'[runner[t]] = "started"
  BY DEF StartStep
<1> USE DEF SetState, TypeOK, rowVars
<1>1. CASE \E r \in Runners : StartTask(r)
  <2>1. PICK r \in Runners : StartTask(r)
    BY <1>1
  <2>2. job[r] = t /\ runner[t] = r
    BY <2>1 DEF StartTask, ExclInv, Live, Keeps, Lost
  <2>3. QED
    BY <2>1, <2>2 DEF StartTask
<1>2. CASE \E u \in Tasks : Create(u) \/ UserCancel(u) \/ ManualRetry(u)
  BY <1>2 DEF Create, UserCancel, ManualRetry
<1>3. CASE \E r \in Runners : ExecWait(r) \/ ExecDone(r)
                              \/ HandleRetry(r) \/ HandleFail(r)
  BY <1>3 DEF ExecWait, ExecDone, HandleRetry, HandleFail, AutoRetry
<1>4. CASE \E w \in Workers, u \in Tasks :
             \/ MarkCommit(w) \/ CheckWaitingParent(w, u) \/ AutoRetryFailed(w, u)
             \/ \E r \in Runners : Assign(w, u, r)
  BY <1>4 DEF MarkCommit, CheckWaitingParent, AutoRetryFailed, AutoRetry, Assign
<1>5. CASE \E w \in Workers :
             \/ CleanupOrphans(w)
             \/ \E r \in Runners : FinalizeCompleted(w, r)
             \/ \E u \in Tasks : RecoverDeadWorkerTask(w, u)
  <2>1. \E S, U : LoseExecutions(S, U)
    BY <1>5 DEF CleanupOrphans, FinalizeCompleted, RecoverDeadWorkerTask
  <2>2. QED
    BY <2>1 DEF LoseExecutions
<1>6. CASE UNCHANGED rowVars
  BY <1>6
<1>7. QED
  BY RowWriters, <1>1, <1>2, <1>3, <1>4, <1>5, <1>6

\* In the same environments a claimed row is started by the thread of its own
\* claim, though action_start asks for no runner id: a thread that has lost its
\* row is past its start.
THEOREM ClaimsAreStartedByOwner == NoZombies => (Spec => StartedByOwner)
<1> SUFFICES ASSUME NoZombies PROVE Spec => StartedByOwner
  OBVIOUS
<1>1. Init => AliveInv /\ ExclInv
  BY DEF Init, AliveInv, ExclInv, Live
<1>2. QueueInv /\ AliveInv /\ ExclInv /\ [Next]_vars => AliveInv' /\ ExclInv'
  BY ExclStep DEF QueueInv
<1>3. QueueInv /\ ExclInv /\ [Next]_vars => [StartStep]_vars
  BY StartsOwnRow DEF QueueInv
<1>4. QED
  BY <1>1, <1>2, <1>3, QueueInvariant, PTL DEF Spec, StartedByOwner, StartStep

------------------------------------------------------------------------------
\* The parallelism of a worker

\* A live thread is in _active_tasks, and there are at most Slots entries.
TrackedInv == \A r \in Runners : Live(r) => tracked[r]

TeamInv == \A w \in Workers : IsFiniteSet(Team(w)) /\ Cardinality(Team(w)) <= Slots

\* No step but a claim adds a thread to a team.
LEMMA TeamStep ==
  ASSUME TypeOK, LockInv, "respawn" \notin Env, TrackedInv, [Next]_vars
  PROVE  /\ TrackedInv'
         /\ \/ \A w \in Workers : Team(w)' \subseteq Team(w)
            \/ \E w \in Workers, t \in Tasks, r \in Runners :
                 Assign(w, t, r) /\ Enlist(w, t, r)
<1> DEFINE Goal == TrackedInv' /\ \A w \in Workers : Team(w)' \subseteq Team(w)
<1> USE DEF Team, TrackedInv, Live, trackVars, placeVars, txVars, TypeOK
<1>1. ASSUME NEW t \in Tasks, UserStep(t) PROVE Goal
  BY <1>1 DEF UserStep, Create, UserLock, UserEdit, UserCancel, UserAbort,
              ManualRetry
<1>2. ASSUME NEW r \in Runners, ThreadStep(r) PROVE Goal
  <2>1. UNCHANGED <<trackVars, placeVars>>
    BY <1>2 DEF ThreadStep, ThreadRuns, StartTask, StartRefused, ExecBegin,
                ExecWait, ExecDone, ExecDropped, ExecConflict, ExecRaise,
                HandleBegin, HandleRetry, HandleFail, HandleDropped, Progress,
                Catch
  <2>2. \A q \in Runners : Live(q)' => Live(q)
    <3> USE DEF EndThread, Catch, Returns
    <3>1. CASE StartTask(r) \/ StartRefused(r) \/ ExecBegin(r) \/ Progress(r)
      BY <3>1 DEF StartTask, StartRefused, ExecBegin, Progress
    <3>2. CASE ExecWait(r) \/ ExecDone(r) \/ ExecDropped(r)
      BY <3>2 DEF ExecWait, ExecDone, ExecDropped
    <3>3. CASE ExecConflict(r) \/ \E kind \in Raises : ExecRaise(r, kind)
      BY <3>3 DEF ExecConflict, ExecRaise
    <3>4. CASE HandleBegin(r) \/ HandleRetry(r) \/ HandleFail(r) \/ HandleDropped(r)
      BY <3>4 DEF HandleBegin, HandleRetry, HandleFail, HandleDropped
    <3>5. QED
      BY <1>2, <3>1, <3>2, <3>3, <3>4 DEF ThreadStep, ThreadRuns
  <2>3. QED
    BY <2>1, <2>2
<1>3. ASSUME NEW w \in Workers, NEW r \in Runners, FinalizeCompleted(w, r)
      PROVE  Goal
  BY <1>3 DEF FinalizeCompleted
<1>4. ASSUME NEW w \in Workers,
             \/ Heartbeat(w) \/ HeartbeatExpires(w) \/ MarkCommit(w)
             \/ MarkFails(w) \/ CheckStaleWorkers(w)
             \/ \E r \in Runners : MarkBegin(w, r) \/ MarkSkipped(w, r)
             \/ \E t \in Tasks : \/ CheckWaitingParent(w, t)
                                \/ AutoRetryFailed(w, t)
                                \/ RecoverDeadWorkerTask(w, t)
      PROVE  Goal
  <2>1. UNCHANGED <<tracked, placeVars, pc>>
    BY <1>4 DEF Heartbeat, HeartbeatExpires, MarkCommit, MarkFails, MarkEnd,
                CheckStaleWorkers, MarkBegin, MarkSkipped, CheckWaitingParent,
                AutoRetryFailed, RecoverDeadWorkerTask
  <2>2. QED
    BY <2>1
<1>5. ASSUME NEW w \in Workers, Start(w) \/ CleanupOrphans(w) \/ CleanupFails(w)
      PROVE  Goal
  BY <1>5 DEF Start, CleanupOrphans, CleanupFails
<1>6. ASSUME NEW w \in Workers, ProcessDies(w) PROVE Goal
  BY <1>6, LockInv, QueueAssumption DEF ProcessDies, LockInv
<1>7. ASSUME NEW w \in Workers, Leave(w) \/ WorkerEnds(w) PROVE Goal
  BY <1>7 DEF Leave, WorkerEnds
<1>8. ASSUME NEW w \in Workers, NEW t \in Tasks, NEW r \in Runners,
             Claim(w, t, r) \/ SpawnFails(w, t, r)
      PROVE  TrackedInv' /\ Assign(w, t, r) /\ Enlist(w, t, r)
  <2>1. CASE Claim(w, t, r)
    BY <2>1 DEF Claim, Enlist
  <2>2. CASE SpawnFails(w, t, r)
    BY <2>2 DEF SpawnFails, Enlist
  <2>3. QED
    BY <1>8, <2>1, <2>2
<1>9. ASSUME NEW w \in Workers, NEW t \in Tasks, NEW r \in Runners,
             SpawnSkipped(w, t, r)
      PROVE  Goal
  BY <1>9 DEF SpawnSkipped, Assign
<1>10. CASE UNCHANGED vars
  BY <1>10 DEF vars
<1>11. ASSUME NEW w \in Workers, ProcessStep(w) PROVE Goal
  <2> HIDE DEF Goal
  <2> QED
    BY <1>5, <1>6, <1>7, <1>11, ProcessSteps
<1>12. QED
  BY <1>1, <1>2, <1>3, <1>4, <1>8, <1>9, <1>10, <1>11
     DEF Next, SupervisorStep

LEMMA TeamBound ==
  ASSUME TypeOK, LockInv, "respawn" \notin Env, TrackedInv, TeamInv, [Next]_vars
  PROVE  TeamInv'
<1>1. CASE \A w \in Workers : Team(w)' \subseteq Team(w)
  <2> SUFFICES ASSUME NEW w \in Workers
               PROVE  IsFiniteSet(Team(w)') /\ Cardinality(Team(w)') <= Slots
    BY DEF TeamInv
  <2>1. Team(w)' \subseteq Team(w) /\ IsFiniteSet(Team(w))
        /\ Cardinality(Team(w)) <= Slots
    BY <1>1 DEF TeamInv
  <2>2. /\ IsFiniteSet(Team(w)')
        /\ Cardinality(Team(w)') <= Cardinality(Team(w))
    BY <2>1, FS_Subset
  <2>3. Cardinality(Team(w)') \in Nat /\ Cardinality(Team(w)) \in Nat
    BY <2>1, <2>2, FS_CardinalityType
  <2>4. QED
    BY <2>1, <2>2, <2>3, QueueAssumption
<1>2. ASSUME NEW v \in Workers, NEW t \in Tasks, NEW r \in Runners,
             Assign(v, t, r), Enlist(v, t, r)
      PROVE  TeamInv'
  <2> SUFFICES ASSUME NEW w \in Workers
               PROVE  IsFiniteSet(Team(w)') /\ Cardinality(Team(w)') <= Slots
    BY DEF TeamInv
  <2>1. /\ IsFiniteSet(Team(w)) /\ Cardinality(Team(w)) <= Slots
        /\ Cardinality(Team(w)) \in Nat
    BY FS_CardinalityType DEF TeamInv
  <2>2. CASE w = v
    <3>1. Team(w)' = Team(w) \cup {r} /\ r \notin Team(w)
      BY <1>2, <2>2 DEF Assign, Enlist, Fresh, Team, TypeOK
    <3>2. /\ IsFiniteSet(Team(w)')
          /\ Cardinality(Team(w)') = Cardinality(Team(w)) + 1
      BY <2>1, <3>1, FS_AddElement
    <3>3. Cardinality(Team(w)) < Slots
      BY <1>2, <2>2 DEF Assign, HasSlot
    <3>4. QED
      BY <2>1, <3>2, <3>3, QueueAssumption
  <2>3. CASE w # v
    <3>1. Team(w)' = Team(w)
      BY <1>2, <2>3 DEF Assign, Enlist, Fresh, Team, TypeOK
    <3>2. QED
      BY <2>1, <3>1
  <2>4. QED
    BY <2>2, <2>3
<1>3. QED
  BY <1>1, <1>2, TeamStep

\* A worker whose loop is never replaced inside its process never runs more
\* than max_parallel_jobs threads, whatever times out, dies or is lost.
THEOREM SlotsAreBounded == "respawn" \notin Env => (Spec => []SlotsBound)
<1> SUFFICES ASSUME "respawn" \notin Env PROVE Spec => []SlotsBound
  OBVIOUS
<1>1. Init => TrackedInv /\ TeamInv
  <2> SUFFICES ASSUME Init PROVE TrackedInv /\ TeamInv
    OBVIOUS
  <2>1. TrackedInv /\ \A w \in Workers : Team(w) = {}
    BY DEF Init, TrackedInv, Team, Live
  <2>2. QED
    BY <2>1, FS_EmptySet, QueueAssumption DEF TeamInv
<1>2. QueueInv /\ TrackedInv /\ TeamInv /\ [Next]_vars => TrackedInv' /\ TeamInv'
  BY TeamStep, TeamBound DEF QueueInv
<1>3. TrackedInv /\ TeamInv => SlotsBound
  <2> SUFFICES ASSUME TrackedInv, TeamInv, NEW w \in Workers
               PROVE  Cardinality({r \in Runners : Live(r) /\ home[r] = w}) <= Slots
    BY DEF SlotsBound
  <2> DEFINE L == {r \in Runners : Live(r) /\ home[r] = w}
  <2>1. L \subseteq Team(w)
    BY DEF TrackedInv, Team
  <2>2. IsFiniteSet(Team(w)) /\ Cardinality(Team(w)) <= Slots
    BY DEF TeamInv
  <2>3. IsFiniteSet(L) /\ Cardinality(L) <= Cardinality(Team(w))
    BY <2>1, <2>2, FS_Subset
  <2>4. Cardinality(L) \in Nat /\ Cardinality(Team(w)) \in Nat
    BY <2>2, <2>3, FS_CardinalityType
  <2>5. QED
    BY <2>2, <2>3, <2>4, QueueAssumption
<1>4. QED
  BY <1>1, <1>2, <1>3, QueueInvariant, PTL DEF Spec
==============================================================================
