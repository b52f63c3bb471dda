------------------------ MODULE TaskQueueOrphanProofs ------------------------
(***************************************************************************)
(* No row in flight is left in limbo, in the environments where that is so: *)
(* workers neither starve nor are respawned, users do not edit rows, no     *)
(* progress is written, no transaction is lost, every thread starts, and    *)
(* parents are not cancelled.  What is left are crashes, orderly stops,     *)
(* hard reloads, timeouts, exceptions and cancels.                          *)
(***************************************************************************)
EXTENDS TaskQueueRecoveryProofs

Calm ==
  /\ Env \cap {"starve", "respawn", "edit", "progress", "nothread", "txfail"} = {}
  /\ Parents = {} \/ "cancel" \notin Env

\* Thread r is the one its row was claimed for.
Has(r) == runner[job[r]] = r

\* Where a row can be while its thread is at each step; only a user takes it
\* elsewhere.
StageInv ==
  \A r \in Runners : Live(r) /\ Has(r) =>
    IF pc[r] = "spawned" THEN state[job[r]] \in {"assigned", "cancelled"}
    ELSE state[job[r]] \in Executing \cup {"cancelled"}

\* The runner id of a row leads to its entry in _active_tasks and back, and a
\* row that is being marked stuck carries the id that the mark is for.
EntryInv ==
  /\ \A t \in Tasks, r \in Runners : tracked[r] /\ runner[t] = r =>
       job[r] = t /\ (state[t] \in InFlight => worker[t] = home[r])
  /\ \A w \in Workers : marking[w] # NoRunner =>
       runner[job[marking[w]]] = marking[w]

\* No waiting row is locked, so the startup cleanup never fails.
ParentInv ==
  /\ \A t \in Tasks : state[t] = "waiting" => t \in Parents
  /\ \A t \in Tasks : userTx[t] => "cancel" \in Env

\* A transaction that is open, of a thread that has its row, has read its own
\* attempt; the failure handler's conflicts come from a cancel or a stuck mark.
OwnInv ==
  \A r \in Runners : pc[r] \in OpenTx /\ Has(r) =>
    /\ snap[r].mine
    /\ snap[r].state \notin Executing => state[job[r]] = "cancelled"
    /\ pc[r] = "handling" /\ stale[r] =>
         state[job[r]] = "cancelled" \/ (state[job[r]] = "stuck" /\ timedOut[r])

\* All that the steps rest on.
Base ==
  /\ TypeOK /\ JobInv /\ LockInv /\ SnapInv
  /\ AliveInv /\ ExclInv /\ TrackedInv /\ OwnedRows
  /\ StageInv /\ EntryInv /\ ParentInv

------------------------------------------------------------------------------
\* A thread that starts its row has it.
LEMMA StartersHaveRows ==
  ASSUME Base, NEW r \in Runners, StartTask(r)
  PROVE  job[r] \in Tasks /\ Has(r)
BY DEF Base, JobInv, ExclInv, Keeps, Lost, Has, Live, StartTask

\* A thread that has its row takes it out of flight and ends.
Finishes(r) ==
  /\ Live(r) /\ job[r] \in Tasks /\ Has(r) /\ ~Locked(job[r])
  /\ pc' = [pc EXCEPT ![r] = "gone"]
  /\ state'[job[r]] \notin InFlight
  /\ state'[job[r]] = "waiting" => job[r] \in Parents
  /\ runner'[job[r]] \in {r, NoRunner}
  /\ \A t \in Tasks \ {job[r]} : /\ state'[t] = state[t]
                                  /\ worker'[t] = worker[t]
                                  /\ runner'[t] = runner[t]
  /\ \A q \in Runners \ {r} :
       /\ snap'[q] = snap[q]
       /\ stale'[q] = (stale[q] \/ (pc[q] \in OpenTx /\ job[q] = job[r]))
  /\ UNCHANGED <<workerVars, sup, userTx, marking, trackVars, placeVars>>

LEMMA FinalWrites ==
  ASSUME Base, NEW r \in Runners,
         ExecWait(r) \/ ExecDone(r) \/ HandleRetry(r) \/ HandleFail(r)
  PROVE  Finishes(r)
<1>1. Live(r) /\ EndThread(r, {job[r]})
  BY DEF Live, ExecWait, ExecDone, HandleRetry, HandleFail, Returns
<1>2. job[r] \in Tasks /\ (Keeps(r) \/ Lost(r))
  BY <1>1 DEF Base, JobInv, ExclInv
<1>3. ~Lost(r) /\ ~Locked(job[r])
  BY DEF Lost, ExecWait, ExecDone, HandleRetry, HandleFail, Returns, Owns,
         CanLock
<1>4. Has(r)
  BY <1>2, <1>3 DEF Keeps, Has
<1>5. \A q \in Runners \ {r} :
        /\ snap'[q] = snap[q]
        /\ stale'[q] = (stale[q] \/ (pc[q] \in OpenTx /\ job[q] = job[r]))
  BY <1>1 DEF EndThread, Base, TypeOK
<1>6. /\ state'[job[r]] \in {"waiting", "done", "pending", "failed"}
      /\ state'[job[r]] = "waiting" => job[r] \in Parents
      /\ runner'[job[r]] \in {runner[job[r]], NoRunner}
      /\ \A t \in Tasks \ {job[r]} : /\ state'[t] = state[t]
                                      /\ worker'[t] = worker[t]
                                      /\ runner'[t] = runner[t]
      /\ UNCHANGED <<workerVars, sup, userTx, marking, trackVars, placeVars>>
  BY <1>2 DEF ExecWait, ExecDone, HandleRetry, HandleFail, AutoRetry, SetState,
              Base, TypeOK
<1>7. QED
  BY <1>1, <1>2, <1>3, <1>4, <1>5, <1>6 DEF EndThread, Has, InFlight, Finishes

\* A process that dies takes only its own threads and marks along.
LEMMA DeathKeeps ==
  ASSUME Base, NEW w \in Workers, ProcessDies(w)
  PROVE  StageInv' /\ EntryInv' /\ ParentInv'
<1> USE DEF Base, ProcessDies, rowVars, workerVars, TypeOK, Live, Has
<1>1. \A r \in Runners : pc'[r] # "gone" => pc[r] # "gone" /\ job'[r] = job[r]
  BY DEF ProcessDies
<1>2. StageInv'
  BY <1>1 DEF StageInv
<1>3. \A r \in Runners : tracked'[r] =>
        tracked[r] /\ job'[r] = job[r] /\ home'[r] = home[r]
  BY DEF ProcessDies
<1>4. \A v \in Workers : marking'[v] # NoRunner =>
        /\ marking'[v] = marking[v] /\ marking[v] \in Runners
        /\ job'[marking[v]] = job[marking[v]]
  BY DEF LockInv
<1>5. EntryInv'
  <2>1. ASSUME NEW t \in Tasks, NEW r \in Runners, tracked'[r], runner'[t] = r
        PROVE  job'[r] = t /\ (state'[t] \in InFlight => worker'[t] = home'[r])
    BY <1>3, <2>1 DEF EntryInv
  <2>2. ASSUME NEW v \in Workers, marking'[v] # NoRunner
        PROVE  runner'[job'[marking'[v]]] = marking'[v]
    BY <1>4, <2>2 DEF EntryInv
  <2>3. QED
    BY <2>1, <2>2 DEF EntryInv, InFlight
<1>6. ParentInv'
  BY DEF ParentInv
<1>7. QED
  BY <1>2, <1>5, <1>6

\* Where a thread is tells where its row is, every entry and every mark has its
\* row, and only parents wait.
LEMMA StageStep ==
  ASSUME Calm, Base, [Next]_vars
  PROVE  StageInv' /\ EntryInv' /\ ParentInv'
<1> DEFINE Goal == StageInv' /\ EntryInv' /\ ParentInv'
<1>1. ASSUME NEW r \in Runners,
             ExecWait(r) \/ ExecDone(r) \/ HandleRetry(r) \/ HandleFail(r)
      PROVE  Goal
  <2>1. Finishes(r)
    BY <1>1, FinalWrites
  <2>2. StageInv'
    BY <2>1, QueueAssumption
       DEF Finishes, Has, Live, StageInv, Base, TypeOK, JobInv, placeVars
  <2>3. EntryInv'
    BY <2>1, QueueAssumption
       DEF Finishes, Has, Live, Locked, Marks, EntryInv, Base, TypeOK, JobInv,
           LockInv, placeVars, trackVars
  <2>4. ParentInv'
    BY <2>1 DEF Finishes, ParentInv, Base
  <2>5. QED
    BY <2>2, <2>3, <2>4
<1> USE QueueAssumption
    DEF rowVars, workerVars, trackVars, placeVars, txVars, Live, SetState,
        EndThread, Returns, Catch, AutoRetry, LoseExecutions, Team, MarkEnd,
        Fresh, Idle, InFlight, Executing, Cancellable, Orphans,
        Locked, Marks, Requeued, Charged,
        TypeOK, JobInv, LockInv, AliveInv, ExclInv, TrackedInv, OwnedRows,
        StageInv, EntryInv, ParentInv, Base, Calm, Has
<1>2. ASSUME NEW t \in Tasks, Create(t) PROVE Goal
  BY <1>2 DEF Create
<1>3. ASSUME NEW t \in Tasks, UserLock(t) PROVE Goal
  BY <1>3 DEF UserLock
<1>4. ASSUME NEW t \in Tasks, UserEdit(t) PROVE Goal
  BY <1>4 DEF UserEdit
<1>5. ASSUME NEW t \in Tasks, UserCancel(t) PROVE Goal
  BY <1>5 DEF UserCancel
<1>6. ASSUME NEW t \in Tasks, UserAbort(t) PROVE Goal
  BY <1>6 DEF UserAbort
<1>7. ASSUME NEW t \in Tasks, ManualRetry(t) PROVE Goal
  BY <1>7 DEF ManualRetry
<1>8. ASSUME NEW r \in Runners, StartTask(r) PROVE Goal
  <2>1. job[r] \in Tasks /\ Has(r)
    <3> HIDE DEF Base, Has
    <3> QED
      BY <1>8, StartersHaveRows
  <2>2. /\ state' = [state EXCEPT ![job[r]] = "running"]
        /\ pc' = [pc EXCEPT ![r] = "started"]
        /\ state[job[r]] = "assigned" /\ ~Locked(job[r])
        /\ UNCHANGED <<worker, runner, userTx, marking, tracked, job, home>>
    BY <1>8 DEF StartTask
  <2>3. StageInv'
    BY <2>1, <2>2
  <2>4. EntryInv' /\ ParentInv'
    BY <2>2
  <2>5. QED
    BY <2>3, <2>4
<1>9. ASSUME NEW r \in Runners, StartRefused(r) PROVE Goal
  BY <1>9 DEF StartRefused
<1>10. ASSUME NEW r \in Runners, ExecBegin(r) PROVE Goal
  BY <1>10 DEF ExecBegin
<1>11. ASSUME NEW r \in Runners,
              ExecWait(r) \/ ExecDone(r) \/ HandleRetry(r) \/ HandleFail(r)
       PROVE  Goal
  BY <1>1, <1>11
<1>12. ASSUME NEW r \in Runners, ExecDropped(r) PROVE Goal
  BY <1>12 DEF ExecDropped
<1>13. ASSUME NEW r \in Runners, ExecConflict(r) PROVE Goal
  BY <1>13 DEF ExecConflict
<1>14. ASSUME NEW r \in Runners, HandleBegin(r) PROVE Goal
  BY <1>14 DEF HandleBegin
<1>15. ASSUME NEW r \in Runners, HandleDropped(r) PROVE Goal
  BY <1>15 DEF HandleDropped
<1>16. ASSUME NEW r \in Runners, Progress(r) PROVE Goal
  BY <1>16 DEF Progress
<1>17. ASSUME NEW r \in Runners, NEW kind \in Raises, ExecRaise(r, kind)
       PROVE Goal
  BY <1>17 DEF ExecRaise
<1>18. ASSUME NEW w \in Workers, Heartbeat(w) PROVE Goal
  BY <1>18 DEF Heartbeat
<1>19. ASSUME NEW w \in Workers, HeartbeatExpires(w) PROVE Goal
  BY <1>19 DEF HeartbeatExpires
<1>20. ASSUME NEW w \in Workers, MarkCommit(w) PROVE Goal
  BY <1>20 DEF MarkCommit
<1>21. ASSUME NEW w \in Workers, MarkFails(w) PROVE Goal
  BY <1>21 DEF MarkFails
<1>22. ASSUME NEW w \in Workers, CheckStaleWorkers(w) PROVE Goal
  BY <1>22 DEF CheckStaleWorkers
<1>23. ASSUME NEW w \in Workers, Start(w) PROVE Goal
  BY <1>23 DEF Start
<1>24. ASSUME NEW w \in Workers, CleanupOrphans(w) PROVE Goal
  BY <1>24 DEF CleanupOrphans
<1>25. ASSUME NEW w \in Workers, CleanupFails(w) PROVE Goal
  BY <1>25 DEF CleanupFails
<1>26. ASSUME NEW w \in Workers, Leave(w) PROVE Goal
  BY <1>26 DEF Leave
<1>27. ASSUME NEW w \in Workers, ProcessDies(w) PROVE Goal
  <2> HIDE DEF Base, StageInv, EntryInv, ParentInv
  <2>1. QED
    BY <1>27, DeathKeeps
<1>28. ASSUME NEW w \in Workers, ProcessStep(w) PROVE Goal
  <2> HIDE DEF Goal
  <2>1. ~WorkerEnds(w)
    BY DEF WorkerEnds, Calm
  <2>2. QED
    BY <1>23, <1>24, <1>25, <1>26, <1>27, <1>28, <2>1, ProcessSteps
<1>29. ASSUME NEW w \in Workers, NEW r \in Runners, FinalizeCompleted(w, r)
       PROVE Goal
  BY <1>29 DEF FinalizeCompleted
<1>30. ASSUME NEW w \in Workers, NEW r \in Runners, MarkBegin(w, r) PROVE Goal
  <2>1. Live(r) /\ sup[home[r]] = "up"
    BY <1>30 DEF MarkBegin
  <2>2. Has(r)
    BY <2>1 DEF Keeps, Lost, Leaving
  <2>3. QED
    BY <1>30, <2>2 DEF MarkBegin
<1>31. ASSUME NEW w \in Workers, NEW r \in Runners, MarkSkipped(w, r) PROVE Goal
  BY <1>31 DEF MarkSkipped
<1>32. ASSUME NEW w \in Workers, NEW t \in Tasks, CheckWaitingParent(w, t)
       PROVE Goal
  BY <1>32 DEF CheckWaitingParent
<1>33. ASSUME NEW w \in Workers, NEW t \in Tasks, AutoRetryFailed(w, t)
       PROVE Goal
  BY <1>33 DEF AutoRetryFailed
<1>34. ASSUME NEW w \in Workers, NEW t \in Tasks, RecoverDeadWorkerTask(w, t)
       PROVE Goal
  <2>1. \A r \in Runners : Live(r) /\ job[r] = t => ~Has(r)'
    BY <1>34 DEF RecoverDeadWorkerTask
  <2>2. ~Locked(t)
    BY <1>34 DEF RecoverDeadWorkerTask
  <2>3. /\ \A u \in Tasks \ {t} : /\ state'[u] = state[u] /\ worker'[u] = worker[u]
                                   /\ runner'[u] = runner[u]
        /\ state'[t] \in {"pending", "failed"} /\ runner'[t] = NoRunner
        /\ UNCHANGED <<userTx, marking, tracked, timedOut, pc, job, home>>
    BY <1>34 DEF RecoverDeadWorkerTask
  <2>4. StageInv'
    BY <2>1, <2>3
  <2>5. EntryInv'
    <3>1. ASSUME NEW u \in Tasks, NEW r \in Runners, tracked'[r], runner'[u] = r
          PROVE  job'[r] = u /\ (state'[u] \in InFlight => worker'[u] = home'[r])
      BY <2>3, <3>1
    <3>2. ASSUME NEW v \in Workers, marking'[v] # NoRunner
          PROVE  runner'[job'[marking'[v]]] = marking'[v]
      BY <2>2, <2>3, <3>2
    <3>3. QED
      BY <3>1, <3>2
  <2>6. ParentInv'
    BY <2>3
  <2>7. QED
    BY <2>4, <2>5, <2>6
<1>35. ASSUME NEW w \in Workers, NEW t \in Tasks, NEW r \in Runners, Claim(w, t, r)
       PROVE Goal
  BY <1>35 DEF Claim, Assign, Enlist
<1>36. ASSUME UNCHANGED vars PROVE Goal
  BY <1>36 DEF vars
<1>37. QED
  <2> HIDE DEF Goal, Base, StageInv, EntryInv, ParentInv
  <2>1. \A w \in Workers, t \in Tasks, r \in Runners :
          ~SpawnFails(w, t, r) /\ ~SpawnSkipped(w, t, r)
    BY DEF SpawnFails, SpawnSkipped, Calm
  <2>2. Goal
    BY <2>1, <1>2, <1>3, <1>4, <1>5, <1>6, <1>7, <1>8, <1>9, <1>10, <1>11,
       <1>12, <1>13, <1>14, <1>15, <1>16, <1>17, <1>18,
       <1>19, <1>20, <1>21, <1>22, <1>28, <1>29, <1>30, <1>31, <1>32, <1>33,
       <1>34, <1>35, <1>36
       DEF Next, UserStep, ThreadStep, ThreadRuns, SupervisorStep
  <2>3. QED
    BY <2>2 DEF Goal

------------------------------------------------------------------------------
\* A transaction of a live thread has read its own attempt.
LEMMA OwnStep ==
  ASSUME Calm, Base, OwnInv, [Next]_vars
  PROVE  OwnInv'
<1>1. ASSUME NEW r \in Runners,
             ExecWait(r) \/ ExecDone(r) \/ HandleRetry(r) \/ HandleFail(r)
      PROVE  OwnInv'
  <2>1. Finishes(r)
    BY <1>1, FinalWrites
  <2>2. QED
    BY <2>1, QueueAssumption
       DEF Finishes, Has, Live, OwnInv, OpenTx, Base, TypeOK, JobInv, placeVars,
           trackVars
<1> USE QueueAssumption
    DEF rowVars, workerVars, trackVars, placeVars, txVars, Live, SetState,
        Touch, Snapshot, EndThread, Returns, Catch, AutoRetry, LoseExecutions,
        Team, MarkEnd, Fresh, Idle, OpenTx, InFlight, Executing,
        Cancellable, Orphans, Locked, Marks,
        TypeOK, JobInv, LockInv, AliveInv, ExclInv, TrackedInv,
        StageInv, EntryInv, OwnInv, Base, Calm, Has
<1>2. ASSUME NEW t \in Tasks, Create(t) PROVE OwnInv'
  BY <1>2 DEF Create
<1>3. ASSUME NEW t \in Tasks, UserLock(t) PROVE OwnInv'
  BY <1>3 DEF UserLock
<1>4. ASSUME NEW t \in Tasks, UserEdit(t) PROVE OwnInv'
  BY <1>4 DEF UserEdit
<1>5. ASSUME NEW t \in Tasks, UserCancel(t) PROVE OwnInv'
  BY <1>5 DEF UserCancel
<1>6. ASSUME NEW t \in Tasks, UserAbort(t) PROVE OwnInv'
  BY <1>6 DEF UserAbort
<1>7. ASSUME NEW t \in Tasks, ManualRetry(t) PROVE OwnInv'
  BY <1>7 DEF ManualRetry
<1>8. ASSUME NEW r \in Runners, StartTask(r) PROVE OwnInv'
  BY <1>8, StartersHaveRows DEF StartTask
<1>9. ASSUME NEW r \in Runners, StartRefused(r) PROVE OwnInv'
  BY <1>9 DEF StartRefused
<1>10. ASSUME NEW r \in Runners, ExecBegin(r) PROVE OwnInv'
  BY <1>10 DEF ExecBegin
<1>11. ASSUME NEW r \in Runners,
              ExecWait(r) \/ ExecDone(r) \/ HandleRetry(r) \/ HandleFail(r)
       PROVE  OwnInv'
  BY <1>1, <1>11
<1>12. ASSUME NEW r \in Runners, ExecDropped(r) PROVE OwnInv'
  BY <1>12 DEF ExecDropped
<1>13. ASSUME NEW r \in Runners, ExecConflict(r) PROVE OwnInv'
  BY <1>13 DEF ExecConflict
<1>14. ASSUME NEW r \in Runners, HandleBegin(r) PROVE OwnInv'
  BY <1>14 DEF HandleBegin
<1>15. ASSUME NEW r \in Runners, HandleDropped(r) PROVE OwnInv'
  BY <1>15 DEF HandleDropped
<1>16. ASSUME NEW r \in Runners, Progress(r) PROVE OwnInv'
  BY <1>16 DEF Progress
<1>17. ASSUME NEW r \in Runners, NEW kind \in Raises, ExecRaise(r, kind)
       PROVE OwnInv'
  BY <1>17 DEF ExecRaise
<1>18. ASSUME NEW w \in Workers, Heartbeat(w) PROVE OwnInv'
  BY <1>18 DEF Heartbeat
<1>19. ASSUME NEW w \in Workers, HeartbeatExpires(w) PROVE OwnInv'
  BY <1>19 DEF HeartbeatExpires
<1>20. ASSUME NEW w \in Workers, MarkCommit(w) PROVE OwnInv'
  BY <1>20 DEF MarkCommit
<1>21. ASSUME NEW w \in Workers, MarkFails(w) PROVE OwnInv'
  BY <1>21 DEF MarkFails
<1>22. ASSUME NEW w \in Workers, CheckStaleWorkers(w) PROVE OwnInv'
  BY <1>22 DEF CheckStaleWorkers
<1>23. ASSUME NEW w \in Workers, Start(w) PROVE OwnInv'
  BY <1>23 DEF Start
<1>24. ASSUME NEW w \in Workers, CleanupOrphans(w) PROVE OwnInv'
  BY <1>24 DEF CleanupOrphans
<1>25. ASSUME NEW w \in Workers, CleanupFails(w) PROVE OwnInv'
  BY <1>25 DEF CleanupFails
<1>26. ASSUME NEW w \in Workers, Leave(w) PROVE OwnInv'
  BY <1>26 DEF Leave
<1>27. ASSUME NEW w \in Workers, ProcessDies(w) PROVE OwnInv'
  BY <1>27 DEF ProcessDies
<1>28. ASSUME NEW w \in Workers, ProcessStep(w) PROVE OwnInv'
  <2> HIDE DEF OwnInv
  <2>1. ~WorkerEnds(w)
    BY DEF WorkerEnds, Calm
  <2>2. QED
    BY <1>23, <1>24, <1>25, <1>26, <1>27, <1>28, <2>1, ProcessSteps
<1>29. ASSUME NEW w \in Workers, NEW r \in Runners, FinalizeCompleted(w, r)
       PROVE OwnInv'
  BY <1>29 DEF FinalizeCompleted
<1>30. ASSUME NEW w \in Workers, NEW r \in Runners, MarkBegin(w, r)
       PROVE OwnInv'
  BY <1>30 DEF MarkBegin
<1>31. ASSUME NEW w \in Workers, NEW r \in Runners, MarkSkipped(w, r)
       PROVE OwnInv'
  BY <1>31 DEF MarkSkipped
<1>32. ASSUME NEW w \in Workers, NEW t \in Tasks, CheckWaitingParent(w, t)
       PROVE OwnInv'
  BY <1>32 DEF CheckWaitingParent
<1>33. ASSUME NEW w \in Workers, NEW t \in Tasks, AutoRetryFailed(w, t)
       PROVE OwnInv'
  BY <1>33 DEF AutoRetryFailed
<1>34. ASSUME NEW w \in Workers, NEW t \in Tasks, RecoverDeadWorkerTask(w, t)
       PROVE OwnInv'
  <2>1. \A r \in Runners : Live(r) /\ job[r] = t => ~Has(r)'
    BY <1>34 DEF RecoverDeadWorkerTask
  <2>2. /\ \A u \in Tasks \ {t} : state'[u] = state[u]
        /\ \A r \in Runners :
             stale'[r] = (stale[r] \/ (pc[r] \in OpenTx /\ job[r] = t))
        /\ \A u \in Tasks \ {t} : runner'[u] = runner[u]
        /\ UNCHANGED <<timedOut, pc, job, snap>>
    BY <1>34 DEF RecoverDeadWorkerTask
  <2>3. QED
    BY <2>1, <2>2
<1>35. ASSUME NEW w \in Workers, NEW t \in Tasks, NEW r \in Runners, Claim(w, t, r)
       PROVE OwnInv'
  BY <1>35 DEF Claim, Assign, Enlist
<1>36. CASE UNCHANGED vars
  BY <1>36 DEF vars
<1>37. QED
  <2> HIDE DEF OwnInv
  <2>1. \A w \in Workers, t \in Tasks, r \in Runners :
          ~SpawnFails(w, t, r) /\ ~SpawnSkipped(w, t, r)
    BY DEF SpawnFails, SpawnSkipped, Calm
  <2>2. QED
    BY <2>1, <1>2, <1>3, <1>4, <1>5, <1>6, <1>7, <1>8, <1>9, <1>10, <1>11,
       <1>12, <1>13, <1>14, <1>15, <1>16, <1>17, <1>18,
       <1>19, <1>20, <1>21, <1>22, <1>28, <1>29, <1>30, <1>31, <1>32, <1>33,
       <1>34, <1>35, <1>36
       DEF Next, UserStep, ThreadStep, ThreadRuns, SupervisorStep

------------------------------------------------------------------------------
\* No step takes a row in flight away from all who could resolve it.
LEMMA CoveredStep ==
  ASSUME Calm, Base, OwnInv, NoOrphan, [Next]_vars
  PROVE  NoOrphan'
<1>1. ASSUME NEW r \in Runners,
             ExecWait(r) \/ ExecDone(r) \/ HandleRetry(r) \/ HandleFail(r)
      PROVE  NoOrphan'
  <2>1. Finishes(r)
    BY <1>1, FinalWrites
  <2>2. \A t \in Tasks \ {job[r]} : runner[t] \in Runners => runner[t] # r
    BY <2>1 DEF Finishes, Has, Live, Base, TrackedInv, EntryInv
  <2>3. QED
    BY <2>1, <2>2
       DEF Finishes, NoOrphan, Covered, Live, Base, TypeOK, OwnedRows, InFlight,
           workerVars, trackVars, placeVars
<1> USE QueueAssumption
    DEF rowVars, workerVars, trackVars, placeVars, txVars, Live, SetState,
        EndThread, Returns, Catch, AutoRetry, LoseExecutions,
        Team, MarkEnd, Fresh, Idle, OpenTx, InFlight, Executing,
        Cancellable, Orphans, Locked, Marks, Owns, CanLock,
        TypeOK, JobInv, LockInv, AliveInv, ExclInv, TrackedInv, OwnedRows,
        StageInv, EntryInv, ParentInv, OwnInv, Base, Calm, Has, Covered,
        NoOrphan
<1>2. ASSUME NEW t \in Tasks, Create(t) PROVE NoOrphan'
  BY <1>2 DEF Create
<1>3. ASSUME NEW t \in Tasks, UserLock(t) PROVE NoOrphan'
  BY <1>3 DEF UserLock
<1>4. ASSUME NEW t \in Tasks, UserEdit(t) PROVE NoOrphan'
  BY <1>4 DEF UserEdit
<1>5. ASSUME NEW t \in Tasks, UserCancel(t) PROVE NoOrphan'
  BY <1>5 DEF UserCancel
<1>6. ASSUME NEW t \in Tasks, UserAbort(t) PROVE NoOrphan'
  BY <1>6 DEF UserAbort
<1>7. ASSUME NEW t \in Tasks, ManualRetry(t) PROVE NoOrphan'
  BY <1>7 DEF ManualRetry
<1>8. ASSUME NEW r \in Runners, StartTask(r) PROVE NoOrphan'
  BY <1>8, StartersHaveRows DEF StartTask
<1>9. ASSUME NEW r \in Runners, StartRefused(r) PROVE NoOrphan'
  BY <1>9 DEF StartRefused
<1>10. ASSUME NEW r \in Runners, ExecBegin(r) PROVE NoOrphan'
  BY <1>10 DEF ExecBegin
<1>11. ASSUME NEW r \in Runners,
              ExecWait(r) \/ ExecDone(r) \/ HandleRetry(r) \/ HandleFail(r)
       PROVE  NoOrphan'
  BY <1>1, <1>11
<1>12. ASSUME NEW r \in Runners, ExecDropped(r) PROVE NoOrphan'
  BY <1>12 DEF ExecDropped
<1>13. ASSUME NEW r \in Runners, ExecConflict(r) PROVE NoOrphan'
  BY <1>13 DEF ExecConflict
<1>14. ASSUME NEW r \in Runners, HandleBegin(r) PROVE NoOrphan'
  BY <1>14 DEF HandleBegin
<1>15. ASSUME NEW r \in Runners, HandleDropped(r) PROVE NoOrphan'
  BY <1>15 DEF HandleDropped
<1>16. ASSUME NEW r \in Runners, Progress(r) PROVE NoOrphan'
  BY <1>16 DEF Progress
<1>17. ASSUME NEW r \in Runners, NEW kind \in Raises, ExecRaise(r, kind)
       PROVE NoOrphan'
  BY <1>17 DEF ExecRaise
<1>18. ASSUME NEW w \in Workers, Heartbeat(w) PROVE NoOrphan'
  <2>1. wstate[w] # "dead"
    BY <1>18 DEF Heartbeat, Vouched, Overdue
  <2>2. /\ \A v \in Workers \ {w} : wstate'[v] = wstate[v]
        /\ UNCHANGED <<rowVars, userTx, sup, marking, trackVars, pc>>
    BY <1>18 DEF Heartbeat
  <2>3. \A t \in Tasks : state[t] \in InFlight => worker[t] \in Workers
    OBVIOUS
  <2>4. QED
    <3> HIDE DEF Base
    <3> QED
      BY <2>1, <2>2, <2>3
<1>19. ASSUME NEW w \in Workers, HeartbeatExpires(w) PROVE NoOrphan'
  BY <1>19 DEF HeartbeatExpires
<1>20. ASSUME NEW w \in Workers, MarkCommit(w) PROVE NoOrphan'
  BY <1>20 DEF MarkCommit
<1>21. ASSUME NEW w \in Workers, MarkFails(w) PROVE NoOrphan'
  BY <1>21 DEF MarkFails
<1>22. ASSUME NEW w \in Workers, CheckStaleWorkers(w) PROVE NoOrphan'
  BY <1>22 DEF CheckStaleWorkers
<1>23. ASSUME NEW w \in Workers, Start(w) PROVE NoOrphan'
  BY <1>23 DEF Start
<1>24. ASSUME NEW w \in Workers, CleanupOrphans(w) PROVE NoOrphan'
  BY <1>24 DEF CleanupOrphans
<1>25. ASSUME NEW w \in Workers, CleanupFails(w) PROVE NoOrphan'
  BY <1>25 DEF CleanupFails
<1>26. ASSUME NEW w \in Workers, Leave(w) PROVE NoOrphan'
  BY <1>26 DEF Leave
<1>27. ASSUME NEW w \in Workers, ProcessDies(w) PROVE NoOrphan'
  BY <1>27 DEF ProcessDies
<1>28. ASSUME NEW w \in Workers, ProcessStep(w) PROVE NoOrphan'
  <2> HIDE DEF NoOrphan
  <2>1. ~WorkerEnds(w)
    BY DEF WorkerEnds, Calm
  <2>2. QED
    BY <1>23, <1>24, <1>25, <1>26, <1>27, <1>28, <2>1, ProcessSteps
<1>29. ASSUME NEW w \in Workers, NEW r \in Runners, FinalizeCompleted(w, r)
       PROVE NoOrphan'
  BY <1>29 DEF FinalizeCompleted
<1>30. ASSUME NEW w \in Workers, NEW r \in Runners, MarkBegin(w, r)
       PROVE NoOrphan'
  BY <1>30 DEF MarkBegin
<1>31. ASSUME NEW w \in Workers, NEW r \in Runners, MarkSkipped(w, r)
       PROVE NoOrphan'
  BY <1>31 DEF MarkSkipped
<1>32. ASSUME NEW w \in Workers, NEW t \in Tasks, CheckWaitingParent(w, t)
       PROVE NoOrphan'
  BY <1>32 DEF CheckWaitingParent
<1>33. ASSUME NEW w \in Workers, NEW t \in Tasks, AutoRetryFailed(w, t)
       PROVE NoOrphan'
  BY <1>33 DEF AutoRetryFailed
<1>34. ASSUME NEW w \in Workers, NEW t \in Tasks, RecoverDeadWorkerTask(w, t)
       PROVE NoOrphan'
  BY <1>34 DEF RecoverDeadWorkerTask
<1>35. ASSUME NEW w \in Workers, NEW t \in Tasks, NEW r \in Runners, Claim(w, t, r)
       PROVE NoOrphan'
  BY <1>35 DEF Claim, Assign, Enlist
<1>36. CASE UNCHANGED vars
  BY <1>36 DEF vars
<1>37. QED
  <2> HIDE DEF NoOrphan
  <2>1. \A w \in Workers, t \in Tasks, r \in Runners :
          ~SpawnFails(w, t, r) /\ ~SpawnSkipped(w, t, r)
    BY DEF SpawnFails, SpawnSkipped, Calm
  <2>2. QED
    BY <2>1, <1>2, <1>3, <1>4, <1>5, <1>6, <1>7, <1>8, <1>9, <1>10, <1>11,
       <1>12, <1>13, <1>14, <1>15, <1>16, <1>17, <1>18,
       <1>19, <1>20, <1>21, <1>22, <1>28, <1>29, <1>30, <1>31, <1>32, <1>33,
       <1>34, <1>35, <1>36
       DEF Next, UserStep, ThreadStep, ThreadRuns, SupervisorStep

------------------------------------------------------------------------------
\* A row in flight always has somebody to resolve it (the drops of the
\* zombie guard, the safety net of _finalize_completed, the recovery paths).
THEOREM RowsAreCovered == Calm => (Spec => []NoOrphan)
<1> SUFFICES ASSUME Calm PROVE Spec => []NoOrphan
  OBVIOUS
<1> DEFINE Rest == /\ AliveInv /\ ExclInv /\ TrackedInv
                   /\ StageInv /\ EntryInv /\ ParentInv /\ OwnInv /\ NoOrphan
<1>1. NoZombies /\ "respawn" \notin Env
  BY DEF Calm, NoZombies
<1>2. Init => Rest
  BY QueueAssumption
     DEF Init, AliveInv, ExclInv, TrackedInv, StageInv, EntryInv, ParentInv,
         OwnInv, NoOrphan, InFlight, OpenTx, Live
<1>3. QueueInv /\ OwnedRows /\ Rest /\ [Next]_vars => Rest'
  <2> SUFFICES ASSUME QueueInv, OwnedRows, Rest, [Next]_vars PROVE Rest'
    OBVIOUS
  <2>1. Base
    BY DEF Base, QueueInv
  <2>2. AliveInv' /\ ExclInv'
    BY <1>1, ExclStep DEF QueueInv
  <2>3. TrackedInv'
    BY <1>1, TeamStep DEF QueueInv
  <2>4. StageInv' /\ EntryInv' /\ ParentInv'
    BY <2>1, StageStep
  <2>5. OwnInv'
    BY <2>1, OwnStep
  <2>6. NoOrphan'
    BY <2>1, CoveredStep
  <2>7. QED
    BY <2>2, <2>3, <2>4, <2>5, <2>6
<1>4. QED
  BY <1>2, <1>3, QueueInvariant, RowsAreOwned, PTL DEF Spec
==============================================================================
