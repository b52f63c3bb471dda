--------------------------- MODULE TaskQueueProofs ---------------------------
(***************************************************************************)
(* What holds of TaskQueue for every value of its constants.                *)
(*                                                                          *)
(* The invariant has four parts: the types (TypeOK), where a thread is      *)
(* (JobInv), who holds a row lock (LockInv) and what an open transaction    *)
(* knows (SnapInv).  It carries the refinement of TaskLifecycle and the     *)
(* ownership columns.  Where no worker starves and none is respawned in its *)
(* process, ExclInv carries the mutual exclusion of executions.             *)
(***************************************************************************)
EXTENDS TaskQueue, TLAPS

\* A live or tracked thread has a task that exists and a worker.
JobInv ==
  \A r \in Runners : Live(r) \/ tracked[r] =>
    job[r] \in Tasks /\ home[r] \in Workers /\ state[job[r]] # "absent"

\* A row lock is held by one transaction, of a loop that runs if it is a stuck
\* mark, and the row cannot change meanwhile: a row being marked is running, a
\* row a user writes can still be cancelled.
LockInv ==
  /\ \A w \in Workers : marking[w] # NoRunner =>
       /\ sup[w] = "up" /\ tracked[marking[w]] /\ home[marking[w]] = w
       /\ state[job[marking[w]]] = "running"
  /\ \A t \in Tasks : userTx[t] =>
       state[t] \in Cancellable /\ \A w \in Workers : ~Marks(w, t)
  /\ \A t \in Tasks, v, w \in Workers : Marks(v, t) /\ Marks(w, t) => v = w

\* A snapshot that is not stale says what the row says.
SnapInv ==
  \A r \in Runners : pc[r] \in OpenTx /\ ~stale[r] =>
    snap[r] = [state |-> state[job[r]], mine |-> runner[job[r]] = r]

QueueInv == TypeOK /\ JobInv /\ LockInv /\ SnapInv

\* A worker starts, leaves its loop and goes down in a few ways.
LEMMA ProcessSteps ==
  ASSUME NEW w \in Workers, ProcessStep(w)
  PROVE  /\ \/ Start(w) \/ CleanupOrphans(w) \/ CleanupFails(w)
            \/ Leave(w) \/ WorkerEnds(w) \/ ProcessDies(w)
         /\ crashes' \in {crashes, crashes + 1}
<1> USE DEF ProcessStep, HardReload, Shutdown, StopWorker, ProcessExits, Crash
<1>1. CASE Start(w) \/ CleanupOrphans(w) \/ CleanupFails(w) \/ WorkerEnds(w)
  BY <1>1 DEF Start, CleanupOrphans, CleanupFails, WorkerEnds
<1>2. CASE HardReload(w) \/ Shutdown(w) \/ StopWorker(w)
  BY <1>2
<1>3. CASE ProcessExits(w) \/ Crash(w)
  BY <1>3
<1>4. QED
  BY <1>1, <1>2, <1>3

------------------------------------------------------------------------------
\* Types

LEMMA TypeStep ==
  ASSUME TypeOK, JobInv, LockInv, [Next]_vars
  PROVE  TypeOK' /\ JobInv'
<1> USE QueueAssumption
    DEF rowVars, workerVars, trackVars, placeVars, txVars, States, NoSnap, Live,
        SetState, Touch, EndThread, Snapshot, Catch, AutoRetry, LoseExecutions,
        Team, MarkEnd, Fresh, Idle, Locked, Marks, TypeOK, JobInv,
        LockInv, InFlight, Cancellable, Orphans, Returns
<1>1. ASSUME NEW t \in Tasks, Create(t) PROVE TypeOK' /\ JobInv'
  BY <1>1 DEF Create
<1>2. ASSUME NEW t \in Tasks, UserLock(t) PROVE TypeOK' /\ JobInv'
  BY <1>2 DEF UserLock
<1>3. ASSUME NEW t \in Tasks, UserEdit(t) PROVE TypeOK' /\ JobInv'
  BY <1>3 DEF UserEdit
<1>4. ASSUME NEW t \in Tasks, UserCancel(t) PROVE TypeOK' /\ JobInv'
  BY <1>4 DEF UserCancel
<1>5. ASSUME NEW t \in Tasks, UserAbort(t) PROVE TypeOK' /\ JobInv'
  BY <1>5 DEF UserAbort
<1>6. ASSUME NEW t \in Tasks, ManualRetry(t) PROVE TypeOK' /\ JobInv'
  BY <1>6 DEF ManualRetry
<1>7. ASSUME NEW r \in Runners, StartTask(r) PROVE TypeOK' /\ JobInv'
  BY <1>7 DEF StartTask
<1>8. ASSUME NEW r \in Runners, StartRefused(r) PROVE TypeOK' /\ JobInv'
  BY <1>8 DEF StartRefused
<1>9. ASSUME NEW r \in Runners, ExecBegin(r) PROVE TypeOK' /\ JobInv'
  BY <1>9 DEF ExecBegin
<1>10. ASSUME NEW r \in Runners, ExecWait(r) PROVE TypeOK' /\ JobInv'
  BY <1>10 DEF ExecWait
<1>11. ASSUME NEW r \in Runners, ExecDone(r) PROVE TypeOK' /\ JobInv'
  BY <1>11 DEF ExecDone
<1>12. ASSUME NEW r \in Runners, ExecDropped(r) PROVE TypeOK' /\ JobInv'
  BY <1>12 DEF ExecDropped
<1>13. ASSUME NEW r \in Runners, ExecConflict(r) PROVE TypeOK' /\ JobInv'
  BY <1>13 DEF ExecConflict
<1>14. ASSUME NEW r \in Runners, HandleBegin(r) PROVE TypeOK' /\ JobInv'
  BY <1>14 DEF HandleBegin
<1>15. ASSUME NEW r \in Runners, HandleRetry(r) PROVE TypeOK' /\ JobInv'
  BY <1>15 DEF HandleRetry
<1>16. ASSUME NEW r \in Runners, HandleFail(r) PROVE TypeOK' /\ JobInv'
  BY <1>16 DEF HandleFail
<1>17. ASSUME NEW r \in Runners, HandleDropped(r) PROVE TypeOK' /\ JobInv'
  BY <1>17 DEF HandleDropped
<1>18. ASSUME NEW r \in Runners, Progress(r) PROVE TypeOK' /\ JobInv'
  BY <1>18 DEF Progress
<1>19. ASSUME NEW w \in Workers, Heartbeat(w) PROVE TypeOK' /\ JobInv'
  BY <1>19 DEF Heartbeat
<1>20. ASSUME NEW w \in Workers, HeartbeatExpires(w) PROVE TypeOK' /\ JobInv'
  BY <1>20 DEF HeartbeatExpires
<1>21. ASSUME NEW w \in Workers, MarkCommit(w) PROVE TypeOK' /\ JobInv'
  BY <1>21 DEF MarkCommit
<1>22. ASSUME NEW w \in Workers, MarkFails(w) PROVE TypeOK' /\ JobInv'
  BY <1>22 DEF MarkFails
<1>23. ASSUME NEW w \in Workers, CheckStaleWorkers(w) PROVE TypeOK' /\ JobInv'
  BY <1>23 DEF CheckStaleWorkers
<1>24. ASSUME NEW w \in Workers, Start(w) PROVE TypeOK' /\ JobInv'
  BY <1>24 DEF Start
<1>25. ASSUME NEW w \in Workers, CleanupOrphans(w) PROVE TypeOK' /\ JobInv'
  BY <1>25 DEF CleanupOrphans
<1>26. ASSUME NEW w \in Workers, CleanupFails(w) PROVE TypeOK' /\ JobInv'
  BY <1>26 DEF CleanupFails
<1>27. ASSUME NEW w \in Workers, Leave(w), crashes' \in Nat
       PROVE TypeOK' /\ JobInv'
  BY <1>27 DEF Leave
<1>28. ASSUME NEW w \in Workers, ProcessDies(w), crashes' \in Nat
       PROVE TypeOK' /\ JobInv'
  BY <1>28 DEF ProcessDies
<1>29. ASSUME NEW w \in Workers, WorkerEnds(w) PROVE TypeOK' /\ JobInv'
  BY <1>29 DEF WorkerEnds
<1>30. ASSUME NEW r \in Runners, NEW kind \in Raises, ExecRaise(r, kind) PROVE TypeOK' /\ JobInv'
  BY <1>30 DEF ExecRaise
<1>31. ASSUME NEW w \in Workers, NEW r \in Runners, FinalizeCompleted(w, r) PROVE TypeOK' /\ JobInv'
  BY <1>31 DEF FinalizeCompleted
<1>32. ASSUME NEW w \in Workers, NEW r \in Runners, MarkBegin(w, r) PROVE TypeOK' /\ JobInv'
  BY <1>32 DEF MarkBegin
<1>33. ASSUME NEW w \in Workers, NEW r \in Runners, MarkSkipped(w, r) PROVE TypeOK' /\ JobInv'
  BY <1>33 DEF MarkSkipped
<1>34. ASSUME NEW w \in Workers, NEW t \in Tasks, CheckWaitingParent(w, t) PROVE TypeOK' /\ JobInv'
  BY <1>34 DEF CheckWaitingParent
<1>35. ASSUME NEW w \in Workers, NEW t \in Tasks, AutoRetryFailed(w, t) PROVE TypeOK' /\ JobInv'
  BY <1>35 DEF AutoRetryFailed
<1>36. ASSUME NEW w \in Workers, NEW t \in Tasks, RecoverDeadWorkerTask(w, t) PROVE TypeOK' /\ JobInv'
  BY <1>36 DEF RecoverDeadWorkerTask
<1>37. ASSUME NEW w \in Workers, NEW t \in Tasks, NEW r \in Runners,
              Claim(w, t, r) \/ SpawnFails(w, t, r) \/ SpawnSkipped(w, t, r)
       PROVE TypeOK' /\ JobInv'
  <2>1. CASE Claim(w, t, r)
    BY <2>1 DEF Claim, Assign, Enlist
  <2>2. CASE SpawnFails(w, t, r)
    BY <2>2 DEF SpawnFails, Assign, Enlist
  <2>3. CASE SpawnSkipped(w, t, r)
    BY <2>3 DEF SpawnSkipped, Assign
  <2>4. QED
    BY <1>37, <2>1, <2>2, <2>3
<1>38. ASSUME NEW w \in Workers, ProcessStep(w) PROVE TypeOK' /\ JobInv'
  <2>1. crashes' \in Nat
    BY <1>38, ProcessSteps
  <2> HIDE DEF TypeOK, JobInv
  <2> QED
    BY <1>24, <1>25, <1>26, <1>27, <1>28, <1>29, <1>38, <2>1, ProcessSteps
<1>39. ASSUME UNCHANGED vars PROVE TypeOK' /\ JobInv'
  BY <1>39 DEF vars
<1>40. QED
  BY <1>1, <1>2, <1>3, <1>4, <1>5, <1>6, <1>7, <1>8, <1>9, <1>10, <1>11,
     <1>12, <1>13, <1>14, <1>15, <1>16, <1>17, <1>18, <1>19, <1>20, <1>21,
     <1>22, <1>23, <1>30, <1>31,
     <1>32, <1>33, <1>34, <1>35, <1>36, <1>37, <1>38, <1>39
     DEF Next, UserStep, ThreadStep, ThreadRuns, SupervisorStep

------------------------------------------------------------------------------
\* Locks

LEMMA LockStep ==
  ASSUME TypeOK, JobInv, SnapInv, LockInv, [Next]_vars
  PROVE  LockInv'
<1> USE QueueAssumption
    DEF rowVars, workerVars, trackVars, placeVars, txVars, States, NoSnap, Live,
        SetState, Touch, EndThread, Snapshot, Returns, Catch, AutoRetry,
        LoseExecutions, Team, MarkEnd, Fresh, Idle, OpenTx, Owns,
        CanLock, Locked, Marks, Executing, InFlight, Cancellable, Orphans,
        TypeOK, JobInv, LockInv, SnapInv
<1>1. ASSUME NEW t \in Tasks, Create(t) PROVE LockInv'
  BY <1>1 DEF Create
<1>2. ASSUME NEW t \in Tasks, UserLock(t) PROVE LockInv'
  BY <1>2 DEF UserLock
<1>3. ASSUME NEW t \in Tasks, UserEdit(t) PROVE LockInv'
  BY <1>3 DEF UserEdit
<1>4. ASSUME NEW t \in Tasks, UserCancel(t) PROVE LockInv'
  BY <1>4 DEF UserCancel
<1>5. ASSUME NEW t \in Tasks, UserAbort(t) PROVE LockInv'
  BY <1>5 DEF UserAbort
<1>6. ASSUME NEW t \in Tasks, ManualRetry(t) PROVE LockInv'
  BY <1>6 DEF ManualRetry
<1>7. ASSUME NEW r \in Runners, StartTask(r) PROVE LockInv'
  BY <1>7 DEF StartTask
<1>8. ASSUME NEW r \in Runners, StartRefused(r) PROVE LockInv'
  BY <1>8 DEF StartRefused
<1>9. ASSUME NEW r \in Runners, ExecBegin(r) PROVE LockInv'
  BY <1>9 DEF ExecBegin
<1>10. ASSUME NEW r \in Runners, ExecWait(r) PROVE LockInv'
  BY <1>10 DEF ExecWait
<1>11. ASSUME NEW r \in Runners, ExecDone(r) PROVE LockInv'
  BY <1>11 DEF ExecDone
<1>12. ASSUME NEW r \in Runners, ExecDropped(r) PROVE LockInv'
  BY <1>12 DEF ExecDropped
<1>13. ASSUME NEW r \in Runners, ExecConflict(r) PROVE LockInv'
  BY <1>13 DEF ExecConflict
<1>14. ASSUME NEW r \in Runners, HandleBegin(r) PROVE LockInv'
  BY <1>14 DEF HandleBegin
<1>15. ASSUME NEW r \in Runners, HandleRetry(r) PROVE LockInv'
  BY <1>15 DEF HandleRetry
<1>16. ASSUME NEW r \in Runners, HandleFail(r) PROVE LockInv'
  BY <1>16 DEF HandleFail
<1>17. ASSUME NEW r \in Runners, HandleDropped(r) PROVE LockInv'
  BY <1>17 DEF HandleDropped
<1>18. ASSUME NEW r \in Runners, Progress(r) PROVE LockInv'
  BY <1>18 DEF Progress
<1>19. ASSUME NEW w \in Workers, Heartbeat(w) PROVE LockInv'
  BY <1>19 DEF Heartbeat
<1>20. ASSUME NEW w \in Workers, HeartbeatExpires(w) PROVE LockInv'
  BY <1>20 DEF HeartbeatExpires
<1>21. ASSUME NEW w \in Workers, MarkCommit(w) PROVE LockInv'
  BY <1>21 DEF MarkCommit
<1>22. ASSUME NEW w \in Workers, MarkFails(w) PROVE LockInv'
  BY <1>22 DEF MarkFails
<1>23. ASSUME NEW w \in Workers, CheckStaleWorkers(w) PROVE LockInv'
  BY <1>23 DEF CheckStaleWorkers
<1>24. ASSUME NEW w \in Workers, Start(w) PROVE LockInv'
  BY <1>24 DEF Start
<1>25. ASSUME NEW w \in Workers, CleanupOrphans(w) PROVE LockInv'
  BY <1>25 DEF CleanupOrphans
<1>26. ASSUME NEW w \in Workers, CleanupFails(w) PROVE LockInv'
  BY <1>26 DEF CleanupFails
<1>27. ASSUME NEW w \in Workers, Leave(w) PROVE LockInv'
  BY <1>27 DEF Leave
<1>28. ASSUME NEW w \in Workers, ProcessDies(w) PROVE LockInv'
  BY <1>28 DEF ProcessDies
<1>29. ASSUME NEW w \in Workers, WorkerEnds(w) PROVE LockInv'
  BY <1>29 DEF WorkerEnds
<1>30. ASSUME NEW r \in Runners, NEW kind \in Raises, ExecRaise(r, kind) PROVE LockInv'
  BY <1>30 DEF ExecRaise
<1>31. ASSUME NEW w \in Workers, NEW r \in Runners, FinalizeCompleted(w, r) PROVE LockInv'
  BY <1>31 DEF FinalizeCompleted
<1>32. ASSUME NEW w \in Workers, NEW r \in Runners, MarkBegin(w, r) PROVE LockInv'
  BY <1>32 DEF MarkBegin
<1>33. ASSUME NEW w \in Workers, NEW r \in Runners, MarkSkipped(w, r) PROVE LockInv'
  BY <1>33 DEF MarkSkipped
<1>34. ASSUME NEW w \in Workers, NEW t \in Tasks, CheckWaitingParent(w, t) PROVE LockInv'
  BY <1>34 DEF CheckWaitingParent
<1>35. ASSUME NEW w \in Workers, NEW t \in Tasks, AutoRetryFailed(w, t) PROVE LockInv'
  BY <1>35 DEF AutoRetryFailed
<1>36. ASSUME NEW w \in Workers, NEW t \in Tasks, RecoverDeadWorkerTask(w, t) PROVE LockInv'
  BY <1>36 DEF RecoverDeadWorkerTask
<1>37. ASSUME NEW w \in Workers, NEW t \in Tasks, NEW r \in Runners,
              Claim(w, t, r) \/ SpawnFails(w, t, r) \/ SpawnSkipped(w, t, r)
       PROVE LockInv'
  <2>1. CASE Claim(w, t, r)
    BY <2>1 DEF Claim, Assign, Enlist
  <2>2. CASE SpawnFails(w, t, r)
    BY <2>2 DEF SpawnFails, Assign, Enlist
  <2>3. CASE SpawnSkipped(w, t, r)
    BY <2>3 DEF SpawnSkipped, Assign
  <2>4. QED
    BY <1>37, <2>1, <2>2, <2>3
<1>38. ASSUME NEW w \in Workers, ProcessStep(w) PROVE LockInv'
  <2> HIDE DEF LockInv
  <2> QED
    BY <1>24, <1>25, <1>26, <1>27, <1>28, <1>29, <1>38, ProcessSteps
<1>39. ASSUME UNCHANGED vars PROVE LockInv'
  BY <1>39 DEF vars
<1>40. QED
  BY <1>1, <1>2, <1>3, <1>4, <1>5, <1>6, <1>7, <1>8, <1>9, <1>10, <1>11,
     <1>12, <1>13, <1>14, <1>15, <1>16, <1>17, <1>18, <1>19, <1>20, <1>21,
     <1>22, <1>23, <1>30, <1>31,
     <1>32, <1>33, <1>34, <1>35, <1>36, <1>37, <1>38, <1>39
     DEF Next, UserStep, ThreadStep, ThreadRuns, SupervisorStep

------------------------------------------------------------------------------
\* Snapshots

\* Every snapshot that is open and not stale after the step was so before it,
\* and the columns it holds did not change.
SnapFrame ==
  \A q \in Runners : pc'[q] \in OpenTx /\ ~stale'[q] =>
    /\ pc[q] \in OpenTx /\ ~stale[q] /\ snap'[q] = snap[q]
    /\ state'[job'[q]] = state[job[q]] /\ runner'[job'[q]] = runner[job[q]]

LEMMA FramePreserves == SnapInv /\ SnapFrame => SnapInv'
  BY DEF SnapInv, SnapFrame

\* Thread r takes a snapshot, nothing else changes.
LEMMA SnapshotPreserves ==
  ASSUME TypeOK, SnapInv, NEW r \in Runners, Snapshot(r),
         UNCHANGED <<rowVars, placeVars>>,
         \A q \in Runners \ {r} : pc'[q] = pc[q]
  PROVE  SnapInv'
  BY DEF Snapshot, SnapInv, TypeOK, rowVars, placeVars

\* A thread ends in a transaction that wrote only the rows S.
LEMMA EndFrame ==
  ASSUME TypeOK, JobInv, NEW r \in Runners, NEW S, EndThread(r, S), UNCHANGED job,
         \A t \in Tasks \ S : state'[t] = state[t] /\ runner'[t] = runner[t]
  PROVE  SnapFrame
<1> SUFFICES ASSUME NEW q \in Runners, pc'[q] \in OpenTx, ~stale'[q]
             PROVE  /\ pc[q] \in OpenTx /\ ~stale[q] /\ snap'[q] = snap[q]
                    /\ state'[job'[q]] = state[job[q]]
                    /\ runner'[job'[q]] = runner[job[q]]
  BY DEF SnapFrame
<1>1. q # r /\ pc'[q] = pc[q] /\ snap'[q] = snap[q]
  BY DEF EndThread, OpenTx, TypeOK
<1>2. ~stale[q] /\ job[q] \in Tasks \ S
  BY <1>1 DEF EndThread, OpenTx, TypeOK, JobInv, Live
<1>3. QED
  BY <1>1, <1>2

LEMMA EndStep ==
  ASSUME TypeOK, JobInv, NEW r \in Runners,
         ExecWait(r) \/ ExecDone(r) \/ HandleFail(r)
  PROVE  SnapFrame
<1>1. EndThread(r, {job[r]}) /\ UNCHANGED <<job, runner>>
  BY DEF ExecWait, ExecDone, HandleFail, placeVars
<1>2. \A t \in Tasks \ {job[r]} : state'[t] = state[t]
  BY DEF ExecWait, ExecDone, HandleFail, SetState, TypeOK
<1>3. QED
  BY <1>1, <1>2, EndFrame

LEMMA SnapStep ==
  ASSUME TypeOK, JobInv, SnapInv, [Next]_vars
  PROVE  SnapInv'
<1> USE QueueAssumption
    DEF rowVars, workerVars, trackVars, placeVars, txVars, NoSnap, Live, SetState, Touch,
        EndThread, Returns, Catch, AutoRetry, LoseExecutions, Team, MarkEnd,
        Fresh, Idle, OpenTx, InFlight, Orphans, TypeOK, JobInv,
        SnapFrame
<1>1. ASSUME NEW t \in Tasks, Create(t) PROVE SnapFrame
  BY <1>1 DEF Create
<1>2. ASSUME NEW t \in Tasks, UserLock(t) PROVE SnapFrame
  BY <1>2 DEF UserLock
<1>3. ASSUME NEW t \in Tasks, UserEdit(t) PROVE SnapFrame
  BY <1>3 DEF UserEdit
<1>4. ASSUME NEW t \in Tasks, UserCancel(t) PROVE SnapFrame
  BY <1>4 DEF UserCancel
<1>5. ASSUME NEW t \in Tasks, UserAbort(t) PROVE SnapFrame
  BY <1>5 DEF UserAbort
<1>6. ASSUME NEW t \in Tasks, ManualRetry(t) PROVE SnapFrame
  BY <1>6 DEF ManualRetry
<1>7. ASSUME NEW r \in Runners, StartTask(r) PROVE SnapFrame
  BY <1>7 DEF StartTask
<1>8. ASSUME NEW r \in Runners, StartRefused(r) PROVE SnapFrame
  BY <1>8 DEF StartRefused
<1>9. ASSUME NEW r \in Runners, ExecBegin(r) PROVE SnapInv'
  BY <1>9, SnapshotPreserves DEF ExecBegin
<1>10. ASSUME NEW r \in Runners, ExecWait(r) PROVE SnapFrame
  BY <1>10, EndStep
<1>11. ASSUME NEW r \in Runners, ExecDone(r) PROVE SnapFrame
  BY <1>11, EndStep
<1>12. ASSUME NEW r \in Runners, ExecDropped(r) PROVE SnapFrame
  BY <1>12 DEF ExecDropped
<1>13. ASSUME NEW r \in Runners, ExecConflict(r) PROVE SnapFrame
  BY <1>13 DEF ExecConflict
<1>14. ASSUME NEW r \in Runners, HandleBegin(r) PROVE SnapInv'
  BY <1>14, SnapshotPreserves DEF HandleBegin
<1>15. ASSUME NEW r \in Runners, HandleRetry(r) PROVE SnapFrame
  BY <1>15 DEF HandleRetry
<1>16. ASSUME NEW r \in Runners, HandleFail(r) PROVE SnapFrame
  BY <1>16, EndStep
<1>17. ASSUME NEW r \in Runners, HandleDropped(r) PROVE SnapFrame
  BY <1>17 DEF HandleDropped
<1>18. ASSUME NEW r \in Runners, Progress(r) PROVE SnapFrame
  BY <1>18 DEF Progress
<1>19. ASSUME NEW w \in Workers, Heartbeat(w) PROVE SnapFrame
  BY <1>19 DEF Heartbeat
<1>20. ASSUME NEW w \in Workers, HeartbeatExpires(w) PROVE SnapFrame
  BY <1>20 DEF HeartbeatExpires
<1>21. ASSUME NEW w \in Workers, MarkCommit(w) PROVE SnapFrame
  BY <1>21 DEF MarkCommit
<1>22. ASSUME NEW w \in Workers, MarkFails(w) PROVE SnapFrame
  BY <1>22 DEF MarkFails
<1>23. ASSUME NEW w \in Workers, CheckStaleWorkers(w) PROVE SnapFrame
  BY <1>23 DEF CheckStaleWorkers
<1>24. ASSUME NEW w \in Workers, Start(w) PROVE SnapFrame
  BY <1>24 DEF Start
<1>25. ASSUME NEW w \in Workers, CleanupOrphans(w) PROVE SnapFrame
  BY <1>25 DEF CleanupOrphans
<1>26. ASSUME NEW w \in Workers, CleanupFails(w) PROVE SnapFrame
  BY <1>26 DEF CleanupFails
<1>27. ASSUME NEW w \in Workers, Leave(w) PROVE SnapFrame
  BY <1>27 DEF Leave
<1>28. ASSUME NEW w \in Workers, ProcessDies(w) PROVE SnapFrame
  BY <1>28 DEF ProcessDies
<1>29. ASSUME NEW w \in Workers, WorkerEnds(w) PROVE SnapFrame
  BY <1>29 DEF WorkerEnds
<1>30. ASSUME NEW r \in Runners, NEW kind \in Raises, ExecRaise(r, kind) PROVE SnapFrame
  BY <1>30 DEF ExecRaise
<1>31. ASSUME NEW w \in Workers, NEW r \in Runners, FinalizeCompleted(w, r) PROVE SnapFrame
  BY <1>31 DEF FinalizeCompleted
<1>32. ASSUME NEW w \in Workers, NEW r \in Runners, MarkBegin(w, r) PROVE SnapFrame
  BY <1>32 DEF MarkBegin
<1>33. ASSUME NEW w \in Workers, NEW r \in Runners, MarkSkipped(w, r) PROVE SnapFrame
  BY <1>33 DEF MarkSkipped
<1>34. ASSUME NEW w \in Workers, NEW t \in Tasks, CheckWaitingParent(w, t) PROVE SnapFrame
  BY <1>34 DEF CheckWaitingParent
<1>35. ASSUME NEW w \in Workers, NEW t \in Tasks, AutoRetryFailed(w, t) PROVE SnapFrame
  BY <1>35 DEF AutoRetryFailed
<1>36. ASSUME NEW w \in Workers, NEW t \in Tasks, RecoverDeadWorkerTask(w, t) PROVE SnapFrame
  BY <1>36 DEF RecoverDeadWorkerTask
<1>37. ASSUME NEW w \in Workers, NEW t \in Tasks, NEW r \in Runners,
              Claim(w, t, r) \/ SpawnFails(w, t, r) \/ SpawnSkipped(w, t, r)
       PROVE SnapFrame
  <2>1. CASE Claim(w, t, r)
    BY <2>1 DEF Claim, Assign, Enlist
  <2>2. CASE SpawnFails(w, t, r)
    BY <2>2 DEF SpawnFails, Assign, Enlist
  <2>3. CASE SpawnSkipped(w, t, r)
    BY <2>3 DEF SpawnSkipped, Assign
  <2>4. QED
    BY <1>37, <2>1, <2>2, <2>3
<1>38. ASSUME NEW w \in Workers, ProcessStep(w) PROVE SnapFrame
  <2> HIDE DEF SnapFrame
  <2> QED
    BY <1>24, <1>25, <1>26, <1>27, <1>28, <1>29, <1>38, ProcessSteps
<1>39. ASSUME UNCHANGED vars PROVE SnapFrame
  BY <1>39 DEF vars
<1>40. QED
  BY <1>1, <1>2, <1>3, <1>4, <1>5, <1>6, <1>7, <1>8, <1>9, <1>10, <1>11,
     <1>12, <1>13, <1>14, <1>15, <1>16, <1>17, <1>18, <1>19, <1>20, <1>21,
     <1>22, <1>23, <1>30, <1>31,
     <1>32, <1>33, <1>34, <1>35, <1>36, <1>37, <1>38, <1>39, FramePreserves
     DEF Next, UserStep, ThreadStep, ThreadRuns, SupervisorStep

THEOREM QueueInvariant == Spec => []QueueInv
<1>1. Init => QueueInv
  BY QueueAssumption DEF Init, QueueInv, TypeOK, JobInv, LockInv, SnapInv, Live,
     Marks, NoSnap, States, OpenTx
<1>2. QueueInv /\ [Next]_vars => QueueInv'
  BY TypeStep, LockStep, SnapStep DEF QueueInv
<1>3. QED
  BY <1>1, <1>2, PTL DEF Spec

\* The columns, records and threads keep their types.
THEOREM TypeCorrect == Spec => []TypeOK
  BY QueueInvariant, PTL DEF QueueInv
==============================================================================
