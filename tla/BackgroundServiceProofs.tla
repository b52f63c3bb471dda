---------------------- MODULE BackgroundServiceProofs ----------------------
(***************************************************************************)
(* One background service with any number of databases, threads, faults and *)
(* any stuck timeout.  The inductive invariant adds to the properties that  *)
(* no thread outlives its process, that a worker told to stop while it      *)
(* serves is woken or about to be, that the shutdown has every worker it    *)
(* has not yet stopped before it, and that the countdown is never longer    *)
(* than the time since the service was found not stuck.                     *)
(***************************************************************************)
EXTENDS BackgroundService, TLAPS

NoStrays == proc # "up" => \A t \in Threads : wpc[t] = "over"

WorkersWake ==
  \A t \in Threads :
    wpc[t] \in {"serving", "sleeping"} /\ wstop[t] => wwake[t] \/ half = t

LoopWakes == beat = "sleeping" /\ svcStop => svcWake \/ asking

Halting ==
  /\ beat = "halting" =>
       \A t \in Threads : Alive(t) => wstop[t] \/ wdb[t] \in todo
  /\ beat \in {"joining", "over"} => \A t \in Threads : Alive(t) => wstop[t]

Window ==
  /\ stuckFor # NotStuck => stuckFor <= calm
  /\ DieAfter = 0 => stuckFor = NotStuck

IInv == TypeOK /\ WorkersAreTracked /\ NoStrays /\ WorkersWake /\ LoopWakes
        /\ Halting /\ Window

\* The parts of the type invariant: numbers, truth values, the rest.
Counts ==
  stuckFor \in 0..NotStuck /\ calm \in 0..DieAfter /\ faults \in 0..MaxFaults

Flags ==
  svcStop \in BOOLEAN /\ svcWake \in BOOLEAN /\ asking \in BOOLEAN
  /\ reload \in BOOLEAN

Shapes ==
  /\ active \in SUBSET Dbs /\ seen \in SUBSET Dbs
  /\ todo \in SUBSET Dbs
  /\ proc \in {"absent", "up", "dead"}
  /\ beat \in Beats
  /\ workers \in [Dbs -> Threads \cup {NoThread}]
  /\ wpc \in [Threads -> {"init", "head", "serving", "sleeping", "clearing",
                          "ending", "over"}]
  /\ wdb \in [Threads -> Dbs \cup {NoDb}]
  /\ wstop \in [Threads -> BOOLEAN] /\ wwake \in [Threads -> BOOLEAN]
  /\ half \in Threads \cup {NoThread}
  /\ stuck \in [Threads -> BOOLEAN]
  /\ beat = "spawning" => \A d \in todo : workers[d] = NoThread

LEMMA TypeParts ==
  /\ TypeOK <=> Counts /\ Flags /\ Shapes
  /\ TypeOK' <=> Counts' /\ Flags' /\ Shapes'
BY DEF TypeOK, Counts, Flags, Shapes

LEMMA InitInv == Init => IInv
<1> SUFFICES ASSUME Init PROVE IInv
  OBVIOUS
<1> USE ServiceAssumption
<1>1. Counts
  BY DEF Init, Counts, NotStuck
<1>2. Flags
  BY DEF Init, Flags
<1>3. Shapes
  BY DEF Init, Shapes, Beats
<1>4. /\ WorkersAreTracked /\ NoStrays /\ WorkersWake /\ LoopWakes /\ Halting
      /\ Window
  BY DEF Init, WorkersAreTracked, NoStrays, WorkersWake, LoopWakes, Halting,
         Window, Alive
<1> QED
  BY <1>1, <1>2, <1>3, <1>4, TypeParts DEF IInv

\* Steps that leave the worker threads and their registry alone.
LEMMA LoopKeeps ==
  ASSUME IInv, TypeOK', UNCHANGED <<workers, threadVars>>,
         proc' = proc \/ \A t \in Threads : ~Alive(t),
         beat' = "halting" =>
           (beat' = beat /\ todo' = todo) \/ todo' = Registered,
         beat' \in {"joining", "over"} =>
           \/ beat \in {"joining", "over"}
           \/ \A t \in Threads : Alive(t) => wstop[t],
         LoopWakes', Window'
  PROVE  IInv'
<1> USE DEF IInv, threadVars
<1>1. WorkersAreTracked' /\ WorkersWake'
  BY DEF WorkersAreTracked, WorkersWake, Alive
<1>2. NoStrays'
  BY ServiceAssumption DEF NoStrays, Alive
<1>3. Halting'
  BY DEF Halting, WorkersAreTracked, Registered, Alive
<1> QED
  BY <1>1, <1>2, <1>3

\* The loop, between its steps on the workers.
LEMMA WalkInv ==
  ASSUME IInv,
         \/ BeatWait \/ BeatClear \/ BeatDecide \/ StopProbe \/ SpawnProbe
         \/ SpawnDone \/ ShutdownWorkers \/ JoinWorkers \/ ProbeRaises
         \/ AskStop \/ AskWake \/ ProcessExits \/ WorkerPop
         \/ \E d \in Dbs : DbChanges(d)
  PROVE  IInv'
<1> USE ServiceAssumption
    DEF BeatWait, BeatClear, BeatDecide, StopProbe, SpawnProbe, SpawnDone,
        ShutdownWorkers, JoinWorkers, ProbeRaises, AskStop, AskWake, Asked,
        ProcessExits, WorkerPop, DbChanges, BeatAt, Close, Fault
<1>1. TypeOK'
  <2>1. Counts'
    BY TypeParts DEF IInv, Counts, stuckVars
  <2>2. Flags'
    BY TypeParts DEF IInv, Flags, svcVars, stuckVars
  <2>3. Shapes'
    BY TypeParts DEF IInv, Shapes, Beats, loopVars, threadVars, Registered
  <2> QED
    BY <2>1, <2>2, <2>3, TypeParts
<1>2. UNCHANGED <<workers, threadVars>> /\ UNCHANGED stuckVars
  OBVIOUS
<1>3. Window'
  BY <1>2 DEF IInv, Window, stuckVars
<1>4. LoopWakes'
  BY DEF IInv, LoopWakes, svcVars
<1>5. proc' = proc \/ \A t \in Threads : ~Alive(t)
  BY DEF IInv, NoStrays, Alive
<1>6. beat' = "halting" => (beat' = beat /\ todo' = todo) \/ todo' = Registered
  BY DEF loopVars
<1>7. beat' \in {"joining", "over"} => beat \in {"joining", "over"}
  OBVIOUS
<1> QED
  BY <1>1, <1>2, <1>3, <1>4, <1>5, <1>6, <1>7, LoopKeeps

LEMMA StopDoneInv ==
  ASSUME IInv, StopDone
  PROVE  IInv'
<1> USE ServiceAssumption DEF StopDone, BeatAt
<1>1. TypeOK'
  BY DEF IInv, TypeOK, Beats, svcVars, stuckVars, threadVars
<1>2. Window' /\ LoopWakes'
  BY DEF IInv, Window, LoopWakes, stuckVars, svcVars
<1>3. beat' = "joining" => \A t \in Threads : Alive(t) => wstop[t]
  BY DEF IInv, Halting, Stops, WorkersAreTracked
<1> QED
  BY <1>1, <1>2, <1>3, LoopKeeps

LEMMA CheckStuckInv ==
  ASSUME IInv, CheckStuck
  PROVE  IInv'
<1> USE ServiceAssumption DEF CheckStuck
<1>1. /\ stuckFor' \in 0..NotStuck /\ calm' \in 0..DieAfter
      /\ reload' \in BOOLEAN /\ svcStop' \in BOOLEAN /\ svcWake' \in BOOLEAN
  <2>1. stuckFor' \in 0..NotStuck /\ calm' \in 0..DieAfter
    BY DEF IInv, TypeOK, Countdown, NotStuck
  <2>2. svcStop \in BOOLEAN /\ svcWake \in BOOLEAN /\ reload \in BOOLEAN
    BY DEF IInv, TypeOK
  <2>3. \/ UNCHANGED <<reload, svcStop, svcWake>>
        \/ reload' = TRUE /\ svcStop' = TRUE /\ svcWake' = TRUE
    BY DEF Countdown
  <2> QED
    BY <2>1, <2>2, <2>3
<1>2. TypeOK'
  BY <1>1 DEF IInv, TypeOK, Beats, loopVars, threadVars
<1>3. Window'
  BY DEF IInv, TypeOK, Window, Countdown, NotStuck
<1>4. LoopWakes'
  BY DEF LoopWakes
<1> QED
  BY <1>2, <1>3, <1>4, LoopKeeps

LEMMA TickInv ==
  ASSUME IInv, Tick
  PROVE  IInv'
<1> USE ServiceAssumption DEF Tick
<1>1. TypeOK'
  BY DEF IInv, TypeOK, svcVars, loopVars, threadVars, NotStuck
<1>2. Window'
  BY DEF IInv, TypeOK, Window, NotStuck
<1>3. LoopWakes'
  BY DEF IInv, LoopWakes, svcVars
<1> QED
  BY <1>1, <1>2, <1>3, LoopKeeps DEF loopVars

LEMMA CleanInv ==
  ASSUME IInv, CleanWorkers
  PROVE  IInv'
<1> USE ServiceAssumption DEF CleanWorkers, BeatAt
<1>1. TypeOK'
  BY DEF IInv, TypeOK, Beats, svcVars, stuckVars, threadVars
<1>2. WorkersAreTracked'
  BY DEF IInv, TypeOK, WorkersAreTracked, DeadWorker, Alive, threadVars
<1>3. NoStrays' /\ WorkersWake' /\ LoopWakes' /\ Halting' /\ Window'
  BY DEF IInv, NoStrays, WorkersWake, LoopWakes, Halting, Window, threadVars,
         stuckVars, svcVars
<1> QED
  BY <1>1, <1>2, <1>3 DEF IInv

LEMMA StopInv ==
  ASSUME IInv, WakeWorker \/ \E d \in Dbs : StopWorker(d)
  PROVE  IInv'
<1> USE ServiceAssumption
<1>1. CASE WakeWorker
  <2> USE <1>1 DEF WakeWorker
  <2>1. TypeOK'
    BY DEF IInv, TypeOK, svcVars, loopVars, stuckVars
  <2>2. WorkersWake'
    BY DEF IInv, TypeOK, WorkersWake
  <2>3. /\ WorkersAreTracked' /\ NoStrays' /\ LoopWakes' /\ Halting' /\ Window'
    BY DEF IInv, WorkersAreTracked, NoStrays, LoopWakes, Halting, Window, Alive,
           svcVars, loopVars, stuckVars
  <2> QED
    BY <2>1, <2>2, <2>3 DEF IInv
<1>2. CASE \E d \in Dbs : StopWorker(d)
  <2>1. PICK d \in Dbs : StopWorker(d)
    BY <1>2
  <2> USE <2>1 DEF StopWorker, Stops
  <2>2. workers[d] \in Threads
    BY DEF IInv, TypeOK, Alive
  <2>3. TypeOK'
    BY <2>2 DEF IInv, TypeOK, svcVars, loopVars, stuckVars
  <2>4. WorkersWake'
    BY <2>2 DEF IInv, TypeOK, WorkersWake
  <2>5. WorkersAreTracked' /\ NoStrays' /\ LoopWakes' /\ Window'
    BY DEF IInv, WorkersAreTracked, NoStrays, LoopWakes, Window, Alive,
           svcVars, loopVars, stuckVars
  <2>6. Halting'
    BY <2>2 DEF IInv, TypeOK, Halting, WorkersAreTracked, Alive
  <2> QED
    BY <2>3, <2>4, <2>5, <2>6 DEF IInv
<1> QED
  BY <1>1, <1>2

LEMMA SpawnInv ==
  ASSUME IInv, NEW d \in Dbs,
         SpawnFails(d) \/ \E t \in Threads : SpawnWorker(d, t)
  PROVE  IInv'
<1> USE ServiceAssumption DEF SpawnFails, SpawnWorker, Spawning, Fault
<1>0. faults' \in 0..MaxFaults
  <2>1. faults' = faults \/ (faults < MaxFaults /\ faults' = faults + 1)
    OBVIOUS
  <2> QED
    BY <2>1 DEF IInv, TypeOK
<1>1. CASE UNCHANGED <<workers, threadVars>>
          /\ UNCHANGED <<active, proc, beat, svcVars, seen, stuckVars>>
  <2>1. TypeOK'
    BY <1>1 DEF IInv, TypeOK, svcVars, stuckVars, threadVars
  <2>2. Window' /\ LoopWakes'
    BY <1>1 DEF IInv, Window, LoopWakes, stuckVars, svcVars
  <2> QED
    BY <1>1, <2>1, <2>2, LoopKeeps
<1>2. CASE \E t \in Threads, at \in {"init", "over"} : NewThread(d, t, at)
  <2>1. PICK t \in Threads, at \in {"init", "over"} : NewThread(d, t, at)
    BY <1>2
  <2> USE <2>1 DEF NewThread
  <2>2. workers[d] = NoThread
    BY DEF IInv, TypeOK
  <2>3. TypeOK'
    <3>1. Counts'
      BY <1>0, TypeParts DEF IInv, Counts, stuckVars
    <3>2. Flags'
      BY TypeParts DEF IInv, Flags, svcVars, stuckVars
    <3>3. Shapes'
      BY TypeParts DEF IInv, Shapes, Beats
    <3> QED
      BY <3>1, <3>2, <3>3, TypeParts
  <2>4. WorkersAreTracked'
    <3> SUFFICES ASSUME NEW u \in Threads, Alive(u)'
                 PROVE  wdb'[u] \in Dbs /\ workers'[wdb'[u]] = u
      BY DEF WorkersAreTracked
    <3>1. CASE u = t
      BY <3>1 DEF IInv, TypeOK
    <3>2. CASE u # t
      <4>1. wdb'[u] = wdb[u] /\ wpc'[u] = wpc[u]
        BY <3>2 DEF IInv, TypeOK
      <4>2. wdb[u] \in Dbs /\ workers[wdb[u]] = u
        BY <4>1 DEF IInv, WorkersAreTracked, Alive
      <4>3. wdb[u] # d
        BY <2>2, <4>2
      <4> QED
        BY <4>1, <4>2, <4>3 DEF IInv, TypeOK
    <3> QED
      BY <3>1, <3>2
  <2>5. NoStrays' /\ WorkersWake' /\ LoopWakes' /\ Halting' /\ Window'
    BY DEF IInv, TypeOK, NoStrays, WorkersWake, LoopWakes, Halting, Window,
           svcVars, stuckVars
  <2> QED
    BY <2>3, <2>4, <2>5 DEF IInv
<1> QED
  BY <1>1, <1>2

\* A worker thread's own steps never start it again.
LEMMA ThreadInv ==
  ASSUME IInv, NEW t \in Threads,
         \/ WorkerRuns(t) \/ WorkerClears(t) \/ WorkerEnds(t) \/ WorkerFails(t)
         \/ StuckChanges(t)
  PROVE  IInv'
<1> USE ServiceAssumption
<1>1. /\ wpc[t] # "over"
      /\ \E to \in {"head", "serving", "sleeping", "clearing", "ending", "over"} :
           wpc' = wpc \/ wpc' = [wpc EXCEPT ![t] = to]
      /\ UNCHANGED <<active, proc, beat, svcVars, loopVars, workers, stuckVars,
                     wdb, wstop, half>>
      /\ wwake' \in [Threads -> BOOLEAN] /\ stuck' \in [Threads -> BOOLEAN]
      /\ faults' \in 0..MaxFaults
  <2>1. CASE WorkerRuns(t)
    BY <2>1 DEF IInv, TypeOK, WorkerRuns, Goes
  <2>2. CASE WorkerClears(t) \/ WorkerEnds(t)
    BY <2>2 DEF IInv, TypeOK, WorkerClears, WorkerEnds, Goes
  <2>3. CASE WorkerFails(t)
    BY <2>3 DEF IInv, TypeOK, WorkerFails, Goes, Fault
  <2>4. CASE StuckChanges(t)
    BY <2>4 DEF IInv, TypeOK, StuckChanges
  <2> QED
    BY <2>1, <2>2, <2>3, <2>4
<1>2. TypeOK'
  BY <1>1 DEF IInv, TypeOK, svcVars, loopVars, stuckVars
<1>3. \A u \in Threads : Alive(u)' => Alive(u)
  BY <1>1 DEF IInv, TypeOK, Alive
<1>4. WorkersAreTracked'
  BY <1>1, <1>3 DEF IInv, WorkersAreTracked
<1>5. NoStrays'
  BY <1>1, <1>3 DEF IInv, NoStrays
<1>6. WorkersWake'
  BY DEF IInv, TypeOK, WorkersWake, WorkerRuns, WorkerClears, WorkerEnds,
         WorkerFails, StuckChanges, Goes
<1>7. Halting'
  BY <1>1, <1>3 DEF IInv, Halting, loopVars
<1>8. LoopWakes' /\ Window'
  BY <1>1 DEF IInv, LoopWakes, Window, svcVars, stuckVars
<1> QED
  BY <1>2, <1>4, <1>5, <1>6, <1>7, <1>8 DEF IInv

LEMMA ProcessInv ==
  ASSUME IInv, StartService \/ Crash
  PROVE  IInv'
<1> USE ServiceAssumption
<1>1. CASE StartService
  <2> USE <1>1 DEF StartService
  <2>1. \A t \in Threads : ~Alive(t)' /\ ~Alive(t)
    BY DEF IInv, NoStrays, Alive, threadVars
  <2>2. TypeOK'
    <3>1. Counts'
      BY TypeParts DEF IInv, Counts, NotStuck
    <3>2. Flags'
      BY DEF Flags
    <3>3. Shapes'
      BY TypeParts DEF IInv, Shapes, Beats, threadVars
    <3> QED
      BY <3>1, <3>2, <3>3, TypeParts
  <2>3. /\ WorkersAreTracked' /\ NoStrays' /\ WorkersWake' /\ LoopWakes'
        /\ Halting' /\ Window'
    BY <2>1 DEF IInv, WorkersAreTracked, NoStrays, WorkersWake, LoopWakes,
                Halting, Window, threadVars
  <2> QED
    BY <2>2, <2>3 DEF IInv
<1>2. CASE Crash
  <2> USE <1>2 DEF Crash, Fault
  <2>1. TypeOK'
    <3>1. Counts'
      BY TypeParts DEF IInv, Counts, stuckVars
    <3>2. Flags'
      BY TypeParts DEF IInv, Flags, stuckVars
    <3>3. Shapes'
      BY TypeParts DEF IInv, Shapes, Beats, loopVars
    <3> QED
      BY <3>1, <3>2, <3>3, TypeParts
  <2>2. /\ WorkersAreTracked' /\ NoStrays' /\ WorkersWake' /\ LoopWakes'
        /\ Halting' /\ Window'
    BY DEF IInv, WorkersAreTracked, NoStrays, WorkersWake, LoopWakes, Halting,
           Window, Alive, stuckVars
  <2> QED
    BY <2>1, <2>2 DEF IInv
<1> QED
  BY <1>1, <1>2

LEMMA StepInv == IInv /\ [Next]_vars => IInv'
<1> SUFFICES ASSUME IInv, [Next]_vars
             PROVE  IInv'
  OBVIOUS
<1>1. CASE UNCHANGED vars
  BY <1>1 DEF vars, svcVars, loopVars, stuckVars, threadVars, IInv, TypeOK,
              WorkersAreTracked, NoStrays, WorkersWake, LoopWakes, Halting,
              Window, Alive
<1>2. CASE BeatStep
  BY <1>2, WalkInv, StopInv, StopDoneInv, CleanInv, SpawnInv, CheckStuckInv
     DEF BeatStep
<1>3. CASE ServerStep \/ AskWake
  BY <1>3, WalkInv, ProcessInv DEF ServerStep
<1>4. CASE \E t \in Threads : ThreadStep(t)
  BY <1>4, ThreadInv DEF ThreadStep
<1>5. CASE Happens
  BY <1>5, WalkInv, ProcessInv, TickInv, SpawnInv, ThreadInv DEF Happens
<1> QED
  BY <1>1, <1>2, <1>3, <1>4, <1>5 DEF Next

\* The inductive invariant: no thread without its process, no stop without its
\* wake, no worker that the shutdown passes over.
THEOREM ServiceInvariant == Spec => []IInv
BY InitInv, StepInv, PTL DEF Spec

\* Types of the service's, the threads' and the countdown's state; what is
\* still to spawn has no worker.
THEOREM TypeCorrect == Spec => []TypeOK
BY ServiceInvariant, PTL DEF IInv

\* Every live worker is the registered one of its database (spawn_workers,
\* clean_workers).
THEOREM NoWorkerEscapes == Spec => []WorkersAreTracked
BY ServiceInvariant, PTL DEF IInv

\* No stop request is lost to the clear of a wakeup (sleep, stop).
THEOREM StopsAreNotLost == Spec => []StopWakes
<1>1. IInv => StopWakes
  BY DEF IInv, LoopWakes, WorkersWake, StopWakes
<1> QED
  BY <1>1, ServiceInvariant, PTL

\* No worker goes on when run() has returned (shutdown_workers).
THEOREM ShutdownReachesAll == Spec => []ClosedWorkersStop
<1>1. IInv => ClosedWorkersStop
  BY DEF IInv, Halting, ClosedWorkersStop
<1> QED
  BY <1>1, ServiceInvariant, PTL

\* No hard reload before a whole stuck window (_check_stuck).
THEOREM ReloadsAreEarned == Spec => ReloadAfterWindow
<1>1. IInv /\ [Next]_vars => (reload' /\ ~reload => calm = DieAfter)
  <2> SUFFICES ASSUME IInv, [Next]_vars, reload', ~reload
               PROVE  calm = DieAfter
    OBVIOUS
  <2>1. CheckStuck
    BY DEF IInv, Next, vars, BeatStep, ServerStep, ThreadStep, Happens,
           BeatWait, BeatClear, BeatDecide, StopProbe, StopWorker, WakeWorker,
           StopDone, CleanWorkers, SpawnProbe, SpawnWorker, NewThread, SpawnDone,
           ShutdownWorkers, JoinWorkers, StartService, ProcessExits, WorkerPop,
           AskWake, WorkerRuns, WorkerClears, WorkerEnds, Goes, AskStop, Crash,
           ProbeRaises, Tick, DbChanges, SpawnFails, WorkerFails, StuckChanges,
           stuckVars
  <2>2. stuckFor = DieAfter
    BY <2>1 DEF CheckStuck, Countdown
  <2> QED
    BY <2>2, ServiceAssumption DEF IInv, TypeOK, Window, NotStuck
<1> QED
  BY <1>1, ServiceInvariant, PTL DEF Spec, ReloadAfterWindow

------------------------------------------------------------------------------
\* The supervisor loops of the databases

Loops == [d \in Dbs |-> Loop(d)]

\* The loop of a database is at the live thread that has it, if there is one.
LoopIsThread ==
  /\ \A t \in Threads : Alive(t) =>
       Loop(wdb[t]) = IF wpc[t] = "init" THEN "init" ELSE "up"
  /\ \A d \in Dbs : (\A t \in Threads : Alive(t) => wdb[t] # d)
                    => Loop(d) = "down"

LEMMA TrackedLoops == WorkersAreTracked => LoopIsThread
<1> SUFFICES ASSUME WorkersAreTracked PROVE LoopIsThread
  OBVIOUS
<1>1. ASSUME NEW t \in Threads, Alive(t)
      PROVE  {wpc[u] : u \in {v \in Threads : Alive(v) /\ wdb[v] = wdb[t]}}
               = {wpc[t]}
  BY <1>1 DEF WorkersAreTracked
<1>2. ASSUME NEW d \in Dbs, \A t \in Threads : Alive(t) => wdb[t] # d
      PROVE  {wpc[u] : u \in {v \in Threads : Alive(v) /\ wdb[v] = d}} = {}
  BY <1>2
<1> QED
  BY <1>1, <1>2 DEF Loop, LoopIsThread

\* Where no live thread of a database moves, neither does its loop.
LEMMA LoopStays ==
  ASSUME NEW d \in Dbs,
         \A t \in Threads :
           /\ Alive(t) /\ wdb[t] = d <=> Alive(t)' /\ wdb'[t] = d
           /\ Alive(t) /\ wdb[t] = d => wpc'[t] = wpc[t]
  PROVE  Loop(d)' = Loop(d)
<1>1. {t \in Threads : Alive(t) /\ wdb[t] = d}'
        = {t \in Threads : Alive(t) /\ wdb[t] = d}
  OBVIOUS
<1>2. \A t \in {u \in Threads : Alive(u) /\ wdb[u] = d} : wpc'[t] = wpc[t]
  OBVIOUS
<1>3. {wpc[t] : t \in {u \in Threads : Alive(u) /\ wdb[u] = d}}'
        = {wpc[t] : t \in {u \in Threads : Alive(u) /\ wdb[u] = d}}
  BY <1>1, <1>2
<1> QED
  BY <1>3 DEF Loop

\* A live thread goes on or ends.
LEMMA ThreadSupervises ==
  ASSUME IInv, IInv', NEW t \in Threads,
         \/ WorkerRuns(t) \/ WorkerClears(t) \/ WorkerEnds(t) \/ WorkerFails(t)
         \/ StuckChanges(t)
  PROVE  [Supervision!Next]_(Supervision!vars)
<1>1. /\ wpc[t] # "over" /\ wdb' = wdb
      /\ \A u \in Threads \ {t} : wpc'[u] = wpc[u]
      /\ wpc'[t] = "init" => wpc[t] = "init"
  BY DEF IInv, TypeOK, WorkerRuns, WorkerClears, WorkerEnds, WorkerFails,
         StuckChanges, Goes
<1>2. Alive(t) /\ wdb[t] \in Dbs
  BY <1>1, ServiceAssumption DEF Alive, IInv, WorkersAreTracked
<1>3. PICK d \in Dbs : d = wdb[t]
  BY <1>2
<1>4. LoopIsThread /\ LoopIsThread'
  <2>1. WorkersAreTracked /\ WorkersAreTracked'
    BY DEF IInv
  <2> QED
    BY <2>1, TrackedLoops, PTL
<1>5. \A e \in Dbs \ {d} : Loop(e)' = Loop(e)
  BY <1>1, <1>3, LoopStays DEF Alive
<1>6. Loop(d) = IF wpc[t] = "init" THEN "init" ELSE "up"
  BY <1>2, <1>3, <1>4 DEF LoopIsThread
<1>7. CASE wpc'[t] = "over"
  <2>1. ASSUME NEW u \in Threads, Alive(u)' PROVE wdb'[u] # d
    BY <1>1, <1>2, <1>3, <1>7, <2>1 DEF Alive, IInv, WorkersAreTracked
  <2>2. Loop(d)' = "down"
    BY <1>4, <2>1 DEF LoopIsThread
  <2>3. Loops' = [e \in Dbs |-> IF e \in {d} THEN "down" ELSE Loops[e]]
    BY <1>5, <2>2 DEF Loops
  <2>4. Supervision!Leave({d})
    BY <2>3 DEF Supervision!Leave, Loops
  <2> QED
    BY <2>4 DEF Supervision!Next
<1>8. CASE wpc'[t] # "over"
  <2>1. Loop(d)' = IF wpc'[t] = "init" THEN "init" ELSE "up"
    BY <1>1, <1>2, <1>3, <1>4, <1>8 DEF LoopIsThread, Alive
  <2>2. CASE wpc[t] = "init" /\ wpc'[t] # "init"
    <3>1. Loops' = [Loops EXCEPT ![d] = "up"] /\ Loops[d] = "init"
      BY <1>5, <1>6, <2>1, <2>2 DEF Loops
    <3>2. Supervision!Ready(d)
      BY <3>1 DEF Supervision!Ready, Loops
    <3> QED
      BY <3>2 DEF Supervision!Next
  <2>3. CASE wpc[t] = "init" <=> wpc'[t] = "init"
    <3>1. Loops' = Loops
      BY <1>5, <1>6, <2>1, <2>3 DEF Loops
    <3> QED
      BY <3>1 DEF Supervision!vars, Loops
  <2> QED
    BY <1>1, <2>2, <2>3
<1> QED
  BY <1>7, <1>8

\* A thread is made for a database that has none; one that could not be
\* started is over at once.
LEMMA SpawnSupervises ==
  ASSUME IInv, IInv', NEW d \in Dbs,
         SpawnFails(d) \/ \E t \in Threads : SpawnWorker(d, t)
  PROVE  [Supervision!Next]_(Supervision!vars)
<1>1. LoopIsThread /\ LoopIsThread'
  <2>1. WorkersAreTracked /\ WorkersAreTracked'
    BY DEF IInv
  <2> QED
    BY <2>1, TrackedLoops, PTL
<1>2. CASE UNCHANGED threadVars
  <2>1. \A e \in Dbs : Loop(e)' = Loop(e)
    BY <1>2, LoopStays DEF threadVars, Alive
  <2> QED
    BY <2>1 DEF Supervision!vars
<1>3. CASE \E t \in Threads, at \in {"init", "over"} : NewThread(d, t, at)
  <2>1. PICK t \in Threads, at \in {"init", "over"} : NewThread(d, t, at)
    BY <1>3
  <2>2. /\ wpc[t] = "over" /\ wpc'[t] = at /\ wdb'[t] = d
        /\ \A u \in Threads \ {t} : wpc'[u] = wpc[u] /\ wdb'[u] = wdb[u]
    BY <2>1, ServiceAssumption DEF NewThread, Unused, Alive, IInv, TypeOK
  <2>3. workers[d] = NoThread
    BY DEF SpawnFails, SpawnWorker, Spawning, IInv, TypeOK
  <2>4. \A u \in Threads : Alive(u) => wdb[u] # d
    BY <2>3 DEF IInv, WorkersAreTracked, Alive
  <2>5. Loop(d) = "down"
    BY <1>1, <2>4 DEF LoopIsThread
  <2>6. \A e \in Dbs \ {d} : Loop(e)' = Loop(e)
    BY <2>2, LoopStays DEF Alive
  <2>7. Loop(d)' = IF at = "init" THEN "init" ELSE "down"
    BY <1>1, <2>2, <2>4, ServiceAssumption DEF LoopIsThread, Alive
  <2>8. CASE at = "init"
    <3>1. Loops' = [Loops EXCEPT ![d] = "init"] /\ Loops[d] = "down"
      BY <2>5, <2>6, <2>7, <2>8 DEF Loops
    <3>2. Supervision!Start(d)
      BY <3>1 DEF Supervision!Start, Loops
    <3> QED
      BY <3>2 DEF Supervision!Next
  <2>9. CASE at = "over"
    <3>1. Loops' = Loops
      BY <2>5, <2>6, <2>7, <2>9 DEF Loops
    <3> QED
      BY <3>1 DEF Supervision!vars, Loops
  <2> QED
    BY <2>8, <2>9
<1> QED
  BY <1>2, <1>3 DEF SpawnFails, SpawnWorker

\* A process that dies takes all its threads along.
LEMMA CrashSupervises ==
  ASSUME Crash
  PROVE  [Supervision!Next]_(Supervision!vars)
<1>1. ASSUME NEW d \in Dbs PROVE Loop(d)' = "down"
  <2>1. {t \in Threads : Alive(t) /\ wdb[t] = d}' = {}
    BY DEF Crash, Alive
  <2>2. {wpc[t] : t \in {u \in Threads : Alive(u) /\ wdb[u] = d}}' = {}
    BY <2>1
  <2> QED
    BY <2>2 DEF Loop
<1>2. Loops' = [d \in Dbs |-> IF d \in Dbs THEN "down" ELSE Loops[d]]
  BY <1>1 DEF Loops
<1>3. Supervision!Leave(Dbs)
  BY <1>2 DEF Supervision!Leave, Loops
<1> QED
  BY <1>3 DEF Supervision!Next

LEMMA StepSupervises ==
  IInv /\ IInv' /\ [Next]_vars => [Supervision!Next]_(Supervision!vars)
<1> SUFFICES ASSUME IInv, IInv', [Next]_vars
             PROVE  [Supervision!Next]_(Supervision!vars)
  OBVIOUS
<1>1. CASE \E t \in Threads : \/ ThreadStep(t) \/ WorkerFails(t)
                              \/ StuckChanges(t)
  BY <1>1, ThreadSupervises DEF ThreadStep
<1>2. CASE \E d \in Dbs : SpawnFails(d) \/ \E t \in Threads : SpawnWorker(d, t)
  BY <1>2, SpawnSupervises
<1>3. CASE Crash
  BY <1>3, CrashSupervises
<1>4. CASE UNCHANGED <<wpc, wdb>>
  <2>1. \A d \in Dbs : Loop(d)' = Loop(d)
    BY <1>4, LoopStays DEF Alive
  <2> QED
    BY <2>1 DEF Supervision!vars
<1>5. \/ UNCHANGED <<wpc, wdb>> \/ Crash
      \/ \E d \in Dbs : SpawnFails(d) \/ \E t \in Threads : SpawnWorker(d, t)
      \/ \E t \in Threads : \/ ThreadStep(t) \/ WorkerFails(t)
                            \/ StuckChanges(t)
  <2> USE DEF threadVars
  <2>1. CASE UNCHANGED vars
    BY <2>1 DEF vars
  <2>2. CASE BeatStep
    BY <2>2 DEF BeatStep, BeatWait, BeatClear, BeatDecide, StopProbe, StopWorker,
                WakeWorker, StopDone, CleanWorkers, SpawnProbe, SpawnDone,
                CheckStuck, ShutdownWorkers, JoinWorkers
  <2>3. CASE ServerStep \/ AskWake
    BY <2>3 DEF ServerStep, StartService, ProcessExits, WorkerPop, AskWake
  <2>4. CASE Happens
    BY <2>4 DEF Happens, AskStop, ProbeRaises, Tick, DbChanges
  <2> QED
    BY <2>1, <2>2, <2>3, <2>4 DEF Next
<1> QED
  BY <1>1, <1>2, <1>3, <1>4, <1>5

\* A database's worker loop starts only where there is none and is initialised
\* once (spawn_workers, clean_workers): what TaskQueue assumes of its
\* supervisors.
THEOREM ImplementsSupervisors == Spec => SupervisionSpec
<1>1. Init => Supervision!Init
  <2> SUFFICES ASSUME Init, NEW d \in Dbs PROVE Loop(d) = "down"
    BY DEF Supervision!Init
  <2>1. {t \in Threads : Alive(t) /\ wdb[t] = d} = {}
    BY DEF Init, Alive
  <2>2. {wpc[t] : t \in {u \in Threads : Alive(u) /\ wdb[u] = d}} = {}
    BY <2>1
  <2> QED
    BY <2>2 DEF Loop
<1> QED
  BY <1>1, ServiceInvariant, StepSupervises, PTL
     DEF Spec, SupervisionSpec, Supervision!Spec
=============================================================================
