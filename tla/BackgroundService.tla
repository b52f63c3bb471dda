-------------------------- MODULE BackgroundService --------------------------
(***************************************************************************)
(* One background service of one server: the container that runs it (a      *)
(* process of the prefork server, or a thread), its beat loop and one       *)
(* worker thread per database.                                              *)
(*                                                                          *)
(* The beat loop, the worker threads and whoever calls stop() run           *)
(* concurrently and talk through two events each, "stop" and "wakeup"; a    *)
(* wait returns on wakeup or on its timer, and the timer may fire at any    *)
(* time.  What a worker does in run_service() is TaskQueue's business: here *)
(* it only serves, sleeps, and is stuck or not.                             *)
(***************************************************************************)
EXTENDS Naturals

CONSTANTS
  Dbs, Threads, NoThread, NoDb,
  Mode,        \* _execution_mode: "worker" (prefork) or "threaded"
  DieAfter,    \* _die_on_stuck_timeout, in ticks; 0 disables
  MaxFaults    \* bound on crashes, stop requests and exceptions

ASSUME ServiceAssumption ==
  /\ NoThread \notin Threads /\ NoDb \notin Dbs
  /\ Mode \in {"worker", "threaded"}
  /\ DieAfter \in Nat /\ MaxFaults \in Nat

VARIABLES
  active,           \* databases a probe would find active now
  proc,             \* the container
  beat,             \* where the beat loop is
  svcStop, svcWake, \* _service_event_stop, _service_event_wakeup
  asking,           \* somebody is inside stop(), between the two events
  seen, todo,       \* result of the last probe, databases left in this step
  workers,          \* _workers
  stuckFor,         \* ticks since _service_stuck_since
  reload,           \* _hard_reload_requested
  wpc, wdb,         \* worker threads: where they are, their database
  wstop, wwake,     \* _worker_event_stop, _worker_event_wakeup
  half,             \* the worker stop_worker() is in the middle of stopping
  stuck,            \* is_stuck() of the worker
  calm,             \* history: ticks since a check found it not stuck
  faults

NotStuck == DieAfter + 1   \* _service_stuck_since is None

svcVars  == <<svcStop, svcWake, asking>>
loopVars == <<seen, todo>>
stuckVars == <<stuckFor, reload, calm>>
threadVars == <<wpc, wdb, wstop, wwake, half, stuck>>
vars == <<active, proc, beat, svcVars, loopVars, workers, stuckVars,
          threadVars, faults>>

Beats == {"sleeping", "clearing", "deciding", "probing", "stopping", "cleaning",
          "reprobing", "spawning", "checking", "closing", "halting", "joining",
          "over"}

TypeOK ==
  /\ active \in SUBSET Dbs /\ seen \in SUBSET Dbs
  /\ todo \in SUBSET Dbs
  /\ proc \in {"absent", "up", "dead"}
  /\ beat \in Beats
  /\ svcStop \in BOOLEAN /\ svcWake \in BOOLEAN /\ asking \in BOOLEAN
  /\ workers \in [Dbs -> Threads \cup {NoThread}]
  /\ stuckFor \in 0..NotStuck /\ reload \in BOOLEAN /\ calm \in 0..DieAfter
  /\ wpc \in [Threads -> {"init", "head", "serving", "sleeping", "clearing",
                          "ending", "over"}]
  /\ wdb \in [Threads -> Dbs \cup {NoDb}]
  /\ wstop \in [Threads -> BOOLEAN] /\ wwake \in [Threads -> BOOLEAN]
  /\ half \in Threads \cup {NoThread}
  /\ stuck \in [Threads -> BOOLEAN]
  /\ faults \in 0..MaxFaults
  /\ beat = "spawning" => \A d \in todo : workers[d] = NoThread

Init ==
  /\ active \in SUBSET Dbs
  /\ proc = "absent" /\ beat = "over"
  /\ svcStop = FALSE /\ svcWake = FALSE /\ asking = FALSE
  /\ seen = {} /\ todo = {}
  /\ workers = [d \in Dbs |-> NoThread]
  /\ stuckFor = NotStuck /\ reload = FALSE /\ calm = 0
  /\ wpc = [t \in Threads |-> "over"]
  /\ wdb = [t \in Threads |-> NoDb]
  /\ wstop = [t \in Threads |-> FALSE] /\ wwake = [t \in Threads |-> FALSE]
  /\ half = NoThread
  /\ stuck = [t \in Threads |-> FALSE]
  /\ faults = 0

Alive(t) == t # NoThread /\ wpc[t] # "over"
Fault == faults < MaxFaults /\ faults' = faults + 1

------------------------------------------------------------------------------
\* The server and the container

\* A module is installed, updated or removed, PostgreSQL goes down or comes back.
DbChanges(d) ==
  /\ active' = IF d \in active THEN active \ {d} ELSE active \cup {d}
  /\ UNCHANGED <<proc, beat, svcVars, loopVars, workers, stuckVars, threadVars,
                 faults>>

\* A new service object: prefork_process_spawn when the registry of the service
\* is empty, threaded_start_services once.
StartService ==
  /\ proc = "absent" /\ proc' = "up"
  /\ beat' = "sleeping"
  /\ svcStop' = FALSE /\ svcWake' = FALSE /\ asking' = FALSE
  /\ seen' = {} /\ todo' = {}
  /\ workers' = [d \in Dbs |-> NoThread]
  /\ stuckFor' = NotStuck /\ reload' = FALSE /\ calm' = 0
  /\ UNCHANGED <<active, threadVars, faults>>

\* stop() by a signal handler, check_limits or threaded_stop_services: it sets
\* the stop event, then wakes the loop.
AskStop ==
  /\ Fault
  /\ proc = "up" /\ ~asking /\ beat # "over"
  /\ svcStop' = TRUE /\ asking' = TRUE
  /\ UNCHANGED <<active, proc, beat, svcWake, loopVars, workers, stuckVars,
                 threadVars>>

AskedSilently == asking /\ asking' = FALSE /\ UNCHANGED svcWake   \* mutant
Asked == asking /\ asking' = FALSE /\ svcWake' = TRUE

AskWake ==
  /\ Asked
  /\ UNCHANGED <<active, proc, beat, svcStop, loopVars, workers, stuckVars,
                 threadVars, faults>>

\* run() has returned: the container of worker mode leaves its loop, whatever
\* made it return, and the process ends with its last worker thread.
ProcessExits ==
  /\ Mode = "worker" /\ proc = "up" /\ beat = "over"
  /\ \A t \in Threads : ~Alive(t)
  /\ proc' = "dead"
  /\ UNCHANGED <<active, beat, svcVars, loopVars, workers, stuckVars, threadVars,
                 faults>>

Crash ==
  /\ Mode = "worker" /\ proc = "up" /\ Fault
  /\ proc' = "dead" /\ beat' = "over" /\ asking' = FALSE
  /\ wpc' = [t \in Threads |-> "over"] /\ wdb' = [t \in Threads |-> NoDb]
  /\ wstop' = [t \in Threads |-> FALSE] /\ wwake' = [t \in Threads |-> FALSE]
  /\ half' = NoThread /\ stuck' = [t \in Threads |-> FALSE]
  /\ UNCHANGED <<active, svcStop, svcWake, loopVars, workers, stuckVars>>

\* worker_pop, the prefork server's, and server_worker_pop.
WorkerPop ==
  /\ proc = "dead" /\ proc' = "absent"
  /\ UNCHANGED <<active, beat, svcVars, loopVars, workers, stuckVars, threadVars,
                 faults>>

------------------------------------------------------------------------------
\* The beat loop: BackgroundService.run

BeatAt(from, to) == proc = "up" /\ beat = from /\ beat' = to

\* sleep(): the wait returns, on wakeup or on the timer.
BeatWait ==
  /\ BeatAt("sleeping", "clearing")
  /\ UNCHANGED <<active, proc, svcVars, loopVars, workers, stuckVars, threadVars,
                 faults>>

BeatClear ==
  /\ BeatAt("clearing", "deciding")
  /\ svcWake' = FALSE
  /\ UNCHANGED <<active, proc, svcStop, asking, loopVars, workers, stuckVars,
                 threadVars, faults>>

BeatDecide ==
  /\ BeatAt("deciding", IF svcStop THEN "closing" ELSE "probing")
  /\ UNCHANGED <<active, proc, svcVars, loopVars, workers, stuckVars, threadVars,
                 faults>>

Registered == {d \in Dbs : workers[d] # NoThread}

\* stop_workers: probe, then go through the registry.
StopProbe ==
  /\ BeatAt("probing", "stopping")
  /\ seen' = active /\ todo' = Registered
  /\ UNCHANGED <<active, proc, svcVars, workers, stuckVars, threadVars,
                 faults>>

StopsAtShutdown(d) ==                       \* mutant: not at a beat
  /\ half = NoThread /\ d \in todo /\ beat = "halting"
  /\ Alive(workers[d]) /\ ~wstop[workers[d]]

\* stop_worker sets the stop event, then wakes the worker.
Stops(d) ==
  /\ half = NoThread /\ d \in todo
  /\ beat = "halting" \/ (beat = "stopping" /\ d \notin seen)
  /\ Alive(workers[d]) /\ ~wstop[workers[d]]

StopWorker(d) ==
  /\ proc = "up" /\ beat \in {"stopping", "halting"} /\ Stops(d)
  /\ wstop' = [wstop EXCEPT ![workers[d]] = TRUE]
  /\ half' = workers[d]
  /\ todo' = todo \ {d}
  /\ UNCHANGED <<active, proc, beat, svcVars, seen, workers, stuckVars,
                 wpc, wdb, wwake, stuck, faults>>

WakeWorker ==
  /\ proc = "up" /\ half # NoThread
  /\ wwake' = [wwake EXCEPT ![half] = TRUE]
  /\ half' = NoThread
  /\ UNCHANGED <<active, proc, beat, svcVars, loopVars, workers, stuckVars,
                 wpc, wdb, wstop, stuck, faults>>

\* Nothing to stop for the databases that are left.
StopDone ==
  /\ half = NoThread /\ \A d \in todo : ~Stops(d)
  /\ BeatAt("stopping", "cleaning") \/ BeatAt("halting", "joining")
  /\ todo' = {}
  /\ UNCHANGED <<active, proc, svcVars, seen, workers, stuckVars,
                 threadVars, faults>>

DeadOrStopped(d) ==                         \* mutant: stopped is not dead yet
  workers[d] # NoThread /\ (~Alive(workers[d]) \/ wstop[workers[d]])
DeadAndStopped(d) ==                        \* mutant: not who died by itself
  workers[d] # NoThread /\ ~Alive(workers[d]) /\ wstop[workers[d]]
DeadWorker(d) == workers[d] # NoThread /\ ~Alive(workers[d])

CleanWorkers ==
  LET gone == {d \in Dbs : DeadWorker(d)} IN
  /\ BeatAt("cleaning", "reprobing")
  /\ workers' = [d \in Dbs |-> IF d \in gone THEN NoThread ELSE workers[d]]
  /\ UNCHANGED <<active, proc, svcVars, seen, todo, stuckVars, threadVars, faults>>

\* Mutant: a database that has a worker is not left out.
SpawnProbeAll ==
  /\ BeatAt("reprobing", "spawning")
  /\ seen' = active /\ todo' = active
  /\ UNCHANGED <<active, proc, svcVars, workers, stuckVars, threadVars,
                 faults>>

\* spawn_workers probes again.
SpawnProbe ==
  /\ BeatAt("reprobing", "spawning")
  /\ seen' = active /\ todo' = active \ Registered
  /\ UNCHANGED <<active, proc, svcVars, workers, stuckVars, threadVars,
                 faults>>

\* A thread object that nothing refers to.
Unused(t) == ~Alive(t) /\ \A d \in Dbs : workers[d] # t

Spawning(d) ==
  /\ proc = "up" /\ beat = "spawning" /\ d \in todo
  /\ todo' = todo \ {d}

NewThread(d, t, at) ==
  /\ Unused(t)
  /\ workers' = [workers EXCEPT ![d] = t]
  /\ wpc' = [wpc EXCEPT ![t] = at]
  /\ wdb' = [wdb EXCEPT ![t] = d]
  /\ wstop' = [wstop EXCEPT ![t] = FALSE]
  /\ wwake' = [wwake EXCEPT ![t] = FALSE]
  /\ stuck' = [stuck EXCEPT ![t] = FALSE]
  /\ UNCHANGED <<active, proc, beat, svcVars, seen, stuckVars, half>>

SpawnWorker(d, t) ==
  /\ Spawning(d) /\ NewThread(d, t, "init")
  /\ UNCHANGED faults

\* start() raises once the worker is registered, or something does before.
SpawnFails(d) ==
  /\ Fault /\ Spawning(d)
  /\ \/ \E t \in Threads : NewThread(d, t, "over")
     \/ UNCHANGED <<active, proc, beat, svcVars, seen, workers,
                    stuckVars, threadVars>>

SpawnDone ==
  /\ BeatAt("spawning", "checking") /\ todo = {}
  /\ UNCHANGED <<active, proc, svcVars, loopVars, workers, stuckVars, threadVars,
                 faults>>

IsStuck == \E d \in Dbs : Alive(workers[d]) /\ stuck[workers[d]]

\* Mutant: the countdown goes on when the service is found not stuck.
CountdownKept ==
  IF ~IsStuck THEN UNCHANGED <<stuckFor, reload, svcStop, svcWake>>
  ELSE IF stuckFor = NotStuck
       THEN stuckFor' = 0 /\ UNCHANGED <<reload, svcStop, svcWake>>
  ELSE IF stuckFor < DieAfter THEN UNCHANGED <<stuckFor, reload, svcStop, svcWake>>
  ELSE /\ stuckFor' = NotStuck
       /\ IF Mode = "worker"
          THEN reload' = TRUE /\ svcStop' = TRUE /\ svcWake' = TRUE
          ELSE UNCHANGED <<reload, svcStop, svcWake>>

\* What _check_stuck does: a countdown from the first beat that finds the
\* service stuck; at its end request_hard_reload, which only logs in threaded
\* mode, and a new countdown.
Countdown ==
  \/ /\ ~IsStuck
     /\ stuckFor' = NotStuck /\ UNCHANGED <<reload, svcStop, svcWake>>
  \/ /\ IsStuck /\ stuckFor = NotStuck
     /\ stuckFor' = 0 /\ UNCHANGED <<reload, svcStop, svcWake>>
  \/ /\ IsStuck /\ stuckFor < DieAfter
     /\ UNCHANGED <<stuckFor, reload, svcStop, svcWake>>
  \/ /\ IsStuck /\ stuckFor = DieAfter
     /\ stuckFor' = NotStuck
     /\ IF Mode = "worker"
        THEN reload' = TRUE /\ svcStop' = TRUE /\ svcWake' = TRUE
        ELSE UNCHANGED <<reload, svcStop, svcWake>>

\* _check_stuck, and the loop's own test of the stop event.
CheckStuck ==
  /\ proc = "up" /\ beat = "checking"
  /\ IF DieAfter = 0 THEN UNCHANGED <<stuckFor, reload, svcStop, svcWake>>
     ELSE Countdown
  /\ calm' = IF IsStuck THEN calm ELSE 0
  /\ beat' = IF svcStop' THEN "closing" ELSE "sleeping"
  /\ UNCHANGED <<active, proc, asking, loopVars, workers, threadVars, faults>>

\* Time passes, as far as the countdown is concerned.
Tick ==
  /\ proc = "up" /\ (stuckFor < DieAfter \/ calm < DieAfter)
  /\ stuckFor' = IF stuckFor < DieAfter THEN stuckFor + 1 ELSE stuckFor
  /\ calm' = IF calm < DieAfter THEN calm + 1 ELSE calm
  /\ UNCHANGED <<active, proc, beat, svcVars, loopVars, workers, reload,
                 threadVars, faults>>

\* A probe raises what _check_is_db_active does not catch.
ProbeRaises ==
  /\ Fault
  /\ BeatAt("probing", "closing") \/ BeatAt("reprobing", "closing")
  /\ UNCHANGED <<active, proc, svcVars, loopVars, workers, stuckVars, threadVars>>

\* shutdown_workers: stop them all, then join each for _shutdown_timeout.
CloseSome ==                                \* mutant: only what was seen active
  /\ BeatAt("closing", "halting") /\ todo' = Registered \cap seen
Close == BeatAt("closing", "halting") /\ todo' = Registered

ShutdownWorkers ==
  /\ Close
  /\ UNCHANGED <<active, proc, svcVars, seen, workers, stuckVars,
                 threadVars, faults>>

\* The joins return, because the workers ended or because of the timeout.
JoinWorkers ==
  /\ BeatAt("joining", "over")
  /\ UNCHANGED <<active, proc, svcVars, loopVars, workers, stuckVars, threadVars,
                 faults>>

------------------------------------------------------------------------------
\* The worker threads: AbstractBackgroundServiceWorker.run

Goes(t, from, to) ==
  /\ wpc[t] = from /\ wpc' = [wpc EXCEPT ![t] = to]
  /\ UNCHANGED <<active, proc, beat, svcVars, loopVars, workers, stuckVars, wdb,
                 wstop, half>>

\* on_init returns; the head of the loop reads the stop event; run_service
\* returns, or raises and on_error does not; the wait returns.
WorkerRuns(t) ==
  /\ \/ Goes(t, "init", "head")
     \/ Goes(t, "head", IF wstop[t] THEN "ending" ELSE "serving")
     \/ Goes(t, "serving", "sleeping")
     \/ Goes(t, "sleeping", "clearing")
  /\ UNCHANGED <<wwake, stuck, faults>>

WorkerClears(t) ==
  /\ Goes(t, "clearing", "head")
  /\ wwake' = [wwake EXCEPT ![t] = FALSE]
  /\ UNCHANGED <<stuck, faults>>

\* on_init or on_error raises.
WorkerFails(t) ==
  /\ Fault
  /\ Goes(t, "init", "ending") \/ Goes(t, "serving", "ending")
  /\ UNCHANGED <<wwake, stuck>>

\* on_shutdown returns: the thread is no longer alive.
WorkerEnds(t) ==
  /\ Goes(t, "ending", "over")
  /\ stuck' = [stuck EXCEPT ![t] = FALSE]
  /\ UNCHANGED <<wwake, faults>>

\* The tasks of the worker fill its slots with timed-out threads, or leave them.
StuckChanges(t) ==
  /\ wpc[t] \in {"serving", "sleeping"}
  /\ stuck' = [stuck EXCEPT ![t] = ~@]
  /\ UNCHANGED <<active, proc, beat, svcVars, loopVars, workers, stuckVars, wpc,
                 wdb, wstop, wwake, half, faults>>

------------------------------------------------------------------------------
BeatStep ==
  \/ BeatWait \/ BeatClear \/ BeatDecide
  \/ StopProbe \/ (\E d \in Dbs : StopWorker(d)) \/ WakeWorker \/ StopDone
  \/ CleanWorkers
  \/ SpawnProbe \/ (\E d \in Dbs, t \in Threads : SpawnWorker(d, t)) \/ SpawnDone
  \/ CheckStuck
  \/ ShutdownWorkers \/ JoinWorkers

ServerStep == StartService \/ ProcessExits \/ WorkerPop
ThreadStep(t) == WorkerRuns(t) \/ WorkerClears(t) \/ WorkerEnds(t)

Happens ==
  \/ AskStop \/ Crash \/ ProbeRaises \/ Tick
  \/ \E d \in Dbs : DbChanges(d) \/ SpawnFails(d)
  \/ \E t \in Threads : WorkerFails(t) \/ StuckChanges(t)

Next == \/ BeatStep \/ ServerStep \/ AskWake
        \/ (\E t \in Threads : ThreadStep(t)) \/ Happens

Spec == Init /\ [][Next]_vars

(* Fairness: the threads of a process run, the server spawns and reaps, and   *)
(* run_service(), on_shutdown() and the timers of the waits return.           *)
Fairness ==
  /\ WF_vars(BeatStep) /\ WF_vars(ServerStep) /\ WF_vars(AskWake)
  /\ \A t \in Threads : WF_vars(ThreadStep(t))

FairSpec == Spec /\ Fairness

------------------------------------------------------------------------------
(* Properties *)

\* Every live worker is the registered one of its database: a database never
\* has two workers, and none is out of reach of stop_workers and
\* shutdown_workers, however stops, probes and respawns interleave.
WorkersAreTracked ==
  \A t \in Threads : Alive(t) => wdb[t] \in Dbs /\ workers[wdb[t]] = t

\* A stop request is never lost to the clear of a wakeup: who sleeps with the
\* stop event set is woken, or is about to be.
StopWakes ==
  /\ beat = "sleeping" /\ svcStop => svcWake \/ asking
  /\ \A t \in Threads : wpc[t] = "sleeping" /\ wstop[t] => wwake[t] \/ half = t

\* When run() has returned, every worker that is still alive was told to stop.
ClosedWorkersStop ==
  beat = "over" => \A t \in Threads : Alive(t) => wstop[t]

\* A hard reload follows _die_on_stuck_timeout without a check that found the
\* service not stuck.
ReloadAfterWindow == [][reload' /\ ~reload => calm = DieAfter]_vars

\* A database's worker loop is started only when the one before is gone, and
\* initialised once: what the supervisor loops of TaskQueue rest on
\* (spawn_workers, clean_workers, and run of the worker).
Loop(d) ==
  LET at == {wpc[t] : t \in {u \in Threads : Alive(u) /\ wdb[u] = d}} IN
  IF at = {} THEN "down" ELSE IF "init" \in at THEN "init" ELSE "up"
Supervision == INSTANCE Supervisors WITH
  Workers <- Dbs, sup <- [d \in Dbs |-> Loop(d)]
SupervisionSpec == Supervision!Spec

\* Self-healing: a database that stays active is served again and again,
\* whatever died before.
ActiveDbServed ==
  \A d \in Dbs : <>[](d \in active) =>
                 []<>(\E t \in Threads : wdb[t] = d /\ wpc[t] = "serving")

\* A database that stays inactive loses its worker.
InactiveDbLeft ==
  \A d \in Dbs : <>[](d \notin active) => <>[](\A t \in Threads : wdb[t] = d => ~Alive(t))
==============================================================================
