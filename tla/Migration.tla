------------------------------ MODULE Migration ------------------------------
(***************************************************************************)
(* Background migrations over keyed tasks: the record of a migration, the   *)
(* upgrade that schedules it (or the administrator who forces it), and the  *)
(* hooks of its task that mark the record.                                  *)
(*                                                                          *)
(* A creator of UniqueKey whose key is a migration is such a schedule: it   *)
(* reads the record with its snapshot and writes it when it commits.  A     *)
(* hook writes the record in a transaction that has read before: execute()  *)
(* with on_success, the failure handler or a recovery with on_failure.  A   *)
(* write over one that was committed since raises SerializationFailure: the *)
(* schedule fails, the hook is undone and its error swallowed, while the    *)
(* task ends all the same.  A hook runs before action_done or action_fail,  *)
(* and stays when these drop the result.                                    *)
(***************************************************************************)
EXTENDS UniqueKey

CONSTANT Migrations    \* keys that are migrations

ASSUME MigrationAssumption ==
  /\ Migrations \subseteq Keys
  /\ Creators \cap Tasks = {}

VARIABLES
  record,    \* state of the migration's record, "none" without one
  seenDone,  \* open schedules that have read the record as done
  threads,   \* tasks that a thread executes
  outdated,  \* open schedules and threads whose record was written since
             \* their snapshot
  skipped    \* history: migrations with a task that was cancelled, or a hook
             \* or a schedule that was undone and its error swallowed, since
             \* the last schedule that went through

migVars == <<record, seenDone, threads, outdated, skipped>>
vars == <<keyVars, migVars>>

TypeOK ==
  /\ KeyTypeOK
  /\ record \in [Keys -> {"none", "pending", "failed", "done"}]
  /\ seenDone \in SUBSET Creators
  /\ threads \in SUBSET Tasks
  /\ outdated \in SUBSET (Creators \cup Tasks)
  /\ skipped \in SUBSET Migrations

Init ==
  /\ KeyInit
  /\ record = [k \in Keys |-> "none"]
  /\ seenDone = {} /\ threads = {} /\ outdated = {} /\ skipped = {}

IsMigration(t) == KeyOf[t] \in Migrations

\* Open transactions that have read the record of k.
Readers(k) == {c \in Creators : tx[c].key = k}
              \cup {t \in threads : KeyOf[t] = k}

\* _mark_migration of the task t: nobody has written the record since the
\* snapshot of the transaction.
Mark(t, s) ==
  IF IsMigration(t)
  THEN /\ record' = [record EXCEPT ![KeyOf[t]] = s]
       /\ outdated' = (outdated \cup Readers(KeyOf[t])) \ {t}
  ELSE UNCHANGED record /\ outdated' = outdated \ {t}

\* The write of the hook fails, its savepoint is rolled back, nobody is told.
HookUndone(t) ==
  /\ IsMigration(t)
  /\ skipped' = skipped \cup {KeyOf[t]}
  /\ outdated' = outdated \ {t}
  /\ UNCHANGED record

\* on_failure, in the failure handler or in a recovery.  Their transactions are
\* one step here: a schedule that commits in the middle of one is a schedule
\* that has just committed, after the hook's snapshot or before it.
OnFailure(t) ==
  \/ Mark(t, "failed") /\ UNCHANGED skipped
  \/ HookUndone(t)

------------------------------------------------------------------------------
\* _schedule_migration, action_force_reschedule

BeginSchedule(c, k) ==
  /\ Begin(c, k)
  /\ seenDone' = IF record[k] = "done" THEN seenDone \cup {c} ELSE seenDone
  /\ UNCHANGED <<record, threads, outdated, skipped>>

\* A record that is done needs no task.
Enqueue(c) ==
  /\ c \notin seenDone
  /\ Reuse(c) \/ \E t \in Tasks : Insert(c, t)
  /\ UNCHANGED migVars

\* Mutant: the record is written whatever happened to it.
CommitOldSchedule(c) ==
  LET k == tx[c].key IN
  /\ Commit(c)
  /\ IF k \in Migrations
     THEN /\ record' = [record EXCEPT ![k] = "pending"]
          /\ outdated' = (outdated \cup Readers(k)) \ {c}
          /\ skipped' = skipped \ {k}
     ELSE UNCHANGED <<record, outdated, skipped>>
  /\ UNCHANGED <<seenDone, threads>>

CommitSchedule(c) ==
  LET k == tx[c].key IN
  /\ Commit(c)
  /\ IF k \in Migrations
     THEN /\ c \notin outdated
          /\ record' = [record EXCEPT ![k] = "pending"]
          /\ outdated' = (outdated \cup Readers(k)) \ {c}
          /\ skipped' = skipped \ {k}
     ELSE UNCHANGED <<record, outdated, skipped>>
  /\ UNCHANGED <<seenDone, threads>>

\* _enqueue_task raises, for a UniqueViolation rolled back to its savepoint or
\* an error of its own: _schedule_module_migrations swallows the error, and the
\* record that was written is committed without a task.
SwallowSchedule(c) ==
  LET k == tx[c].key IN
  /\ tx[c].pc = "begun" /\ Abort(c) /\ k \in Migrations
  /\ c \notin seenDone /\ c \notin outdated
  /\ record' = [record EXCEPT ![k] = "pending"]
  /\ outdated' = (outdated \cup Readers(k)) \ {c}
  /\ skipped' = skipped \cup {k}
  /\ UNCHANGED <<seenDone, threads>>

\* The whole transaction is rolled back.
AbortSchedule(c) ==
  /\ Abort(c)
  /\ seenDone' = seenDone \ {c} /\ outdated' = outdated \ {c}
  /\ UNCHANGED <<record, threads, skipped>>

------------------------------------------------------------------------------
\* Executions

Start(t) ==
  /\ t \notin threads
  /\ Claim(t)
  /\ threads' = threads \cup {t}
  /\ UNCHANGED <<record, seenDone, outdated, skipped>>

\* _acquire_finalization fails: the row is another's now, or held.
Dropped(t) ==
  /\ state[t] # "running" \/ Held(t)
  /\ UNCHANGED keyVars

\* execute() returns; on_success, then action_done.
Returns(t) ==
  /\ t \in threads /\ threads' = threads \ {t}
  /\ Complete(t) \/ Dropped(t)
  /\ IF t \in outdated THEN HookUndone(t)
     ELSE Mark(t, "done") /\ UNCHANGED skipped
  /\ UNCHANGED seenDone

\* execute() raises a transient error that is retried.
Retries(t) ==
  /\ t \in threads /\ threads' = threads \ {t}
  /\ retries[t] < MaxRetries
  /\ Requeue(t) \/ Dropped(t)
  /\ outdated' = outdated \ {t}
  /\ UNCHANGED <<record, seenDone, skipped>>

\* execute() raises for good; on_failure, then action_fail.
Raises(t) ==
  /\ t \in threads /\ threads' = threads \ {t}
  /\ Fail(t) \/ Dropped(t)
  /\ OnFailure(t)
  /\ UNCHANGED seenDone

\* The process dies.
Dies(t) ==
  /\ t \in threads /\ threads' = threads \ {t}
  /\ outdated' = outdated \ {t}
  /\ UNCHANGED <<keyVars, record, seenDone, skipped>>

\* Mutant: a recovered task fails without its hook.
RecoverSilently(t) ==
  /\ t \notin threads
  /\ Requeue(t) \/ (~(retries[t] < MaxRetries) /\ Fail(t))
  /\ UNCHANGED migVars

\* Mutant: the row is taken from a thread that still executes it.
RecoverAnyway(t) ==
  /\ \/ (Requeue(t) \/ Release(t)) /\ UNCHANGED <<record, outdated, skipped>>
     \/ ~(retries[t] < MaxRetries) /\ Fail(t) /\ OnFailure(t)
  /\ UNCHANGED <<seenDone, threads>>

\* _handle_lost_execution.  Assumed, not checked by the code: the thread of the
\* row is gone.
Recover(t) ==
  /\ t \notin threads
  /\ \/ (Requeue(t) \/ Release(t)) /\ UNCHANGED <<record, outdated, skipped>>
     \/ ~(retries[t] < MaxRetries) /\ Fail(t) /\ OnFailure(t)
  /\ UNCHANGED <<seenDone, threads>>

\* action_cancel runs no hook.
CancelTask(t) ==
  /\ Cancel(t)
  /\ skipped' = skipped \cup ({KeyOf[t]} \cap Migrations)
  /\ UNCHANGED <<record, seenDone, threads, outdated>>

Retry ==
  /\ \/ \E t \in Tasks : ManualRetry(t)
     \/ \E S \in SUBSET Tasks : AutoRetryFailed(S)
  /\ UNCHANGED migVars

Next ==
  \/ \E c \in Creators, k \in Keys : BeginSchedule(c, k)
  \/ \E c \in Creators : \/ Enqueue(c) \/ CommitSchedule(c)
                           \/ SwallowSchedule(c) \/ AbortSchedule(c)
  \/ \E t \in Tasks : Start(t) \/ Returns(t) \/ Retries(t) \/ Raises(t)
                        \/ Dies(t) \/ Recover(t) \/ CancelTask(t)
  \/ Retry

Spec == Init /\ [][Next]_vars

------------------------------------------------------------------------------
\* Properties

\* A migration that is done is never scheduled again, not even by an upgrade
\* or an administrator who read it before it was done (_schedule_migration).
DoneIsNotScheduled ==
  [][\A k \in Migrations : record[k] = "done" =>
       /\ record'[k] # "pending"
       /\ \A t \in Tasks :
            KeyOf[t] = k /\ state[t] = "absent" => state'[t] = "absent"]_vars

\* A migration is not run by two threads at a time, however often it is
\* scheduled, lost, recovered and retried, as long as nobody cancels the task
\* of one of them (a cancel frees the key and leaves the thread running), and
\* recovery takes a row only when its thread is gone: no worker misses its
\* heartbeats while its threads live, be it starved, leaving or started again in
\* its process (_schedule_migration, create_task).
OneExecution ==
  \A t, u \in threads :
    KeyOf[t] = KeyOf[u] /\ "cancelled" \notin {state[t], state[u]} => t = u

\* "pending -- waiting to run or actively executing" (field state): a pending
\* record has an active task from every schedule on, whatever fails or is
\* retried, until a task is cancelled, or a hook or a later schedule is undone and
\* its error swallowed.
PendingHasTask ==
  \A k \in Migrations \ skipped : record[k] = "pending" => ActiveOf(k) # {}
=============================================================================
