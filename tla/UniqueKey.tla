------------------------------ MODULE UniqueKey ------------------------------
(***************************************************************************)
(* Idempotent creation: create_task with a unique_key, the partial unique   *)
(* index over the active states, and the retries that make a failed row     *)
(* active again.                                                            *)
(*                                                                          *)
(* A creator is a transaction of some caller, at isolation level REPEATABLE *)
(* READ: it looks for an active task of its key in its snapshot and locks   *)
(* it (FOR UPDATE), or inserts one.  The index looks at all rows: an insert *)
(* that meets one of another transaction waits for that to end, and fails   *)
(* if it commits.  The second SELECT after such a failure still reads the   *)
(* old snapshot and finds nothing.                                          *)
(*                                                                          *)
(* "running" is any of assigned, running, stuck and waiting.                *)
(***************************************************************************)
EXTENDS Naturals, FiniteSets

CONSTANTS
  Tasks, Creators, None,
  Keys, KeyOf,   \* unique_key of every task
  MaxRetries,    \* the same for all tasks
  RetryAny       \* tasks whose retry_policy is retry_any

ASSUME KeyAssumption ==
  /\ None \notin Tasks \cup Keys
  /\ KeyOf \in [Tasks -> Keys]
  /\ MaxRetries \in Nat
  /\ RetryAny \subseteq Tasks

VARIABLES
  state, retries,
  tx    \* every creator: where it is, its key, the active task it has read,
        \* whether that was written since, and the task it returns

keyVars == <<state, retries, tx>>

Active == {"pending", "running"}
States == Active \cup {"absent", "done", "failed", "cancelled"}
Idle == [pc |-> "idle", key |-> None, seen |-> None, stale |-> FALSE,
         task |-> None]

Transactions ==
  [pc : {"idle", "begun", "reused", "inserted"}, key : Keys \cup {None},
   seen : Tasks \cup {None}, stale : BOOLEAN, task : Tasks \cup {None}]

KeyTypeOK ==
  /\ state \in [Tasks -> States]
  /\ retries \in [Tasks -> 0..MaxRetries]
  /\ tx \in [Creators -> Transactions]

KeyInit ==
  /\ state = [t \in Tasks |-> "absent"]
  /\ retries = [t \in Tasks |-> 0]
  /\ tx = [c \in Creators |-> Idle]

ActiveOf(k) == {t \in Tasks : KeyOf[t] = k /\ state[t] \in Active}
Inserting(k) ==
  {c \in Creators : tx[c].pc = "inserted" /\ tx[c].key = k}

\* The row is locked by a creator that returns it.
\* Mutant: a SELECT without FOR UPDATE.
HeldByNobody(t) == FALSE

Held(t) == \E c \in Creators : tx[c].pc = "reused" /\ tx[c].task = t

\* tx after the commit of a write to the rows S.
Seen(S) == [c \in Creators |->
              IF tx[c].seen \in S THEN [tx[c] EXCEPT !.stale = TRUE]
              ELSE tx[c]]

------------------------------------------------------------------------------
\* create_task

Begin(c, k) ==
  /\ tx[c].pc = "idle"
  /\ \E t \in Tasks \cup {None} :
       /\ IF ActiveOf(k) = {} THEN t = None ELSE t \in ActiveOf(k)
       /\ tx' = [tx EXCEPT ![c] = [Idle EXCEPT !.pc = "begun", !.key = k, !.seen = t]]
  /\ UNCHANGED <<state, retries>>

\* Mutant: the row is not looked at again when it is locked.
ReuseUnseen(c) ==
  /\ tx[c].pc = "begun" /\ tx[c].seen # None
  /\ ~Held(tx[c].seen)
  /\ tx' = [tx EXCEPT ![c].pc = "reused", ![c].task = tx[c].seen]
  /\ UNCHANGED <<state, retries>>

Reuse(c) ==
  /\ tx[c].pc = "begun" /\ tx[c].seen # None
  /\ ~tx[c].stale /\ ~Held(tx[c].seen)
  /\ tx' = [tx EXCEPT ![c].pc = "reused", ![c].task = tx[c].seen]
  /\ UNCHANGED <<state, retries>>

Insert(c, t) ==
  /\ tx[c].pc = "begun" /\ tx[c].seen = None
  /\ KeyOf[t] = tx[c].key /\ state[t] = "absent"
  /\ ActiveOf(KeyOf[t]) = {} /\ Inserting(KeyOf[t]) = {}
  /\ tx' = [tx EXCEPT ![c].pc = "inserted", ![c].task = t]
  /\ UNCHANGED <<state, retries>>

Commit(c) ==
  /\ tx[c].pc \in {"reused", "inserted"}
  /\ state' = IF tx[c].pc = "reused" THEN state
              ELSE [state EXCEPT ![tx[c].task] = "pending"]
  /\ tx' = [tx EXCEPT ![c] = Idle]
  /\ UNCHANGED retries

\* UniqueViolation, SerializationFailure, AlreadyScheduledException, or the
\* caller fails for a reason of its own.
Abort(c) ==
  /\ tx[c].pc # "idle"
  /\ tx' = [tx EXCEPT ![c] = Idle]
  /\ UNCHANGED <<state, retries>>

------------------------------------------------------------------------------
\* The rows' other writers: they skip or wait for held rows

Move(t, s) ==
  /\ ~Held(t)
  /\ state' = [state EXCEPT ![t] = s]
  /\ tx' = Seen({t})

Claim(t) == state[t] = "pending" /\ Move(t, "running") /\ UNCHANGED retries
Complete(t) == state[t] = "running" /\ Move(t, "done") /\ UNCHANGED retries
Fail(t) == state[t] = "running" /\ Move(t, "failed") /\ UNCHANGED retries
Cancel(t) == state[t] \in Active /\ Move(t, "cancelled") /\ UNCHANGED retries

\* Mutant: an attempt too many.
RequeueAndOne(t) ==
  /\ state[t] = "running" /\ retries[t] <= MaxRetries
  /\ Move(t, "pending")
  /\ retries' = [retries EXCEPT ![t] = @ + 1]

Requeue(t) ==
  /\ state[t] = "running" /\ retries[t] < MaxRetries
  /\ Move(t, "pending")
  /\ retries' = [retries EXCEPT ![t] = @ + 1]

\* _action_requeue: a task that was assigned and never started.
Release(t) == state[t] = "running" /\ Move(t, "pending") /\ UNCHANGED retries

\* The index admits the rows S as active.  Mutant: a query in its place.
AdmittedByQuery(S) ==
  /\ \A t \in S : ActiveOf(KeyOf[t]) = {}
  /\ \A t, u \in S : KeyOf[t] = KeyOf[u] => t = u

Admitted(S) ==
  /\ \A t \in S : ActiveOf(KeyOf[t]) = {} /\ Inserting(KeyOf[t]) = {}
  /\ \A t, u \in S : KeyOf[t] = KeyOf[u] => t = u

\* action_retry
ManualRetry(t) ==
  /\ state[t] = "failed" /\ Admitted({t})
  /\ Move(t, "pending")
  /\ UNCHANGED retries

\* _auto_retry_failed: one transaction, undone as a whole when the index
\* refuses one of its rows.
AutoRetryFailed(S) ==
  /\ S # {}
  /\ \A t \in S : t \in RetryAny /\ state[t] = "failed"
                  /\ retries[t] < MaxRetries
  /\ Admitted(S)
  /\ state' = [t \in Tasks |-> IF t \in S THEN "pending" ELSE state[t]]
  /\ retries' = [t \in Tasks |-> IF t \in S THEN retries[t] + 1
                                 ELSE retries[t]]
  /\ tx' = Seen(S)

KeyNext ==
  \/ \E c \in Creators, k \in Keys : Begin(c, k)
  \/ \E c \in Creators, t \in Tasks : Insert(c, t)
  \/ \E c \in Creators : Reuse(c) \/ Commit(c) \/ Abort(c)
  \/ \E t \in Tasks : Claim(t) \/ Complete(t) \/ Fail(t) \/ Cancel(t)
                        \/ Requeue(t) \/ Release(t) \/ ManualRetry(t)
  \/ \E S \in SUBSET Tasks : AutoRetryFailed(S)

KeySpec == KeyInit /\ [][KeyNext]_keyVars

------------------------------------------------------------------------------
\* Properties

\* "only one task with this key may be active at a time" (create_task),
\* counting the rows that open transactions have inserted: however inserts,
\* retries of failed tasks and batches of them interleave.
OneActivePerKey ==
  \A k \in Keys :
    /\ \A t, u \in ActiveOf(k) : t = u
    /\ \A c, d \in Inserting(k) : c = d
    /\ Inserting(k) # {} => ActiveOf(k) = {}

\* Looking a key up and creating its task is as good as one step, although
\* lookup, lock, insert and commit of many callers interleave with each other
\* and with the life of the tasks (create_task).
Registry == INSTANCE KeyRegistry WITH
  current <- {t \in Tasks : state[t] \in Active},
  lease <- [c \in Creators |-> IF tx[c].pc = "reused" THEN tx[c].task ELSE None]
RegistrySpec == Registry!Spec

\* What create_task returned to a caller that has not committed yet is still
\* active, so the work that was asked for is yet to be done (create_task).
ReturnedIsActive ==
  \A c \in Creators : tx[c].pc = "reused" => state[tx[c].task] \in Active
=============================================================================
