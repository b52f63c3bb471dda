------------------------------ MODULE TaskClaim ------------------------------
(***************************************************************************)
(* claim_task: how concurrent workers take batches of pending tasks, and    *)
(* the guard that keeps singleton types ("at most one task of the type is   *)
(* assigned or running cluster-wide") from running twice.                   *)
(*                                                                          *)
(* The claim is one SELECT ... FOR UPDATE SKIP LOCKED in a transaction of   *)
(* isolation level REPEATABLE READ: its WHERE clause, with both singleton   *)
(* conditions, reads the transaction's snapshot; only then are the rows     *)
(* locked, and a row that was written since the snapshot raises             *)
(* SerializationFailure.  Rows of equal priority and date are ordered alike *)
(* by all claimers.                                                         *)
(*                                                                          *)
(* "executing" is any of assigned, running and stuck, "delayed" is pending  *)
(* with an eta in the future, "ended" any other state of a row.             *)
(***************************************************************************)
EXTENDS Naturals, FiniteSets

CONSTANTS
  Tasks, Claimers,
  TypeOf,     \* type_code of every task
  Singleton,  \* type codes whose _singleton is True
  Serves,     \* tasks whose channel and type a claimer serves
  Rank,       \* place of the task in ORDER BY priority, date_created
  Limit,      \* free slots of a claimer
  Ahead       \* whether a task may become pending ahead of others of its type:
              \* created with a higher priority, or retried

ASSUME ClaimAssumption ==
  /\ Serves \in [Claimers -> SUBSET Tasks]
  /\ Rank \in [Tasks -> Nat]
  /\ \A t, u \in Tasks : Rank[t] = Rank[u] => t = u
  /\ Limit \in Nat \ {0}
  /\ Ahead \in BOOLEAN

VARIABLES
  state,
  pc,      \* where a claimer's transaction is
  offer,   \* rows that satisfy the WHERE clause in its snapshot
  dirty,   \* those of them that were written since
  locked   \* rows it has locked

vars == <<state, pc, offer, dirty, locked>>

Queued == {"delayed", "pending"}
States == Queued \cup {"absent", "executing", "ended"}

TypeOK ==
  /\ state \in [Tasks -> States]
  /\ pc \in [Claimers -> {"idle", "read", "claimed"}]
  /\ offer \in [Claimers -> SUBSET Tasks]
  /\ dirty \in [Claimers -> SUBSET Tasks]
  /\ locked \in [Claimers -> SUBSET Tasks]
  /\ \A v, w \in Claimers : locked[v] \cap locked[w] # {} => v = w

Init ==
  /\ state = [t \in Tasks |-> "absent"]
  /\ pc = [w \in Claimers |-> "idle"]
  /\ offer = [w \in Claimers |-> {}]
  /\ dirty = [w \in Claimers |-> {}]
  /\ locked = [w \in Claimers |-> {}]

IsSingleton(t) == TypeOf[t] \in Singleton
Mates(t) == {u \in Tasks : u # t /\ TypeOf[u] = TypeOf[t]}
Locked == UNION {locked[w] : w \in Claimers}

\* The commit of a write to the rows S, seen by the snapshots of all but w.
Wrote(S) == dirty' = [w \in Claimers |-> dirty[w] \cup (offer[w] \cap S)]

------------------------------------------------------------------------------
\* The rest of the queue

\* create_task, action_retry, _action_auto_retry
Enqueue(t, s) ==
  /\ state[t] \in {"absent", "ended"} /\ s \in Queued
  /\ Ahead \/ \A u \in Mates(t) : state[u] \in Queued => Rank[u] < Rank[t]
  /\ state' = [state EXCEPT ![t] = s]
  /\ Wrote({t})
  /\ UNCHANGED <<pc, offer, locked>>

\* The eta passes: no write.
Elapse(t) ==
  /\ state[t] = "delayed"
  /\ state' = [state EXCEPT ![t] = "pending"]
  /\ UNCHANGED <<pc, offer, dirty, locked>>

\* The execution is retried by its thread or by recovery.
Requeue(t, s) ==
  /\ state[t] = "executing" /\ s \in Queued
  /\ state' = [state EXCEPT ![t] = s]
  /\ Wrote({t})
  /\ UNCHANGED <<pc, offer, locked>>

\* The execution ends, or the task is cancelled, which waits for its row.
End(t) ==
  /\ state[t] \in Queued \cup {"executing"} /\ t \notin Locked
  /\ state' = [state EXCEPT ![t] = "ended"]
  /\ Wrote({t})
  /\ UNCHANGED <<pc, offer, locked>>

------------------------------------------------------------------------------
\* claim_task

\* No task of t's type executes.
NoneExecutes(t) ==
  \A u \in Tasks : TypeOf[u] = TypeOf[t] => state[u] # "executing"

\* t is the first pending task of its type, whatever its eta and channel.
IsCanonical(t) == \A u \in Mates(t) : state[u] \in Queued => Rank[t] < Rank[u]

\* The WHERE clause.  Mutants: without one of its singleton conditions.
EligibleBeside(w) ==
  {t \in Serves[w] : state[t] = "pending" /\ (IsSingleton(t) => IsCanonical(t))}

EligibleInAnyOrder(w) ==
  {t \in Serves[w] : state[t] = "pending" /\ (IsSingleton(t) => NoneExecutes(t))}

Eligible(w) ==
  {t \in Serves[w] : /\ state[t] = "pending"
                     /\ IsSingleton(t) => NoneExecutes(t) /\ IsCanonical(t)}

Read(w) ==
  /\ pc[w] = "idle" /\ Eligible(w) # {}
  /\ pc' = [pc EXCEPT ![w] = "read"]
  /\ offer' = [offer EXCEPT ![w] = Eligible(w)]
  /\ UNCHANGED <<state, dirty, locked>>

\* The first Limit rows of the offer that nobody has locked.
\* Mutant: without SKIP LOCKED, and without waiting.
BatchOverLocks(w) ==
  {t \in offer[w] : Cardinality({u \in offer[w] : Rank[u] < Rank[t]}) < Limit}

Batch(w) ==
  LET free == offer[w] \ Locked IN
  {t \in free : Cardinality({u \in free : Rank[u] < Rank[t]}) < Limit}

\* Mutant: a row that was written since the snapshot is locked all the same.
LockBlindly(w) ==
  /\ pc[w] = "read"
  /\ pc' = [pc EXCEPT ![w] = "claimed"]
  /\ locked' = [locked EXCEPT ![w] = Batch(w)]
  /\ UNCHANGED <<state, offer, dirty>>

Lock(w) ==
  /\ pc[w] = "read"
  /\ Batch(w) \cap dirty[w] = {}
  /\ pc' = [pc EXCEPT ![w] = "claimed"]
  /\ locked' = [locked EXCEPT ![w] = Batch(w)]
  /\ UNCHANGED <<state, offer, dirty>>

Reset(w) ==
  /\ pc' = [pc EXCEPT ![w] = "idle"]
  /\ offer' = [offer EXCEPT ![w] = {}]
  /\ locked' = [locked EXCEPT ![w] = {}]

\* action_assign and the commit.
Assign(w) ==
  /\ pc[w] = "claimed"
  /\ state' = [t \in Tasks |-> IF t \in locked[w] THEN "executing"
                               ELSE state[t]]
  /\ Reset(w)
  /\ dirty' = [v \in Claimers |->
                 IF v = w THEN {} ELSE dirty[v] \cup (offer[v] \cap locked[w])]

\* SerializationFailure, or the process dies.
Rollback(w) ==
  /\ pc[w] # "idle"
  /\ Reset(w)
  /\ dirty' = [dirty EXCEPT ![w] = {}]
  /\ UNCHANGED state

Next ==
  \/ \E t \in Tasks : Elapse(t) \/ End(t)
  \/ \E t \in Tasks, s \in Queued : Enqueue(t, s) \/ Requeue(t, s)
  \/ \E w \in Claimers : Read(w) \/ Lock(w) \/ Assign(w) \/ Rollback(w)

Spec == Init /\ [][Next]_vars

------------------------------------------------------------------------------
\* Properties

\* "at most one task of that type is in the assigned or running state
\* cluster-wide" (README.rst, _singleton).  It takes two claimers with
\* different snapshots to break it, and holds as long as no task becomes
\* pending ahead of others of its type.
AtMostOneExecuting ==
  \A t, u \in Tasks :
    /\ IsSingleton(t) /\ TypeOf[t] = TypeOf[u]
    /\ state[t] = "executing" /\ state[u] = "executing"
    => t = u

\* Claims are as good as made one after the other: what a claimer read before
\* it locked and assigned is true of the rows at the moment it commits, for
\* tasks of every type (claim_task).
Claims == INSTANCE Dispatch WITH
  queued <- {t \in Tasks : state[t] \in Queued},
  pending <- {t \in Tasks : state[t] = "pending"},
  executing <- {t \in Tasks : state[t] = "executing"},
  Serial <- ~Ahead
DispatchSpec == Claims!Spec

\* Tasks of a singleton type start in the order of priority and date: none
\* overtakes one that is pending, whoever claims it (claim_task).
SingletonsInOrder ==
  [][\A t \in Tasks :
       IsSingleton(t) /\ state[t] # "executing" /\ state'[t] = "executing" =>
         \A u \in Mates(t) : state[u] \in Queued => Rank[t] < Rank[u]]_vars
=============================================================================
