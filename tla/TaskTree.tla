------------------------------ MODULE TaskTree ------------------------------
(***************************************************************************)
(* Parent tasks and their children: waves spawned by execute() and by       *)
(* on_all_children_done(), the check of waiting parents that every worker   *)
(* makes in every pass, retries of failed children, and the cancel of a     *)
(* whole tree.                                                              *)
(*                                                                          *)
(* The rows' ownership is the subject of TaskQueue: "running" here is any   *)
(* of assigned, running and stuck, and an execution that is lost ends like  *)
(* one that raises, or is requeued.                                         *)
(*                                                                          *)
(* Transactions (REPEATABLE READ).  Three stay open across the steps of     *)
(* others: the check of a parent, which holds the parent's row lock while   *)
(* user code runs in its hook; on_child_done, which reads the parent and    *)
(* only inserts below it; and a cancel request, which reads the tree and    *)
(* then writes what it read.  Once another commit wrote one of these rows,  *)
(* the write raises SerializationFailure and undoes the request: all that   *)
(* such a request still does is to end, and it does so at once.             *)
(*                                                                          *)
(* A process that dies needs no action of its own: its executions fail, its *)
(* check rolls back as a hook does that is asked again, and its             *)
(* on_child_done calls do nothing.                                          *)
(***************************************************************************)
EXTENDS Naturals, FiniteSets

CONSTANTS
  Tasks, Workers, NoTask,
  Parent,      \* the parent_id of every row
  Phases,      \* number of _phases of the row's task type; 0: no children
  Raw,         \* parents that spawn by hand, in execute() and in every hook
  Policy, MaxRetries,
  Order,       \* _order of the table: priority, then date_created
  Window,      \* how many waiting parents a pass looks at
  MaxRequests  \* bound on the users' retries and cancels together

ASSUME TreeAssumption ==
  /\ NoTask \notin Tasks
  /\ Parent \in [Tasks -> Tasks \cup {NoTask}]
  /\ \A t \in Tasks : Parent[t] # t
  /\ Phases \in [Tasks -> Nat]
  /\ Raw \subseteq {t \in Tasks : Phases[t] > 0}
  /\ Policy \in [Tasks -> {"no_retry", "retry_known", "retry_any"}]
  /\ MaxRetries \in [Tasks -> Nat]
  /\ Order \in [Tasks -> Nat]
  /\ Window \in Nat \ {0}
  /\ MaxRequests \in Nat

VARIABLES
  state, retries,
  phase,              \* phase_data['phase'] of a pipeline
  due,                \* children whose parent's on_child_done is still to run
  notifying,          \* children whose open on_child_done read the parent as
                      \* waiting
  todo,               \* waiting_ids of a worker's pass, those not yet checked
  checking, verdict,  \* open _check_waiting_parent of a worker, its decision
  request,            \* open action_cancel: the rows it will write and
                      \* the children of these that it read as active
  requests            \* counts the users' requests

rowVars   == <<state, retries, phase>>
checkVars == <<todo, checking, verdict>>
notifyVars == <<due, notifying>>
vars == <<rowVars, notifyVars, checkVars, request, requests>>

States == {"absent", "pending", "running", "waiting",
           "done", "failed", "cancelled"}
Active == {"pending", "running", "waiting"}
NoRequest == [rows |-> {}, live |-> {}]

TypeOK ==
  /\ state \in [Tasks -> States]
  /\ retries \in [Tasks -> Nat] /\ \A t \in Tasks : retries[t] <= MaxRetries[t]
  /\ phase \in [Tasks -> Nat]
  /\ due \cup notifying \in SUBSET {c \in Tasks : Parent[c] \in Raw}
  /\ todo \in [Workers -> SUBSET Tasks]
  /\ checking \in [Workers -> Tasks \cup {NoTask}]
  /\ verdict \in [Workers -> {"none", "fail", "complete"}]
  /\ request \in [rows : SUBSET Tasks, live : SUBSET Tasks]
  /\ requests \in Nat

Init ==
  /\ state = [t \in Tasks |-> "absent"]
  /\ retries = [t \in Tasks |-> 0]
  /\ phase = [t \in Tasks |-> 0]
  /\ due = {} /\ notifying = {}
  /\ todo = [w \in Workers |-> {}]
  /\ checking = [w \in Workers |-> NoTask]
  /\ verdict = [w \in Workers |-> "none"]
  /\ request = NoRequest
  /\ requests = 0

------------------------------------------------------------------------------
\* Rows

Children(p) == {c \in Tasks : Parent[c] = p}
Present(p) == {c \in Children(p) : state[c] # "absent"}
Locked(t) == \E w \in Workers : checking[w] = t
\* Mutant: an attempt too many.
HasBudgetAndOne(t) == retries[t] <= MaxRetries[t]

HasBudget(t) == retries[t] < MaxRetries[t]

\* t and, from parent to child, every child that is active: the least set
\* that has them.
\* Mutant: children that wait for children of their own are left alone.
ClosedButWaiting(t, S) ==
  /\ t \in S
  /\ \A c \in Tasks :
       Parent[c] \in S /\ state[c] \in {"pending", "running"} => c \in S

Closed(t, S) ==
  /\ t \in S
  /\ \A c \in Tasks : Parent[c] \in S /\ state[c] \in Active => c \in S
Cascade(t) == {c \in Tasks : \A S \in SUBSET Tasks : Closed(t, S) => c \in S}

\* A commit that wrote the rows S.
Wrote(S) ==
  request' = IF S \cap request.rows = {} THEN request ELSE NoRequest

\* Rows S get state s.
Put(S, s) == state' = [t \in Tasks |-> IF t \in S THEN s ELSE state[t]]

\* create_children: the wave S of p, while p itself goes to state s.
SpawnChildren(p, S, s) ==
  state' = [t \in Tasks |-> IF t \in S THEN "pending"
                            ELSE IF t = p THEN s ELSE state[t]]

\* Rows a new wave of p can consist of.
Unused(p) == {c \in Children(p) : state[c] = "absent"}

------------------------------------------------------------------------------
\* Executions

Create(t) ==
  /\ state[t] = "absent" /\ Parent[t] = NoTask
  /\ Put({t}, "pending") /\ Wrote({t})
  /\ UNCHANGED <<retries, phase, notifyVars, checkVars, requests>>

Run(t) ==
  /\ state[t] = "pending"
  /\ Put({t}, "running") /\ Wrote({t})
  /\ UNCHANGED <<retries, phase, notifyVars, checkVars, requests>>

\* execute() returns: a task without children, or a pipeline none of whose
\* phases plans any.
Finish(t) ==
  /\ state[t] = "running"
  /\ Put({t}, "done") /\ Wrote({t})
  /\ phase' = [phase EXCEPT ![t] = IF t \in Raw THEN @ ELSE Phases[t]]
  /\ due' = IF Parent[t] \in Raw THEN due \cup {t} ELSE due
  /\ UNCHANGED <<retries, notifying, checkVars, requests>>

\* execute() spawns the first phase k that plans children and waits for them,
\* all in one commit.  A raw type may wait for nothing at all.
Spawn(t, k, S) ==
  /\ state[t] = "running" /\ k < Phases[t]
  /\ S \subseteq Unused(t)
  /\ S # {} \/ t \in Raw
  /\ SpawnChildren(t, S, "waiting") /\ Wrote({t} \cup S)
  /\ phase' = [phase EXCEPT ![t] = IF t \in Raw THEN @ ELSE k]
  /\ UNCHANGED <<retries, notifyVars, checkVars, requests>>

\* execute() raises or is lost.
FailRetried(t) ==
  /\ state[t] = "running"
  /\ Policy[t] # "no_retry" /\ HasBudget(t)
  /\ Put({t}, "pending") /\ Wrote({t})
  /\ retries' = [retries EXCEPT ![t] = @ + 1]
  /\ UNCHANGED <<phase, notifyVars, checkVars, requests>>

\* _action_requeue: a task that was assigned, and never started, is lost.
Release(t) ==
  /\ state[t] = "running"
  /\ Put({t}, "pending") /\ Wrote({t})
  /\ UNCHANGED <<retries, phase, notifyVars, checkVars, requests>>

Fail(t) ==
  /\ state[t] = "running"
  /\ ~(Policy[t] = "retry_any" /\ HasBudget(t))
  /\ Put({t}, "failed") /\ Wrote({t})
  /\ UNCHANGED <<retries, phase, notifyVars, checkVars, requests>>

\* _auto_retry_failed
AutoRetry(t) ==
  /\ state[t] = "failed" /\ Policy[t] = "retry_any" /\ HasBudget(t)
  /\ Put({t}, "pending") /\ Wrote({t})
  /\ retries' = [retries EXCEPT ![t] = @ + 1]
  /\ UNCHANGED <<phase, notifyVars, checkVars, requests>>

\* Phase 3 of the thread, after its commit: _notify_parent_on_child_done of a
\* raw parent, whose hook may spawn more children.
NotifyParent(c) ==
  LET p == Parent[c] IN
  /\ c \in due /\ due' = due \ {c}
  /\ \/ UNCHANGED notifying
     \/ /\ state[p] = "waiting" /\ Unused(p) # {}
        /\ notifying' = notifying \cup {c}
  /\ UNCHANGED <<rowVars, checkVars, request, requests>>

\* The hook spawns.  The rows' foreign key waits for the lock of the parent's
\* check; that the parent is not waiting any more goes unnoticed.
SpawnMore(c) ==
  /\ c \in notifying /\ notifying' = notifying \ {c}
  /\ ~Locked(Parent[c])
  /\ \E S \in SUBSET Unused(Parent[c]) :
       S # {} /\ Put(S, "pending") /\ Wrote(S)
  /\ UNCHANGED <<retries, phase, due, checkVars, requests>>

------------------------------------------------------------------------------
\* _check_waiting_parents

\* search([('state', '=', 'waiting')], limit=Window)
Waiting == {t \in Tasks : state[t] = "waiting"}
FirstWaiting ==
  {t \in Waiting :
     Cardinality({u \in Waiting : Order[u] < Order[t]}) < Window}

Poll(w) ==
  /\ todo[w] = {} /\ checking[w] = NoTask
  /\ todo' = [todo EXCEPT ![w] = FirstWaiting]
  /\ UNCHANGED <<rowVars, notifyVars, checking, verdict, request, requests>>

\* Mutant: a child that has used up its retries counts as retriable.
FailedAndUsedUp(c) ==
  state[c] = "failed" /\ ~(Policy[c] = "retry_any" /\ retries[c] <= MaxRetries[c])

FailedForGood(c) ==
  state[c] = "failed" /\ ~(Policy[c] = "retry_any" /\ HasBudget(c))

\* Mutant: children that wait for children of their own count as settled.
InProgressNow(p) == \E c \in Children(p) : state[c] \in {"pending", "running"}

InProgress(p) == \E c \in Children(p) : state[c] \in Active
Doomed(p) == \E c \in Children(p) : FailedForGood(c)
Unsettled(p) == \E c \in Children(p) : state[c] = "failed"

\* The row is locked, no longer waiting, or its children are not settled.
Passes(w, p) ==
  /\ checking[w] = NoTask /\ p \in todo[w]
  /\ \/ state[p] # "waiting" \/ Locked(p)
     \/ InProgress(p)
     \/ ~Doomed(p) /\ Unsettled(p)
  /\ todo' = [todo EXCEPT ![w] = @ \ {p}]
  /\ UNCHANGED <<rowVars, notifyVars, checking, verdict, request, requests>>

CanCheck(w, p) ==
  /\ checking[w] = NoTask /\ p \in todo[w]
  /\ state[p] = "waiting" /\ ~Locked(p)

\* No children at all: done at once, no hook.
CompleteChildless(w, p) ==
  /\ CanCheck(w, p) /\ Present(p) = {}
  /\ todo' = [todo EXCEPT ![w] = @ \ {p}]
  /\ Put({p}, "done") /\ Wrote({p})
  /\ UNCHANGED <<retries, phase, notifyVars, checking, verdict, requests>>

\* The children are settled: the hook of the decision starts, under the lock.
Decide(w, p) ==
  /\ CanCheck(w, p) /\ Present(p) # {}
  /\ ~InProgress(p)
  /\ Doomed(p) \/ ~Unsettled(p)
  /\ todo' = [todo EXCEPT ![w] = @ \ {p}]
  /\ checking' = [checking EXCEPT ![w] = p]
  /\ verdict' = [verdict EXCEPT ![w] = IF Doomed(p) THEN "fail"
                                       ELSE "complete"]
  /\ UNCHANGED <<rowVars, notifyVars, request, requests>>

Close(w) ==
  /\ checking' = [checking EXCEPT ![w] = NoTask]
  /\ verdict' = [verdict EXCEPT ![w] = "none"]
  /\ UNCHANGED todo

\* on_failure and action_fail, because of the children or because
\* on_all_children_done raised.
FailParent(w, p) ==
  /\ checking[w] = p
  /\ Put({p}, "failed") /\ Wrote({p})
  /\ Close(w)
  /\ UNCHANGED <<retries, phase, notifyVars, requests>>

\* on_all_children_done plans the next phase that has children, or spawns by
\* hand; the parent stays waiting because the re-read finds them.  A pipeline
\* writes its phase_data; a raw parent is not written, so a cancel of it goes on.
NextWave(w, p, k, S) ==
  /\ checking[w] = p /\ verdict[w] = "complete"
  /\ k < Phases[p]
  /\ IF p \in Raw THEN k = phase[p] ELSE phase[p] < k
  /\ S \subseteq Unused(p) /\ S # {}
  /\ SpawnChildren(p, S, "waiting")
  /\ Wrote(IF p \in Raw THEN S ELSE {p} \cup S)
  /\ phase' = [phase EXCEPT ![p] = k]
  /\ Close(w)
  /\ UNCHANGED <<retries, notifyVars, requests>>

\* No phase is left, or none plans children: action_done.
CompleteParent(w, p) ==
  /\ checking[w] = p /\ verdict[w] = "complete"
  /\ Put({p}, "done") /\ Wrote({p})
  /\ phase' = [phase EXCEPT ![p] = IF p \in Raw THEN @ ELSE Phases[p]]
  /\ Close(w)
  /\ UNCHANGED <<retries, notifyVars, requests>>

\* The hook raised RetryTask, or a transient error or the end of the process
\* rolled the check back: asked again in a later pass.
HookAsksAgain(w, p) ==
  /\ checking[w] = p
  /\ Close(w)
  /\ UNCHANGED <<rowVars, notifyVars, request, requests>>

------------------------------------------------------------------------------
\* Users

\* action_retry
ManualRetry(t) ==
  /\ requests < MaxRequests /\ requests' = requests + 1
  /\ state[t] = "failed"
  /\ Put({t}, "pending") /\ Wrote({t})
  /\ UNCHANGED <<retries, phase, notifyVars, checkVars>>

BeginCancel(t) ==
  /\ requests < MaxRequests /\ requests' = requests + 1
  /\ request = NoRequest
  /\ state[t] \in Active \cup {"failed"}
  /\ request' = [rows |-> Cascade(t),
                 live |-> {c \in Tasks : Parent[c] \in Cascade(t)
                                         /\ state[c] \in Active}]
  /\ UNCHANGED <<rowVars, notifyVars, checkVars>>

\* action_cancel waits for the locks of checks.
CommitCancel ==
  /\ request # NoRequest
  /\ \A t \in request.rows : ~Locked(t)
  /\ Put(request.rows, "cancelled")
  /\ request' = NoRequest
  /\ UNCHANGED <<retries, phase, notifyVars, checkVars, requests>>

Execution(t) ==
  \/ Finish(t) \/ FailRetried(t) \/ Release(t) \/ Fail(t)
  \/ \E k \in 0..Phases[t], S \in SUBSET Tasks : Spawn(t, k, S)

\* The hook comes to an end other than asking again.
Settle(w, p) ==
  \/ FailParent(w, p) \/ CompleteParent(w, p)
  \/ \E k \in 0..Phases[p], S \in SUBSET Tasks : NextWave(w, p, k, S)

Check(w) ==
  \E p \in Tasks :
    Passes(w, p) \/ CompleteChildless(w, p) \/ Decide(w, p)
      \/ Settle(w, p) \/ HookAsksAgain(w, p)

Users ==
  \/ \E t \in Tasks : Create(t) \/ ManualRetry(t) \/ BeginCancel(t)
  \/ CommitCancel

Next ==
  \/ Users
  \/ \E t \in Tasks : Run(t) \/ Execution(t) \/ AutoRetry(t)
                        \/ NotifyParent(t) \/ SpawnMore(t)
  \/ \E w \in Workers : Poll(w) \/ Check(w)

TreeSpec == Init /\ [][Next]_vars

\* Workers poll and retry in every pass, pending tasks are claimed, requests
\* end, a hook does not ask to be called again for ever, and a task is not
\* requeued for ever before it starts.  An execution may always end as Finish
\* does and a check as FailParent does: fairness of these says no more than
\* that they end, in whatever way.
Fairness ==
  /\ \A t \in Tasks :
       /\ WF_vars(Run(t) \/ AutoRetry(t))
       /\ SF_vars(Finish(t) \/ \E w \in Workers : FailParent(w, t))
  /\ \A w \in Workers :
       /\ WF_vars(Poll(w))
       /\ WF_vars(\E p \in Tasks : Passes(w, p) \/ CompleteChildless(w, p)
                                    \/ Decide(w, p) \/ FailParent(w, p))
  /\ WF_vars(CommitCancel)

Spec == TreeSpec /\ Fairness

------------------------------------------------------------------------------
\* Properties

\* A parent goes on to its next wave, or to done, only when none of its
\* children is live, however polls, retries and spawns interleave
\* (_check_waiting_parent).
Barrier == INSTANCE ChildBarrier WITH
  live <- {t \in Tasks : state[t] \in Active},
  waiting <- Waiting,
  done <- {t \in Tasks : state[t] = "done"}
BarrierSpec == Barrier!Spec

\* A cancel takes with it every child that it found active: one of them that
\* somebody wrote meanwhile undoes all of it (action_cancel).
CancelIsAtomic ==
  [][\A p \in Tasks :
       state[p] # "cancelled" /\ state'[p] = "cancelled" =>
         \A c \in Children(p) :
           c \in request.live => state'[c] = "cancelled"]_vars

\* A waiting parent is decided in the end, however deep the tree
\* (_check_waiting_parents).
WaitingResolves ==
  \A p \in Tasks : state[p] = "waiting" ~> state[p] # "waiting"

\* "Check waiting parent tasks and complete them if all children are done"
\* (_check_waiting_parents): false once Window parents wait for parents that
\* the search orders after them.
CompletedWhenChildrenDone ==
  \A p \in Tasks :
    /\ state[p] = "waiting" /\ Present(p) # {}
    /\ \A c \in Present(p) : state[c] = "done"
    ~> state[p] # "waiting"
=============================================================================
