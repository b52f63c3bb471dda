--------------------------- MODULE TaskTreeProofs ---------------------------
(***************************************************************************)
(* Trees of tasks for every shape of the tree, number of workers, window    *)
(* and number of users' requests.  The inductive invariant says what an     *)
(* open transaction may rely on: the parent that a worker checks is still   *)
(* waiting, nobody else checks it and, when it is about to complete, its    *)
(* children are still settled; the rows of an open cancel can still be      *)
(* cancelled, and every active child of one of them is one of them.         *)
(***************************************************************************)
EXTENDS TaskTree, TLAPS

Settled(c) == state[c] \in {"absent", "done", "cancelled"}

Checks ==
  \A w \in Workers :
    /\ checking[w] # NoTask => state[checking[w]] = "waiting"
    /\ verdict[w] = "complete" =>
         checking[w] # NoTask /\ \A c \in Children(checking[w]) : Settled(c)
    /\ \A v \in Workers :
         checking[w] # NoTask /\ checking[v] = checking[w] => v = w

Cancels ==
  /\ \A t \in request.rows : state[t] \in Active \cup {"failed"}
  /\ \A c \in request.live : Parent[c] \in request.rows => c \in request.rows

IInv == TypeOK /\ Checks /\ Cancels

------------------------------------------------------------------------------
\* What a commit does to the open transactions of others

LEMMA WroteCancels ==
  ASSUME TypeOK, Cancels, NEW S \in SUBSET Tasks, Wrote(S),
         \A t \in Tasks \ S : state'[t] = state[t]
  PROVE  /\ Cancels'
         /\ request' \in [rows : SUBSET Tasks, live : SUBSET Tasks]
BY DEF TypeOK, Cancels, Wrote, NoRequest

\* The checks that stay open keep their row and their settled children.
LEMMA ChecksKeep ==
  ASSUME TypeOK, Checks,
         \A v \in Workers :
           \/ checking'[v] = NoTask /\ verdict'[v] = "none"
           \/ checking'[v] = checking[v] /\ verdict'[v] = verdict[v],
         \A v \in Workers : checking'[v] # NoTask /\ checking[v] # NoTask =>
           /\ state'[checking[v]] = state[checking[v]]
           /\ \A c \in Children(checking[v]) : Settled(c) => Settled(c)'
  PROVE  Checks'
BY DEF Checks, Children

\* A commit of one row that is not locked and stays unsettled or becomes so
\* under no lock of its parent.
LEMMA OneRow ==
  ASSUME IInv, NEW t \in Tasks, NEW s \in States, ~Locked(t),
         Settled(t) => s \in {"absent", "done", "cancelled"}
                       \/ Parent[t] = NoTask,
         Put({t}, s), Wrote({t}), UNCHANGED <<checking, verdict>>
  PROVE  /\ state' = [state EXCEPT ![t] = s]
         /\ state' \in [Tasks -> States]
         /\ request' \in [rows : SUBSET Tasks, live : SUBSET Tasks]
         /\ Checks' /\ Cancels'
<1> USE DEF IInv
<1>1. state' = [state EXCEPT ![t] = s]
  BY DEF Put, TypeOK
<1>2. state' \in [Tasks -> States]
  BY <1>1 DEF TypeOK
<1>3. \A v \in Workers : checking[v] # NoTask =>
        /\ state'[checking[v]] = state[checking[v]]
        /\ \A c \in Children(checking[v]) : Settled(c) => Settled(c)'
  BY <1>1 DEF Locked, Children, Settled, TypeOK
<1>4. Checks'
  BY <1>3, ChecksKeep
<1> QED
  BY <1>1, <1>2, <1>4, WroteCancels

\* A commit of a new wave S of p.
LEMMA NewRows ==
  ASSUME IInv, NEW p \in Tasks, NEW S \in SUBSET Unused(p), NEW R \in SUBSET {p},
         R # {} => ~Settled(p), Wrote(R \cup S),
         \A c \in S : state'[c] = "pending",
         \A t \in Tasks \ (R \cup S) : state'[t] = state[t],
         \A v \in Workers :
           \/ checking'[v] = NoTask /\ verdict'[v] = "none"
           \/ checking'[v] = checking[v] /\ verdict'[v] = verdict[v],
         \A v \in Workers : checking[v] = p => checking'[v] = NoTask
  PROVE  /\ request' \in [rows : SUBSET Tasks, live : SUBSET Tasks]
         /\ Checks' /\ Cancels'
<1> USE TreeAssumption DEF IInv
<1>1. \A v \in Workers : checking'[v] # NoTask /\ checking[v] # NoTask =>
        /\ state'[checking[v]] = state[checking[v]]
        /\ \A c \in Children(checking[v]) : Settled(c) => Settled(c)'
  <2> SUFFICES ASSUME NEW v \in Workers, checking'[v] # NoTask,
                      checking[v] # NoTask
               PROVE  /\ state'[checking[v]] = state[checking[v]]
                      /\ \A c \in Children(checking[v]) :
                           Settled(c) => Settled(c)'
    OBVIOUS
  <2>1. checking[v] # p /\ checking[v] \in Tasks /\ state[checking[v]] = "waiting"
    BY DEF TypeOK, Checks
  <2>2. state'[checking[v]] = state[checking[v]]
    BY <2>1 DEF Unused
  <2>3. \A c \in Children(checking[v]) : c \notin S
    BY <2>1 DEF Unused, Children
  <2>4. \A c \in Children(checking[v]) : Settled(c) => Settled(c)'
    <3> SUFFICES ASSUME NEW c \in Children(checking[v]), Settled(c)
                 PROVE  Settled(c)'
      OBVIOUS
    <3>1. CASE c \in R
      BY <2>1, <3>1 DEF Settled
    <3>2. CASE c \notin R
      BY <2>3, <3>2 DEF Settled, Children
    <3> QED
      BY <3>1, <3>2
  <2> QED
    BY <2>2, <2>4
<1>2. Checks'
  BY <1>1, ChecksKeep
<1> QED
  BY <1>2, WroteCancels DEF Unused, Children

------------------------------------------------------------------------------
\* Every step keeps the invariant

LEMMA InitInv == Init => IInv
BY TreeAssumption DEF Init, IInv, TypeOK, Checks, Cancels, States, NoRequest

LEMMA RowInv ==
  ASSUME IInv, NEW t \in Tasks, Create(t) \/ Run(t) \/ Finish(t)
                 \/ FailRetried(t) \/ Release(t) \/ Fail(t)
                 \/ AutoRetry(t) \/ ManualRetry(t)
  PROVE  IInv'
<1> USE TreeAssumption DEF IInv
<1>1. state[t] # "waiting"
  BY DEF Create, Run, Finish, FailRetried, Release, Fail, AutoRetry, ManualRetry
<1>2. ~Locked(t)
  BY <1>1 DEF Locked, Checks
<1>3. PICK s \in States : /\ Put({t}, s) /\ Wrote({t})
                          /\ UNCHANGED <<todo, checking, verdict>>
                          /\ Settled(t) => Parent[t] = NoTask
  BY DEF Create, Run, Finish, FailRetried, Release, Fail, AutoRetry, ManualRetry,
         States, checkVars, Settled
<1>4. /\ state' \in [Tasks -> States]
      /\ request' \in [rows : SUBSET Tasks, live : SUBSET Tasks]
      /\ Checks' /\ Cancels'
  BY <1>2, <1>3, OneRow
<1>5. /\ retries' \in [Tasks -> Nat]
      /\ \A u \in Tasks : retries'[u] <= MaxRetries[u]
  BY DEF Create, Run, Finish, FailRetried, Release, Fail, AutoRetry, ManualRetry,
         TypeOK,
         HasBudget
<1>6. /\ phase' \in [Tasks -> Nat] /\ requests' \in Nat
      /\ due' \cup notifying' \in SUBSET {c \in Tasks : Parent[c] \in Raw}
  BY DEF Create, Run, Finish, FailRetried, Release, Fail, AutoRetry, ManualRetry,
         TypeOK, notifyVars
<1> QED
  BY <1>3, <1>4, <1>5, <1>6 DEF TypeOK

LEMMA SpawnInv ==
  ASSUME IInv, NEW t \in Tasks, NEW k \in Nat, NEW S, Spawn(t, k, S)
  PROVE  IInv'
<1> USE TreeAssumption DEF IInv, Spawn
<1>1. /\ \A c \in S : state'[c] = "pending"
      /\ \A u \in Tasks \ ({t} \cup S) : state'[u] = state[u]
      /\ state' \in [Tasks -> States]
  BY DEF SpawnChildren, TypeOK, States, Unused, Children
<1>2. \A v \in Workers : checking[v] # t
  BY DEF Checks
<1>3. /\ request' \in [rows : SUBSET Tasks, live : SUBSET Tasks]
      /\ Checks' /\ Cancels'
  BY <1>1, <1>2, NewRows DEF checkVars, Settled
<1> QED
  BY <1>1, <1>3 DEF TypeOK, checkVars, notifyVars

LEMMA NotifyInv ==
  ASSUME IInv, NEW c \in Tasks, NotifyParent(c) \/ SpawnMore(c)
  PROVE  IInv'
<1> USE TreeAssumption DEF IInv
<1>1. CASE NotifyParent(c)
  BY <1>1 DEF NotifyParent, rowVars, checkVars, TypeOK, Checks, Cancels, Settled
<1>2. CASE SpawnMore(c)
  <2>1. PICK S \in SUBSET Unused(Parent[c]) : Put(S, "pending") /\ Wrote(S)
    BY <1>2 DEF SpawnMore
  <2>2. /\ \A d \in S : state'[d] = "pending"
        /\ \A u \in Tasks \ S : state'[u] = state[u]
        /\ state' \in [Tasks -> States]
    BY <2>1 DEF Put, TypeOK, States, Unused, Children
  <2>3. /\ Parent[c] \in Tasks
        /\ \A v \in Workers : checking[v] # Parent[c]
        /\ UNCHANGED <<checking, verdict>>
    BY <1>2 DEF Locked, SpawnMore, checkVars, TypeOK
  <2>4. /\ request' \in [rows : SUBSET Tasks, live : SUBSET Tasks]
        /\ Checks' /\ Cancels'
    <3>1. {} \in SUBSET {Parent[c]} /\ Wrote({} \cup S)
      BY <2>1
    <3>2. \A u \in Tasks \ ({} \cup S) : state'[u] = state[u]
      BY <2>2
    <3> HIDE DEF IInv
    <3> QED
      BY <2>1, <2>2, <2>3, <3>1, <3>2, NewRows
  <2> QED
    BY <1>2, <2>2, <2>4 DEF SpawnMore, checkVars, TypeOK
<1> QED
  BY <1>1, <1>2

\* The steps of a pass that write no row.
LEMMA PassInv ==
  ASSUME IInv, NEW w \in Workers,
         Poll(w) \/ \E p \in Tasks : \/ Passes(w, p) \/ Decide(w, p)
                                     \/ HookAsksAgain(w, p)
  PROVE  IInv'
<1> USE TreeAssumption DEF IInv
<1>1. CASE Poll(w)
  BY <1>1 DEF Poll, FirstWaiting, Waiting, TypeOK, Checks, Cancels, Settled, notifyVars,
              rowVars
<1>2. CASE \E p \in Tasks : Passes(w, p)
  BY <1>2 DEF Passes, TypeOK, Checks, Cancels, Settled, rowVars, notifyVars
<1>3. CASE \E p \in Tasks : Decide(w, p)
  <2>1. PICK p \in Tasks : Decide(w, p)
    BY <1>3
  <2>2. TypeOK' /\ Cancels'
    BY <2>1 DEF Decide, TypeOK, Cancels, rowVars, notifyVars
  <2>3. verdict'[w] = "complete" => \A c \in Children(p) : Settled(c)
    BY <2>1 DEF Decide, TypeOK, InProgress, Doomed, Unsettled, Settled, Children,
                States, Active
  <2>4. /\ checking'[w] = p /\ state[p] = "waiting" /\ ~Locked(p)
        /\ \A v \in Workers \ {w} :
             checking'[v] = checking[v] /\ verdict'[v] = verdict[v]
        /\ state' = state
    BY <2>1 DEF Decide, CanCheck, TypeOK, rowVars
  <2>5. Checks'
    BY <2>3, <2>4 DEF Checks, Locked, Settled
  <2> QED
    BY <2>2, <2>5
<1>4. CASE \E p \in Tasks : HookAsksAgain(w, p)
  BY <1>4 DEF HookAsksAgain, Close, TypeOK, Checks, Cancels, Settled, rowVars, notifyVars
<1> QED
  BY <1>1, <1>2, <1>3, <1>4

LEMMA ChildlessInv ==
  ASSUME IInv, NEW w \in Workers, NEW p \in Tasks, CompleteChildless(w, p)
  PROVE  IInv'
<1> USE TreeAssumption DEF IInv, CompleteChildless
<1>1. /\ state' \in [Tasks -> States]
      /\ request' \in [rows : SUBSET Tasks, live : SUBSET Tasks]
      /\ Checks' /\ Cancels'
  BY OneRow DEF CanCheck, States, Settled
<1> QED
  BY <1>1 DEF TypeOK, notifyVars

\* The check of w ends with a write of its row.
LEMMA SettleInv ==
  ASSUME IInv, NEW w \in Workers, NEW p \in Tasks,
         FailParent(w, p) \/ CompleteParent(w, p)
  PROVE  IInv'
<1> USE TreeAssumption DEF IInv
<1>1. checking[w] = p /\ Close(w) /\ Wrote({p}) /\ state[p] = "waiting"
  BY DEF FailParent, CompleteParent, Checks
<1>2. PICK s \in {"failed", "done"} : Put({p}, s)
  BY DEF FailParent, CompleteParent
<1>3. /\ state' \in [Tasks -> States]
      /\ \A u \in Tasks \ {p} : state'[u] = state[u]
  BY <1>2 DEF Put, States, TypeOK
<1>4. \A v \in Workers : /\ checking'[v] = IF v = w THEN NoTask ELSE checking[v]
                         /\ verdict'[v] = IF v = w THEN "none" ELSE verdict[v]
  BY <1>1 DEF Close, TypeOK
<1>5. \A v \in Workers : checking'[v] # NoTask =>
        /\ state'[checking[v]] = state[checking[v]]
        /\ \A c \in Children(checking[v]) : Settled(c) => Settled(c)'
  BY <1>1, <1>3, <1>4 DEF Checks, Children, Settled, TypeOK
<1>6. Checks'
  BY <1>4, <1>5, ChecksKeep
<1>7. /\ request' \in [rows : SUBSET Tasks, live : SUBSET Tasks]
      /\ Cancels'
  BY <1>1, <1>3, WroteCancels
<1>8. /\ UNCHANGED <<retries, notifyVars, requests>>
      /\ phase' \in [Tasks -> Nat]
  BY DEF FailParent, CompleteParent, TypeOK, notifyVars
<1>9. /\ checking' \in [Workers -> Tasks \cup {NoTask}]
      /\ verdict' \in [Workers -> {"none", "fail", "complete"}]
      /\ todo' = todo
  BY <1>1 DEF Close, TypeOK
<1> QED
  BY <1>3, <1>6, <1>7, <1>8, <1>9 DEF TypeOK, notifyVars

LEMMA WaveInv ==
  ASSUME IInv, NEW w \in Workers, NEW p \in Tasks, NEW k \in Nat, NEW S,
         NextWave(w, p, k, S)
  PROVE  IInv'
<1> USE TreeAssumption DEF IInv, NextWave
<1>1. /\ \A c \in S : state'[c] = "pending"
      /\ \A u \in Tasks \ ({p} \cup S) : state'[u] = state[u]
      /\ state' \in [Tasks -> States]
  BY DEF SpawnChildren, TypeOK, States, Unused, Children
<1>2. ~Settled(p) /\ \A v \in Workers : checking[v] = p => v = w
  BY DEF Checks, Settled
<1>3. \A v \in Workers : /\ checking'[v] = IF v = w THEN NoTask ELSE checking[v]
                         /\ verdict'[v] = IF v = w THEN "none" ELSE verdict[v]
  BY DEF Close, TypeOK
<1>4. /\ request' \in [rows : SUBSET Tasks, live : SUBSET Tasks]
      /\ Checks' /\ Cancels'
  <2> DEFINE R == IF p \in Raw THEN {} ELSE {p}
  <2>1. R \in SUBSET {p} /\ S \in SUBSET Unused(p)
    OBVIOUS
  <2>2. R \cup S = IF p \in Raw THEN S ELSE {p} \cup S
    OBVIOUS
  <2>3. Wrote(R \cup S)
    BY <2>2
  <2>4. state'[p] = state[p]
    BY DEF Checks, SpawnChildren, Unused
  <2>5. \A u \in Tasks \ (R \cup S) : state'[u] = state[u]
    BY <1>1, <2>4
  <2>6. \A v \in Workers :
          /\ \/ checking'[v] = NoTask /\ verdict'[v] = "none"
             \/ checking'[v] = checking[v] /\ verdict'[v] = verdict[v]
          /\ checking[v] = p => checking'[v] = NoTask
    BY <1>2, <1>3
  <2> HIDE DEF IInv, NextWave, R
  <2> QED
    BY <1>1, <1>2, <2>1, <2>3, <2>5, <2>6, NewRows
<1> QED
  BY <1>1, <1>4 DEF TypeOK, Close, notifyVars

\* The rows that a cancel reads are closed under active children.
LEMMA CascadeIsClosed ==
  ASSUME TypeOK, NEW t \in Tasks
  PROVE  /\ t \in Cascade(t)
         /\ Cascade(t) \subseteq {t} \cup {c \in Tasks : state[c] \in Active}
         /\ \A c \in Tasks : Parent[c] \in Cascade(t) /\ state[c] \in Active
                              => c \in Cascade(t)
<1>1. {t} \cup {c \in Tasks : state[c] \in Active} \in SUBSET Tasks
  OBVIOUS
<1>2. Closed(t, {t} \cup {c \in Tasks : state[c] \in Active})
  BY DEF Closed
<1>3. Cascade(t) \subseteq {t} \cup {c \in Tasks : state[c] \in Active}
  BY <1>1, <1>2 DEF Cascade
<1>4. \A c \in Tasks : Parent[c] \in Cascade(t) /\ state[c] \in Active
                       => c \in Cascade(t)
  BY DEF Cascade, Closed
<1> QED
  BY <1>3, <1>4 DEF Cascade, Closed

LEMMA CancelInv ==
  ASSUME IInv, (\E t \in Tasks : BeginCancel(t)) \/ CommitCancel
  PROVE  IInv'
<1> USE TreeAssumption DEF IInv
<1>1. CASE \E t \in Tasks : BeginCancel(t)
  <2>1. PICK t \in Tasks : BeginCancel(t)
    BY <1>1
  <2>2. /\ request'.rows = Cascade(t)
        /\ request'.live \subseteq {c \in Tasks : state[c] \in Active}
        /\ request' \in [rows : SUBSET Tasks, live : SUBSET Tasks]
        /\ UNCHANGED <<rowVars, notifyVars, checkVars>>
        /\ state[t] \in Active \cup {"failed"}
        /\ requests' \in Nat
    BY <2>1 DEF BeginCancel, Cascade, TypeOK
  <2>3. TypeOK'
    BY <2>2 DEF TypeOK, Cascade, rowVars, checkVars, notifyVars
  <2>4. Cancels'
    BY <2>2, CascadeIsClosed DEF Cancels, rowVars
  <2>5. Checks'
    BY <2>2 DEF Checks, Settled, rowVars, checkVars
  <2> QED
    BY <2>3, <2>4, <2>5
<1>2. CASE CommitCancel
  <2>1. /\ state' = [t \in Tasks |-> IF t \in request.rows THEN "cancelled"
                                    ELSE state[t]]
        /\ request' = NoRequest
        /\ UNCHANGED <<retries, phase, notifyVars, checkVars, requests>>
        /\ \A t \in request.rows : ~Locked(t)
    BY <1>2 DEF CommitCancel, Put
  <2>2. TypeOK'
    BY <2>1 DEF TypeOK, States, NoRequest, checkVars, notifyVars
  <2>3. \A v \in Workers : checking[v] # NoTask =>
          /\ state'[checking[v]] = state[checking[v]]
          /\ \A c \in Children(checking[v]) : Settled(c) => Settled(c)'
    BY <2>1 DEF Locked, Children, Settled, TypeOK
  <2>4. Checks'
    BY <2>1, <2>3, ChecksKeep DEF checkVars
  <2> QED
    BY <2>1, <2>2, <2>4 DEF Cancels, NoRequest
<1> QED
  BY <1>1, <1>2

LEMMA StepInv == IInv /\ [Next]_vars => IInv'
<1> SUFFICES ASSUME IInv, [Next]_vars
             PROVE  IInv'
  OBVIOUS
<1>1. CASE UNCHANGED vars
  BY <1>1 DEF vars, rowVars, checkVars, IInv, TypeOK, Checks, Cancels, Settled, notifyVars
<1>2. CASE Users
  BY <1>2, RowInv, CancelInv DEF Users
<1>3. CASE \E t \in Tasks :
             \/ Run(t) \/ Execution(t) \/ AutoRetry(t)
             \/ NotifyParent(t) \/ SpawnMore(t)
  <2>1. PICK t \in Tasks :
               \/ Run(t) \/ Execution(t) \/ AutoRetry(t)
               \/ NotifyParent(t) \/ SpawnMore(t)
    BY <1>3
  <2>2. CASE \E k \in 0..Phases[t], S \in SUBSET Tasks : Spawn(t, k, S)
    BY <2>2, SpawnInv, TreeAssumption
  <2> QED
    BY <2>1, <2>2, RowInv, NotifyInv DEF Execution
<1>4. CASE \E w \in Workers : Poll(w) \/ Check(w)
  <2>1. PICK w \in Workers : Poll(w) \/ Check(w)
    BY <1>4
  <2>2. CASE \E p \in Tasks : Settle(w, p)
    <3>1. PICK p \in Tasks : Settle(w, p)
      BY <2>2
    <3>2. CASE \E k \in 0..Phases[p], S \in SUBSET Tasks : NextWave(w, p, k, S)
      BY <3>2, WaveInv, TreeAssumption
    <3> QED
      BY <3>1, <3>2, SettleInv DEF Settle
  <2> QED
    BY <2>1, <2>2, PassInv, ChildlessInv DEF Check
<1> QED
  BY <1>1, <1>2, <1>3, <1>4 DEF Next

\* What open transactions rely on: the row that a worker checks waits and is
\* nobody else's, and what an open cancel has read is still so.
THEOREM TreeInvariant == Spec => []IInv
BY InitInv, StepInv, PTL DEF Spec, TreeSpec

\* Types of rows, passes and open transactions; no task is retried more often
\* than its type allows.
THEOREM TypeCorrect == Spec => []TypeOK
BY TreeInvariant, PTL DEF IInv

------------------------------------------------------------------------------
\* The barrier

Live == {t \in Tasks : state[t] \in Active}
Finished == {t \in Tasks : state[t] = "done"}

\* The steps of one row, by what the barrier sees of them.
LEMMA RowSteps ==
  ASSUME IInv, NEW t \in Tasks, Create(t) \/ Run(t) \/ Finish(t)
                 \/ FailRetried(t) \/ Release(t) \/ Fail(t)
                 \/ AutoRetry(t) \/ ManualRetry(t)
  PROVE  [Barrier!Next]_(Barrier!vars)
<1> USE DEF Live, Finished, Waiting, Active
<1>1. CASE Create(t) \/ AutoRetry(t) \/ ManualRetry(t)
  <2>1. /\ Live' = Live \cup {t} /\ t \notin Live \cup Finished
        /\ Waiting' = Waiting /\ Finished' = Finished
    BY <1>1 DEF Create, AutoRetry, ManualRetry, Put
  <2>2. Barrier!Enter(t)
    BY <2>1 DEF Barrier!Enter
  <2> QED
    BY <2>2 DEF Barrier!Next
<1>2. CASE Run(t) \/ FailRetried(t) \/ Release(t)
  BY <1>2 DEF Run, FailRetried, Release, Put, Barrier!vars
<1>3. CASE Finish(t)
  <2>1. /\ Live' = Live \ {t} /\ t \in Live /\ t \notin Waiting
        /\ Waiting' = Waiting /\ Finished' = Finished \cup {t}
    BY <1>3 DEF Finish, Put
  <2>2. Barrier!Complete(t)
    BY <2>1 DEF Barrier!Complete
  <2> QED
    BY <2>2 DEF Barrier!Next
<1>4. CASE Fail(t)
  <2>1. /\ Live' = Live \ {t} /\ {t} \cap Finished = {}
        /\ Waiting' = Waiting \ {t} /\ Finished' = Finished
    BY <1>4 DEF Fail, Put
  <2>2. Barrier!GiveUp({t})
    BY <2>1 DEF Barrier!GiveUp
  <2> QED
    BY <2>2 DEF Barrier!Next
<1> QED
  BY <1>1, <1>2, <1>3, <1>4

\* A wave S of p that starts while no child of p is live.
LEMMA WaveStep ==
  ASSUME TypeOK, NEW p \in Tasks, NEW S \in SUBSET Unused(p),
         state[p] \in Active,
         state[p] = "waiting" => \A c \in Children(p) : Settled(c),
         SpawnChildren(p, S, "waiting")
  PROVE  [Barrier!Next]_(Barrier!vars)
<1> USE TreeAssumption DEF Live, Finished, Waiting, Active
<1>1. p \notin S
  BY DEF Unused
<1>2. /\ Live' = Live \cup S /\ Waiting' = Waiting \cup {p}
      /\ Finished' = Finished
  BY <1>1 DEF SpawnChildren, Unused, Children
<1>3. /\ p \in Live /\ S \in SUBSET Tasks
      /\ S \subseteq Barrier!Children(p) \ (Live \cup Finished)
  BY DEF Unused, Children, Barrier!Children
<1>4. p \in Waiting => Barrier!LiveChildren(p) = {}
  BY DEF Barrier!LiveChildren, Barrier!Children, Children, Settled
<1>5. Barrier!Fork(p, S)
  BY <1>2, <1>3, <1>4 DEF Barrier!Fork
<1> QED
  BY <1>3, <1>5 DEF Barrier!Next

LEMMA NotifySteps ==
  ASSUME IInv, NEW c \in Tasks, NotifyParent(c) \/ SpawnMore(c)
  PROVE  [Barrier!Next]_(Barrier!vars)
<1> USE TreeAssumption DEF IInv, Live, Finished, Waiting, Active
<1>1. CASE NotifyParent(c)
  BY <1>1 DEF NotifyParent, rowVars, Barrier!vars
<1>2. CASE SpawnMore(c)
  <2>1. PICK S \in SUBSET Unused(Parent[c]) : Put(S, "pending")
    BY <1>2 DEF SpawnMore
  <2>2. Parent[c] \in Raw /\ Parent[c] \in Tasks
    BY <1>2 DEF SpawnMore, TypeOK
  <2>3. /\ Live' = Live \cup S /\ Waiting' = Waiting /\ Finished' = Finished
        /\ S \in SUBSET Tasks
        /\ S \subseteq Barrier!Children(Parent[c]) \ (Live \cup Finished)
    BY <2>1 DEF Put, Unused, Children, Barrier!Children
  <2>4. Barrier!Join(Parent[c], S)
    BY <2>2, <2>3 DEF Barrier!Join
  <2> QED
    BY <2>2, <2>3, <2>4 DEF Barrier!Next
<1> QED
  BY <1>1, <1>2

LEMMA CompleteStep ==
  ASSUME TypeOK, NEW p \in Tasks, state[p] = "waiting", Put({p}, "done"),
         \A c \in Children(p) : Settled(c)
  PROVE  [Barrier!Next]_(Barrier!vars)
<1> USE DEF Live, Finished, Waiting, Active
<1>1. /\ Live' = Live \ {p} /\ p \in Live
      /\ Waiting' = Waiting \ {p} /\ Finished' = Finished \cup {p}
  BY DEF Put
<1>2. Barrier!LiveChildren(p) = {}
  BY DEF Barrier!LiveChildren, Barrier!Children, Children, Settled
<1>3. Barrier!Complete(p)
  BY <1>1, <1>2 DEF Barrier!Complete
<1> QED
  BY <1>3 DEF Barrier!Next

LEMMA GiveUpStep ==
  ASSUME TypeOK, NEW S \in SUBSET Tasks, NEW s \in {"failed", "cancelled"},
         \A t \in S : state[t] # "done", Put(S, s)
  PROVE  [Barrier!Next]_(Barrier!vars)
<1> USE DEF Live, Finished, Waiting, Active
<1>1. /\ Live' = Live \ S /\ S \cap Finished = {}
      /\ Waiting' = Waiting \ S /\ Finished' = Finished
  BY DEF Put
<1>2. Barrier!GiveUp(S)
  BY <1>1 DEF Barrier!GiveUp
<1> QED
  BY <1>2 DEF Barrier!Next

LEMMA CheckSteps ==
  ASSUME IInv, NEW w \in Workers, Poll(w) \/ Check(w)
  PROVE  [Barrier!Next]_(Barrier!vars)
<1> USE TreeAssumption DEF IInv
<1>1. CASE UNCHANGED state
  BY <1>1 DEF Barrier!vars, Waiting
<1>2. CASE \E p \in Tasks : CompleteChildless(w, p)
  <2>1. PICK p \in Tasks : CompleteChildless(w, p)
    BY <1>2
  <2>2. /\ state[p] = "waiting" /\ Put({p}, "done")
        /\ \A c \in Children(p) : Settled(c)
    BY <2>1 DEF CompleteChildless, CanCheck, Present, Settled
  <2> QED
    BY <2>2, CompleteStep
<1>3. CASE \E p \in Tasks : CompleteParent(w, p)
  <2>1. PICK p \in Tasks : CompleteParent(w, p)
    BY <1>3
  <2>2. /\ state[p] = "waiting" /\ Put({p}, "done")
        /\ \A c \in Children(p) : Settled(c)
    BY <2>1 DEF CompleteParent, Checks
  <2> QED
    BY <2>2, CompleteStep
<1>4. CASE \E p \in Tasks : FailParent(w, p)
  <2>1. PICK p \in Tasks : FailParent(w, p)
    BY <1>4
  <2>2. \A t \in {p} : state[t] # "done"
    BY <2>1 DEF FailParent, Checks
  <2> QED
    BY <2>1, <2>2, GiveUpStep DEF FailParent
<1>5. CASE \E p \in Tasks, k \in Nat, S \in SUBSET Tasks : NextWave(w, p, k, S)
  <2>1. PICK p \in Tasks, k \in Nat, S \in SUBSET Tasks : NextWave(w, p, k, S)
    BY <1>5
  <2>2. /\ state[p] = "waiting" /\ S \in SUBSET Unused(p)
        /\ \A c \in Children(p) : Settled(c)
        /\ SpawnChildren(p, S, "waiting")
    BY <2>1 DEF NextWave, Checks
  <2> QED
    BY <2>2, WaveStep DEF Active
<1>6. \/ UNCHANGED state
      \/ \E p \in Tasks : \/ CompleteChildless(w, p) \/ CompleteParent(w, p)
                           \/ FailParent(w, p)
                           \/ \E k \in Nat, S \in SUBSET Tasks : NextWave(w, p, k, S)
  BY DEF Poll, Check, Settle, Passes, Decide, HookAsksAgain, rowVars
<1> QED
  BY <1>1, <1>2, <1>3, <1>4, <1>5, <1>6

\* A parent passes the barrier only when none of its children is live
\* (_check_waiting_parent): TaskTree implements ChildBarrier.
THEOREM ImplementsBarrier == Spec => BarrierSpec
<1>1. Init => Barrier!Init
  BY DEF Init, Barrier!Init, Waiting, Active
<1>2. IInv /\ [Next]_vars => [Barrier!Next]_(Barrier!vars)
  <2> SUFFICES ASSUME IInv, [Next]_vars
               PROVE  [Barrier!Next]_(Barrier!vars)
    OBVIOUS
  <2>1. CASE UNCHANGED state
    BY <2>1 DEF Barrier!vars, Waiting
  <2>2. CASE \E t \in Tasks : Create(t) \/ ManualRetry(t)
    BY <2>2, RowSteps
  <2>3. CASE CommitCancel
    <3>1. \A t \in request.rows : state[t] # "done"
      BY <2>3 DEF CommitCancel, IInv, Cancels, Active
    <3>2. request.rows \in SUBSET Tasks /\ Put(request.rows, "cancelled")
      BY <2>3 DEF CommitCancel, IInv, TypeOK
    <3> QED
      BY <3>1, <3>2, GiveUpStep DEF IInv
  <2>4. CASE \E t \in Tasks :
               \/ Run(t) \/ Execution(t) \/ AutoRetry(t)
               \/ NotifyParent(t) \/ SpawnMore(t)
    <3>1. PICK t \in Tasks : \/ Run(t) \/ Execution(t) \/ AutoRetry(t)
                             \/ NotifyParent(t) \/ SpawnMore(t)
      BY <2>4
    <3>2. CASE \E k \in 0..Phases[t], S \in SUBSET Tasks : Spawn(t, k, S)
      <4>1. PICK k \in 0..Phases[t], S \in SUBSET Tasks : Spawn(t, k, S)
        BY <3>2
      <4>2. /\ state[t] = "running" /\ S \in SUBSET Unused(t)
            /\ SpawnChildren(t, S, "waiting")
        BY <4>1 DEF Spawn
      <4> QED
        BY <4>2, WaveStep DEF IInv, Active
    <3> QED
      BY <3>1, <3>2, RowSteps, NotifySteps DEF Execution
  <2>5. CASE \E w \in Workers : Poll(w) \/ Check(w)
    BY <2>5, CheckSteps
  <2>6. (\E t \in Tasks : BeginCancel(t)) => UNCHANGED state
    BY DEF BeginCancel, rowVars
  <2>7. UNCHANGED vars => UNCHANGED state
    BY DEF vars, rowVars
  <2> QED
    BY <2>1, <2>2, <2>3, <2>4, <2>5, <2>6, <2>7 DEF Next, Users
<1> QED
  BY <1>1, <1>2, TreeInvariant, PTL DEF Spec, TreeSpec, BarrierSpec, Barrier!Spec

\* A cancel takes all the children that it found active with it
\* (action_cancel): no step but its commit cancels a row.
THEOREM CancelsAreAtomic == Spec => CancelIsAtomic
<1> DEFINE Atomic(p) ==
      state[p] # "cancelled" /\ state'[p] = "cancelled" =>
        \A c \in Children(p) : c \in request.live => state'[c] = "cancelled"
<1>1. ASSUME IInv, [Next]_vars, NEW p \in Tasks
      PROVE  Atomic(p)
  <2>1. CASE CommitCancel
    <3>1. \A t \in Tasks : state'[t] = IF t \in request.rows THEN "cancelled"
                                       ELSE state[t]
      BY <2>1 DEF CommitCancel, Put
    <3>2. \A c \in request.live : Parent[c] \in request.rows => c \in request.rows
      BY <1>1, <2>1 DEF CommitCancel, IInv, Cancels
    <3> QED
      BY <3>1, <3>2 DEF Children
  <2>2. CASE UNCHANGED state
    BY <2>2
  <2>3. CASE \E S \in SUBSET Tasks, s \in States \ {"cancelled"} : Put(S, s)
    BY <2>3 DEF Put
  <2>4. CASE \E t \in Tasks, S \in SUBSET Tasks : SpawnChildren(t, S, "waiting")
    BY <2>4 DEF SpawnChildren
  <2>5. \/ CommitCancel \/ UNCHANGED state
        \/ \E S \in SUBSET Tasks, s \in States \ {"cancelled"} : Put(S, s)
        \/ \E t \in Tasks, S \in SUBSET Tasks : SpawnChildren(t, S, "waiting")
    <3>1. CASE UNCHANGED vars
      BY <3>1 DEF vars, rowVars
    <3>2. CASE \E t \in Tasks : \/ Create(t) \/ ManualRetry(t) \/ Run(t)
                                \/ Finish(t) \/ FailRetried(t) \/ Fail(t)
                                \/ Release(t) \/ AutoRetry(t)
      BY <3>2 DEF Create, ManualRetry, Run, Finish, FailRetried, Release, Fail,
                  AutoRetry, States
    <3>3. CASE \E t \in Tasks : BeginCancel(t)
      BY <3>3 DEF BeginCancel, rowVars
    <3>4. CASE \E t \in Tasks : NotifyParent(t) \/ SpawnMore(t)
      BY <3>4 DEF NotifyParent, SpawnMore, Unused, Children, States, rowVars
    <3>5. CASE \E t \in Tasks, k \in Nat, S \in SUBSET Tasks : Spawn(t, k, S)
      BY <3>5 DEF Spawn
    <3>6. CASE \E w \in Workers : Poll(w) \/ Check(w)
      <4>1. PICK w \in Workers : Poll(w) \/ Check(w)
        BY <3>6
      <4>2. CASE \E q \in Tasks : \/ CompleteChildless(w, q)
                                  \/ CompleteParent(w, q) \/ FailParent(w, q)
        BY <4>2 DEF CompleteChildless, CompleteParent, FailParent, States
      <4>3. CASE \E q \in Tasks, k \in Nat, S \in SUBSET Tasks :
                   NextWave(w, q, k, S)
        BY <4>3 DEF NextWave
      <4>4. \/ UNCHANGED state
            \/ \E q \in Tasks :
                 \/ CompleteChildless(w, q) \/ CompleteParent(w, q)
                 \/ FailParent(w, q)
                 \/ \E k \in Nat, S \in SUBSET Tasks : NextWave(w, q, k, S)
        BY <4>1 DEF Poll, Check, Settle, Passes, Decide, HookAsksAgain, rowVars
      <4> QED
        BY <4>2, <4>3, <4>4
    <3> QED
      BY <1>1, <3>1, <3>2, <3>3, <3>4, <3>5, <3>6 DEF Next, Users, Execution
  <2> QED
    BY <2>1, <2>2, <2>3, <2>4, <2>5
<1>2. IInv /\ [Next]_vars => \A p \in Tasks : Atomic(p)
  BY <1>1
<1> QED
  BY <1>2, TreeInvariant, PTL DEF Spec, TreeSpec, CancelIsAtomic

------------------------------------------------------------------------------
\* The life of a row

Coarse == [t \in Tasks |-> IF state[t] = "waiting" THEN "running" ELSE state[t]]
Rows == INSTANCE TaskRows WITH state <- Coarse

\* Rows of the tree by what becomes of them in a step.
LEMMA PutRows ==
  ASSUME TypeOK, NEW S \in SUBSET Tasks, NEW s \in States, Put(S, s),
         \/ s = "pending" /\ \A t \in S : state[t] = "absent"
         \/ s = "running" /\ \A t \in S : state[t] = "pending"
         \/ s \in {"done", "failed"} /\ \A t \in S : state[t] \in {"running", "waiting"}
         \/ s = "cancelled" /\ \A t \in S : state[t] \in Active \cup {"failed"}
         \/ s = "pending" /\ \A t \in S : state[t] \in {"running", "failed"},
         UNCHANGED retries
  PROVE  Rows!Next
<1> SUFFICES ASSUME NEW t \in Tasks PROVE Rows!RowStep(t)
  BY DEF Rows!Next
<1>1. CASE t \in S
  BY <1>1 DEF Put, Active, States, Coarse, Rows!RowStep, Rows!Create, Rows!Claim,
              Rows!End, Rows!Cancel, Rows!Retry, Rows!Moves, Rows!Free
<1>2. CASE t \notin S
  BY <1>2 DEF Put, Coarse, Rows!RowStep, Rows!Stay, Rows!Moves, Rows!Free
<1> QED
  BY <1>1, <1>2

\* A wave of new rows while the parent waits or goes on waiting.
LEMMA WaveRows ==
  ASSUME TypeOK, NEW p \in Tasks, NEW S \in SUBSET Unused(p),
         state[p] \in {"running", "waiting"}, SpawnChildren(p, S, "waiting"),
         UNCHANGED retries
  PROVE  Rows!Next
<1> SUFFICES ASSUME NEW t \in Tasks PROVE Rows!RowStep(t)
  BY DEF Rows!Next
<1>1. CASE t \in S
  BY <1>1 DEF SpawnChildren, Unused, Coarse, Rows!RowStep, Rows!Create,
              Rows!Moves, Rows!Free
<1>2. CASE t \notin S
  BY <1>2 DEF SpawnChildren, Coarse, Rows!RowStep, Rows!Stay, Rows!Moves, Rows!Free
<1> QED
  BY <1>1, <1>2

LEMMA ChargedRow ==
  ASSUME TypeOK, NEW t \in Tasks, state[t] \in {"running", "failed"}, HasBudget(t),
         Put({t}, "pending"), retries' = [retries EXCEPT ![t] = @ + 1]
  PROVE  Rows!Next
<1> SUFFICES ASSUME NEW u \in Tasks PROVE Rows!RowStep(u)
  BY DEF Rows!Next
<1>1. CASE u = t
  BY <1>1 DEF Put, TypeOK, HasBudget, Coarse, Rows!RowStep, Rows!Retry, Rows!Moves,
              Rows!Charged
<1>2. CASE u # t
  BY <1>2 DEF Put, TypeOK, Coarse, Rows!RowStep, Rows!Stay, Rows!Moves, Rows!Free
<1> QED
  BY <1>1, <1>2

LEMMA CheckRows ==
  ASSUME IInv, NEW w \in Workers, Poll(w) \/ Check(w)
  PROVE  [Rows!Next]_(Rows!rowVars)
<1> USE TreeAssumption DEF IInv
<1>1. CASE \E p \in Tasks : CompleteChildless(w, p) \/ CompleteParent(w, p)
                             \/ FailParent(w, p)
  <2>1. PICK p \in Tasks : CompleteChildless(w, p) \/ CompleteParent(w, p)
                            \/ FailParent(w, p)
    BY <1>1
  <2>2. /\ state[p] = "waiting" /\ UNCHANGED retries
        /\ Put({p}, "done") \/ Put({p}, "failed")
    BY <2>1 DEF CompleteChildless, CanCheck, CompleteParent, FailParent, Checks
  <2> QED
    BY <2>2, PutRows DEF States
<1>2. CASE \E p \in Tasks, k \in Nat, S \in SUBSET Tasks : NextWave(w, p, k, S)
  <2>1. PICK p \in Tasks, k \in Nat, S \in SUBSET Tasks : NextWave(w, p, k, S)
    BY <1>2
  <2>2. /\ state[p] = "waiting" /\ S \in SUBSET Unused(p) /\ UNCHANGED retries
        /\ SpawnChildren(p, S, "waiting")
    BY <2>1 DEF NextWave, Checks
  <2> QED
    BY <2>2, WaveRows
<1>3. \/ UNCHANGED <<state, retries>>
      \/ \E p \in Tasks : \/ CompleteChildless(w, p) \/ CompleteParent(w, p)
                           \/ FailParent(w, p)
                           \/ \E k \in Nat, S \in SUBSET Tasks : NextWave(w, p, k, S)
  BY DEF Poll, Check, Settle, Passes, Decide, HookAsksAgain, rowVars
<1> QED
  BY <1>1, <1>2, <1>3 DEF Rows!rowVars, Coarse

\* Rows of a tree live the common life of rows: no poll, hook, retry or stale
\* cancel takes one out of a final state or charges it beyond its budget.
THEOREM ImplementsRows == Spec => Rows!Spec
<1>1. Init => Rows!Init
  BY DEF Init, Rows!Init, Coarse
<1>2. IInv /\ [Next]_vars => [Rows!Next]_(Rows!rowVars)
  <2> SUFFICES ASSUME IInv, [Next]_vars
               PROVE  [Rows!Next]_(Rows!rowVars)
    OBVIOUS
  <2> USE DEF IInv
  <2>1. CASE UNCHANGED <<state, retries>>
    BY <2>1 DEF Rows!rowVars, Coarse
  <2>2. CASE \E t \in Tasks : \/ Create(t) \/ Run(t) \/ Finish(t) \/ Release(t)
                              \/ Fail(t) \/ ManualRetry(t)
    BY <2>2, PutRows
       DEF Create, Run, Finish, Release, Fail, ManualRetry, States
  <2>3. CASE \E t \in Tasks : FailRetried(t) \/ AutoRetry(t)
    BY <2>3, ChargedRow DEF FailRetried, AutoRetry
  <2>4. CASE \E t \in Tasks, k \in Nat, S \in SUBSET Tasks : Spawn(t, k, S)
    BY <2>4, WaveRows DEF Spawn
  <2>5. CASE \E t \in Tasks : NotifyParent(t) \/ SpawnMore(t)
    BY <2>1, <2>5, PutRows
       DEF NotifyParent, SpawnMore, Unused, Children, States, rowVars
  <2>6. CASE CommitCancel
    BY <2>6, PutRows DEF CommitCancel, TypeOK, Cancels, States
  <2>7. CASE \E w \in Workers : Poll(w) \/ Check(w)
    BY <2>7, CheckRows
  <2>8. UNCHANGED vars \/ (\E t \in Tasks : BeginCancel(t))
          => UNCHANGED <<state, retries>>
    BY DEF vars, rowVars, BeginCancel
  <2> QED
    BY TreeAssumption, <2>1, <2>2, <2>3, <2>4, <2>5, <2>6, <2>7, <2>8
       DEF Next, Users, Execution
<1> QED
  BY <1>1, <1>2, TreeInvariant, PTL DEF Spec, TreeSpec, Rows!Spec
=============================================================================
