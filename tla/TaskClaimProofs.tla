--------------------------- MODULE TaskClaimProofs ---------------------------
(***************************************************************************)
(* Claims for every number of tasks, claimers, types and slots.  The        *)
(* inductive invariant says what a claimer may conclude from an old         *)
(* snapshot: a row of its offer that nobody has written since is still      *)
(* pending and, when its type is a singleton and no task becomes pending    *)
(* ahead of others, still the first of its type, with none executing.       *)
(***************************************************************************)
EXTENDS TaskClaim, TLAPS

Fresh(w) == offer[w] \ dirty[w]

Offers ==
  \A w \in Claimers :
    /\ dirty[w] \subseteq offer[w]
    /\ locked[w] \subseteq Fresh(w)
    /\ pc[w] # "claimed" => locked[w] = {}
    /\ pc[w] = "idle" => offer[w] = {}
    /\ \A t \in Fresh(w) : state[t] = "pending"

FirstOfType ==
  ~Ahead =>
    \A w \in Claimers : \A t \in Fresh(w) :
      IsSingleton(t) => NoneExecutes(t) /\ IsCanonical(t)

IInv == TypeOK /\ Offers /\ FirstOfType /\ (~Ahead => AtMostOneExecuting)

\* A commit only takes rows away from what is fresh.
LEMMA WroteFresh ==
  ASSUME TypeOK, Offers, NEW S \in SUBSET Tasks, Wrote(S),
         UNCHANGED offer
  PROVE  /\ dirty' \in [Claimers -> SUBSET Tasks]
         /\ \A w \in Claimers : /\ dirty'[w] \subseteq offer'[w]
                                /\ Fresh(w)' = Fresh(w) \ S
BY DEF TypeOK, Offers, Wrote, Fresh

\* The writers of one row that is not claimed.
LEMMA OneRow ==
  ASSUME IInv, NEW t \in Tasks, NEW s \in States, t \notin Locked,
         state' = [state EXCEPT ![t] = s], Wrote({t}),
         UNCHANGED <<pc, offer, locked>>
  PROVE  TypeOK' /\ Offers'
<1> USE DEF IInv
<1>1. TypeOK'
  BY WroteFresh DEF TypeOK
<1>2. \A w \in Claimers : t \notin locked[w]
  BY DEF Locked
<1>3. \A w \in Claimers : /\ dirty'[w] \subseteq offer'[w]
                          /\ Fresh(w)' = Fresh(w) \ {t}
  BY WroteFresh
<1>4. \A w \in Claimers : locked'[w] \subseteq Fresh(w)'
  BY <1>2, <1>3 DEF Offers
<1>5. \A w \in Claimers : \A u \in Fresh(w)' : state'[u] = "pending"
  BY <1>3 DEF Offers, TypeOK, Fresh
<1> QED
  BY <1>1, <1>3, <1>4, <1>5 DEF Offers

LEMMA InitInv == Init => IInv
BY DEF Init, IInv, TypeOK, Offers, FirstOfType, AtMostOneExecuting, States,
       Queued, Fresh

LEMMA EnqueueInv ==
  ASSUME IInv, NEW t \in Tasks, NEW s \in Queued, Enqueue(t, s)
  PROVE  IInv'
<1> USE ClaimAssumption DEF IInv
<1>1. t \notin Locked
  BY DEF Enqueue, Locked, Offers, Fresh
<1>2. TypeOK' /\ Offers'
  BY <1>1, OneRow DEF Enqueue, States
<1>3. FirstOfType'
  <2> SUFFICES ASSUME ~Ahead, NEW w \in Claimers, NEW u \in Fresh(w)',
                      IsSingleton(u)
               PROVE  NoneExecutes(u)' /\ IsCanonical(u)'
    BY DEF FirstOfType, IsSingleton
  <2>1. u \in Fresh(w) /\ u # t /\ u \in Tasks /\ state[u] = "pending"
    BY WroteFresh DEF Enqueue, Offers, TypeOK, Fresh
  <2>2. NoneExecutes(u) /\ IsCanonical(u)
    BY <2>1 DEF FirstOfType
  <2>3. \A v \in Tasks \ {t} : state'[v] = state[v]
    BY DEF Enqueue, TypeOK
  <2>4. state'[t] = s
    BY DEF Enqueue, TypeOK
  <2>5. NoneExecutes(u)'
    BY <2>2, <2>3, <2>4 DEF NoneExecutes, Queued
  <2>6. t \in Mates(u) => Rank[u] < Rank[t]
    BY <2>1 DEF Enqueue, Mates, Queued
  <2> QED
    BY <2>2, <2>3, <2>5, <2>6 DEF IsCanonical, Mates
<1>4. ~Ahead => AtMostOneExecuting'
  BY DEF Enqueue, AtMostOneExecuting, Queued, TypeOK, IsSingleton
<1> QED
  BY <1>2, <1>3, <1>4

LEMMA ElapseInv ==
  ASSUME IInv, NEW t \in Tasks, Elapse(t)
  PROVE  IInv'
<1> USE DEF IInv, Elapse
<1>1. TypeOK'
  BY DEF TypeOK, States, Queued
<1>2. \A u \in Tasks : /\ state[u] = "pending" => state'[u] = "pending"
                       /\ state[u] \in Queued <=> state'[u] \in Queued
                       /\ state[u] = "executing" <=> state'[u] = "executing"
  BY DEF TypeOK, Queued
<1>3. \A w \in Claimers : Fresh(w)' = Fresh(w) /\ Fresh(w) \subseteq Tasks
  BY DEF Fresh, TypeOK
<1>4. Offers'
  BY <1>2, <1>3 DEF Offers
<1>5. FirstOfType'
  BY <1>2, <1>3 DEF FirstOfType, NoneExecutes, IsCanonical, Mates, IsSingleton
<1>6. ~Ahead => AtMostOneExecuting'
  BY <1>2 DEF AtMostOneExecuting, IsSingleton
<1> QED
  BY <1>1, <1>4, <1>5, <1>6

LEMMA RequeueInv ==
  ASSUME IInv, NEW t \in Tasks, NEW s \in Queued, Requeue(t, s)
  PROVE  IInv'
<1> USE DEF IInv
<1>1. t \notin Locked
  BY DEF Requeue, Locked, Offers, Fresh
<1>2. TypeOK' /\ Offers'
  BY <1>1, OneRow DEF Requeue, States
<1>3. FirstOfType'
  <2> SUFFICES ASSUME ~Ahead, NEW w \in Claimers, NEW u \in Fresh(w)',
                      IsSingleton(u)
               PROVE  NoneExecutes(u)' /\ IsCanonical(u)'
    BY DEF FirstOfType, IsSingleton
  <2>1. u \in Fresh(w) /\ u # t /\ u \in Tasks
    BY WroteFresh DEF Requeue, Offers, TypeOK, Fresh
  <2>2. NoneExecutes(u) /\ IsCanonical(u)
    BY <2>1 DEF FirstOfType
  <2>3. TypeOf[t] # TypeOf[u]
    BY <2>2 DEF NoneExecutes, Requeue
  <2> QED
    BY <2>2, <2>3 DEF Requeue, NoneExecutes, IsCanonical, Mates, TypeOK
<1>4. ~Ahead => AtMostOneExecuting'
  BY DEF Requeue, AtMostOneExecuting, Queued, TypeOK, IsSingleton
<1> QED
  BY <1>2, <1>3, <1>4

LEMMA EndInv ==
  ASSUME IInv, NEW t \in Tasks, End(t)
  PROVE  IInv'
<1> USE DEF IInv
<1>2. TypeOK' /\ Offers'
  BY OneRow DEF End, States
<1>3. FirstOfType'
  <2> SUFFICES ASSUME ~Ahead, NEW w \in Claimers, NEW u \in Fresh(w)',
                      IsSingleton(u)
               PROVE  NoneExecutes(u)' /\ IsCanonical(u)'
    BY DEF FirstOfType, IsSingleton
  <2>1. u \in Fresh(w) /\ u \in Tasks
    BY WroteFresh DEF End, Offers, TypeOK, Fresh
  <2>2. NoneExecutes(u) /\ IsCanonical(u)
    BY <2>1 DEF FirstOfType
  <2> QED
    BY <2>2 DEF End, NoneExecutes, IsCanonical, Mates, TypeOK, Queued
<1>4. ~Ahead => AtMostOneExecuting'
  BY DEF End, AtMostOneExecuting, TypeOK, IsSingleton
<1> QED
  BY <1>2, <1>3, <1>4

LEMMA ReadInv ==
  ASSUME IInv, NEW w \in Claimers, Read(w)
  PROVE  IInv'
<1> USE DEF IInv, Read
<1>1. Eligible(w) \subseteq Tasks
  BY ClaimAssumption DEF Eligible
<1>2. TypeOK'
  BY <1>1 DEF TypeOK
<1>3. dirty[w] = {} /\ locked[w] = {}
  BY DEF Offers, Fresh
<1>4. \A v \in Claimers : Fresh(v)' = IF v = w THEN Eligible(w) ELSE Fresh(v)
  BY <1>3 DEF Fresh, TypeOK
<1>5. Offers'
  BY <1>3, <1>4 DEF Offers, TypeOK, Eligible
<1>6. FirstOfType'
  BY <1>4 DEF FirstOfType, Eligible, NoneExecutes, IsCanonical, IsSingleton,
              Mates
<1> QED
  BY <1>2, <1>5, <1>6 DEF AtMostOneExecuting, IsSingleton

LEMMA LockInv ==
  ASSUME IInv, NEW w \in Claimers, Lock(w)
  PROVE  IInv'
<1> USE DEF IInv, Lock
<1>1. Batch(w) \subseteq offer[w] \ Locked
  BY DEF Batch
<1>2. TypeOK'
  BY <1>1 DEF TypeOK, Locked
<1>3. \A v \in Claimers : Fresh(v)' = Fresh(v)
  BY DEF Fresh
<1>4. Batch(w) \subseteq Fresh(w)
  BY <1>1 DEF Fresh
<1>5. Offers'
  BY <1>3, <1>4 DEF Offers, TypeOK
<1>6. FirstOfType'
  BY <1>3 DEF FirstOfType, NoneExecutes, IsCanonical, IsSingleton, Mates
<1> QED
  BY <1>2, <1>5, <1>6 DEF AtMostOneExecuting, IsSingleton

\* What an assignment takes was still first of its type.
LEMMA AssignInv ==
  ASSUME IInv, NEW w \in Claimers, Assign(w)
  PROVE  IInv'
<1> USE ClaimAssumption DEF IInv
<1>1. locked[w] \subseteq Tasks /\ locked[w] \subseteq Fresh(w)
  BY DEF TypeOK, Offers
<1>2. TypeOK'
  BY <1>1 DEF TypeOK, Assign, Reset, States
<1>3. \A v \in Claimers :
        Fresh(v)' = IF v = w THEN {} ELSE Fresh(v) \ locked[w]
  BY DEF Fresh, TypeOK, Assign, Reset
<1>4. Offers'
  <2> SUFFICES ASSUME NEW v \in Claimers
               PROVE  /\ dirty'[v] \subseteq offer'[v]
                      /\ locked'[v] \subseteq Fresh(v)'
                      /\ pc'[v] # "claimed" => locked'[v] = {}
                      /\ pc'[v] = "idle" => offer'[v] = {}
                      /\ \A t \in Fresh(v)' : state'[t] = "pending"
    BY DEF Offers
  <2>1. CASE v = w
    BY <1>3, <2>1 DEF Assign, Reset, TypeOK
  <2>2. CASE v # w
    <3>1. locked[v] \cap locked[w] = {}
      BY <2>2 DEF TypeOK
    <3>2. \A t \in Fresh(v)' : t \in Fresh(v) \ locked[w] /\ t \in Tasks
      BY <1>3, <2>2 DEF Fresh, TypeOK
    <3>3. UNCHANGED <<pc[v], offer[v], locked[v]>>
      BY <2>2 DEF Assign, Reset, TypeOK
    <3>4. dirty'[v] = dirty[v] \cup (offer[v] \cap locked[w])
      BY <2>2 DEF Assign
    <3>5. \A t \in Fresh(v)' : state'[t] = "pending"
      BY <3>2 DEF Offers, Assign
    <3> QED
      BY <1>3, <2>2, <3>1, <3>3, <3>4, <3>5 DEF Offers
  <2> QED
    BY <2>1, <2>2
<1>5. ASSUME ~Ahead, NEW v \in Claimers, NEW u \in Fresh(v), u \in Tasks,
             NEW t \in locked[w], IsSingleton(t), TypeOf[t] = TypeOf[u]
      PROVE  t = u
  <2>1. IsSingleton(u) /\ t \in Fresh(w) /\ t \in Tasks
    BY <1>1, <1>5 DEF IsSingleton
  <2>2. IsCanonical(t) /\ IsCanonical(u)
    BY <1>5, <2>1 DEF FirstOfType
  <2>3. state[t] = "pending" /\ state[u] = "pending"
    BY <1>5, <2>1 DEF Offers
  <2>4. t # u => Rank[t] < Rank[u] /\ Rank[u] < Rank[t]
    BY <1>5, <2>1, <2>2, <2>3 DEF IsCanonical, Mates, Queued
  <2> QED
    BY <1>5, <2>1, <2>4
<1>6. FirstOfType'
  <2> SUFFICES ASSUME ~Ahead, NEW v \in Claimers, NEW u \in Fresh(v)',
                      IsSingleton(u)
               PROVE  NoneExecutes(u)' /\ IsCanonical(u)'
    BY DEF FirstOfType, IsSingleton
  <2>1. u \in Fresh(v) /\ u \notin locked[w] /\ u \in Tasks
    BY <1>3 DEF Fresh, TypeOK
  <2>2. NoneExecutes(u) /\ IsCanonical(u)
    BY <2>1 DEF FirstOfType
  <2>3. \A t \in locked[w] : TypeOf[t] # TypeOf[u]
    BY <1>5, <2>1 DEF IsSingleton
  <2> QED
    BY <2>2, <2>3 DEF Assign, NoneExecutes, IsCanonical, Mates
<1>7. ~Ahead => AtMostOneExecuting'
  <2> SUFFICES ASSUME ~Ahead, NEW t \in Tasks, NEW u \in Tasks,
                      IsSingleton(t), TypeOf[t] = TypeOf[u],
                      state'[t] = "executing", state'[u] = "executing"
               PROVE  t = u
    BY DEF AtMostOneExecuting, IsSingleton
  <2>1. /\ t \in locked[w] \/ state[t] = "executing"
        /\ u \in locked[w] \/ state[u] = "executing"
    BY DEF Assign
  <2>2. \A x \in locked[w] : IsSingleton(x) => NoneExecutes(x)
    BY <1>1 DEF FirstOfType
  <2>3. CASE t \in locked[w] /\ u \in locked[w]
    BY <1>1, <1>5, <2>3
  <2>4. CASE state[t] = "executing" /\ state[u] = "executing"
    BY <2>4 DEF AtMostOneExecuting
  <2>5. ~(t \in locked[w] /\ state[u] = "executing")
    BY <2>2 DEF NoneExecutes
  <2>6. ~(u \in locked[w] /\ state[t] = "executing")
    BY <2>2 DEF NoneExecutes, IsSingleton
  <2> QED
    BY <2>1, <2>3, <2>4, <2>5, <2>6
<1> QED
  BY <1>2, <1>4, <1>6, <1>7

LEMMA RollbackInv ==
  ASSUME IInv, NEW w \in Claimers, Rollback(w)
  PROVE  IInv'
<1> USE DEF IInv
<1>1. TypeOK'
  BY DEF TypeOK, Rollback, Reset
<1>2. \A v \in Claimers : Fresh(v)' = IF v = w THEN {} ELSE Fresh(v)
  BY DEF Fresh, TypeOK, Rollback, Reset
<1>3. Offers'
  BY <1>2 DEF Offers, TypeOK, Rollback, Reset
<1>4. FirstOfType'
  BY <1>2 DEF FirstOfType, NoneExecutes, IsCanonical, IsSingleton, Mates,
              Rollback
<1> QED
  BY <1>1, <1>3, <1>4 DEF AtMostOneExecuting, IsSingleton, Rollback

LEMMA StepInv == IInv /\ [Next]_vars => IInv'
<1> SUFFICES ASSUME IInv, [Next]_vars
             PROVE  IInv'
  OBVIOUS
<1>1. CASE UNCHANGED vars
  BY <1>1 DEF vars, IInv, TypeOK, Offers, FirstOfType, AtMostOneExecuting,
              Fresh, NoneExecutes, IsCanonical, IsSingleton, Mates
<1>2. CASE \E t \in Tasks : Elapse(t) \/ End(t)
  BY <1>2, ElapseInv, EndInv
<1>3. CASE \E t \in Tasks, s \in Queued : Enqueue(t, s) \/ Requeue(t, s)
  BY <1>3, EnqueueInv, RequeueInv
<1>4. CASE \E w \in Claimers : Read(w) \/ Lock(w) \/ Assign(w) \/ Rollback(w)
  BY <1>4, ReadInv, LockInv, AssignInv, RollbackInv
<1> QED
  BY <1>1, <1>2, <1>3, <1>4 DEF Next

LEMMA Invariant == Spec => []IInv
BY InitInv, StepInv, PTL DEF Spec

\* Types, and that no row is locked by two claimers (claim_task).
THEOREM TypeCorrect == Spec => []TypeOK
BY Invariant, PTL DEF IInv

\* README.rst's statement of _singleton holds of any number of claimers, as
\* long as no task becomes pending ahead of others of its type (claim_task).
THEOREM SingletonsAreExclusive ==
  ASSUME ~Ahead PROVE Spec => []AtMostOneExecuting
<1>1. IInv => AtMostOneExecuting
  BY DEF IInv
<1> QED
  BY <1>1, Invariant, PTL

\* Under the same condition tasks of a singleton type start in order.
THEOREM SingletonsStartInOrder ==
  ASSUME ~Ahead PROVE Spec => SingletonsInOrder
<1> DEFINE InOrder(t) ==
      IsSingleton(t) /\ state[t] # "executing" /\ state'[t] = "executing" =>
        \A u \in Mates(t) : state[u] \in Queued => Rank[t] < Rank[u]
<1>1. ASSUME IInv, [Next]_vars, NEW t \in Tasks
      PROVE  InOrder(t)
  <2> SUFFICES ASSUME IsSingleton(t), state[t] # "executing",
                      state'[t] = "executing"
               PROVE  IsCanonical(t)
    BY DEF IsCanonical
  <2>1. PICK w \in Claimers : Assign(w)
    BY <1>1 DEF IInv, TypeOK, Next, vars, Enqueue, Requeue, Elapse, End, Read,
                Lock, Rollback, Queued
  <2>2. t \in locked[w]
    BY <2>1 DEF Assign
  <2>3. t \in Fresh(w)
    BY <1>1, <2>2 DEF IInv, Offers
  <2> QED
    BY <1>1, <2>3 DEF IInv, FirstOfType
<1>2. IInv /\ [Next]_vars => \A t \in Tasks : InOrder(t)
  BY <1>1
<1> QED
  BY <1>2, Invariant, PTL DEF Spec, SingletonsInOrder
------------------------------------------------------------------------------
\* Claims are atomic

LEMMA EnqueueEnters ==
  ASSUME IInv, NEW t \in Tasks, NEW s \in Queued,
         Enqueue(t, s) \/ Requeue(t, s)
  PROVE  Claims!Enter(t, s = "pending")
BY DEF Enqueue, Requeue, IInv, TypeOK, Queued, States, Claims!Enter

\* The rows that a claim assigns are pending when it commits, and the singleton
\* conditions of its WHERE clause still hold of them.
LEMMA AssignClaims ==
  ASSUME IInv, NEW w \in Claimers, NEW S \in SUBSET Tasks,
         S = locked[w], Assign(w)
  PROVE  Claims!Claim(S)
<1> USE DEF IInv
<1>1. S \subseteq Fresh(w)
  BY DEF Offers
<1>2. \A t \in S : state[t] = "pending"
  BY <1>1 DEF Offers
<1>3. ASSUME ~Ahead, NEW t \in S, TypeOf[t] \in Singleton
      PROVE  Claims!First(t)
  BY <1>1, <1>3 DEF FirstOfType, IsSingleton, NoneExecutes, IsCanonical, Mates,
                    Claims!First
<1>4. \A t \in Tasks : state'[t] = IF t \in S THEN "executing" ELSE state[t]
  BY DEF Assign
<1>5. /\ {t \in Tasks : state'[t] \in Queued}
           = {t \in Tasks : state[t] \in Queued} \ S
      /\ {t \in Tasks : state'[t] = "pending"}
           = {t \in Tasks : state[t] = "pending"} \ S
      /\ {t \in Tasks : state'[t] = "executing"}
           = {t \in Tasks : state[t] = "executing"} \cup S
  BY <1>1, <1>4 DEF Queued
<1> QED
  BY <1>1, <1>2, <1>3, <1>5 DEF Claims!Claim

LEMMA ClaimStep == IInv /\ [Next]_vars => [Claims!Next]_(Claims!vars)
<1> SUFFICES ASSUME IInv, [Next]_vars
             PROVE  [Claims!Next]_(Claims!vars)
  OBVIOUS
<1>1. CASE UNCHANGED state
  BY <1>1 DEF Claims!vars
<1>2. ASSUME NEW t \in Tasks, Elapse(t)
      PROVE  Claims!Elapse(t)
  BY <1>2 DEF Elapse, IInv, TypeOK, Queued, Claims!Elapse
<1>3. ASSUME NEW t \in Tasks, End(t)
      PROVE  Claims!Leave(t)
  BY <1>3 DEF End, IInv, TypeOK, Queued, Claims!Leave
<1>4. CASE \E t \in Tasks : Elapse(t) \/ End(t)
  BY <1>2, <1>3, <1>4 DEF Claims!Next
<1>5. CASE \E t \in Tasks, s \in Queued : Enqueue(t, s) \/ Requeue(t, s)
  BY <1>5, EnqueueEnters DEF Claims!Next
<1>6. CASE \E w \in Claimers : Read(w) \/ Lock(w) \/ Assign(w) \/ Rollback(w)
  <2>1. PICK w \in Claimers : Read(w) \/ Lock(w) \/ Assign(w) \/ Rollback(w)
    BY <1>6
  <2>2. CASE Assign(w)
    <3>1. PICK S \in SUBSET Tasks : S = locked[w]
      BY DEF IInv, TypeOK
    <3> QED
      BY <2>2, <3>1, AssignClaims DEF Claims!Next
  <2> QED
    BY <1>1, <2>1, <2>2 DEF Read, Lock, Rollback
<1> QED
  BY <1>1, <1>4, <1>5, <1>6 DEF Next, vars

\* Concurrent claims under old snapshots are as good as claims made one after
\* the other, for any number of claimers and any batch size; singleton types
\* included unless tasks become pending ahead of others (claim_task).
THEOREM ImplementsDispatch == Spec => DispatchSpec
<1>1. Init => Claims!Init
  BY DEF Init, Claims!Init, Queued
<1> QED
  BY <1>1, ClaimStep, Invariant, PTL DEF Spec, DispatchSpec, Claims!Spec
=============================================================================
