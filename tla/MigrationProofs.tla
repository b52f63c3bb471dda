--------------------------- MODULE MigrationProofs ---------------------------
(***************************************************************************)
(* Keyed tasks and migrations for every number of tasks, creators and keys. *)
(* First the invariant of UniqueKey, for its own actions; then every step   *)
(* of Migration is one of those, or leaves the rows alone, and what the     *)
(* record of a migration says follows from what its tasks are.              *)
(***************************************************************************)
EXTENDS Migration, TLAPS

\* What a creator may conclude from its snapshot and its locks.
Reading(c) ==
  /\ tx[c].pc = "idle" => tx[c] = Idle
  /\ tx[c].pc # "idle" => tx[c].key \in Keys
  /\ tx[c].seen # None =>
       /\ KeyOf[tx[c].seen] = tx[c].key
       /\ ~tx[c].stale => state[tx[c].seen] \in Active
  /\ tx[c].pc = "reused" =>
       tx[c].task = tx[c].seen /\ tx[c].seen # None /\ ~tx[c].stale
  /\ tx[c].pc = "inserted" =>
       /\ tx[c].task \in Tasks /\ KeyOf[tx[c].task] = tx[c].key
       /\ state[tx[c].task] = "absent"

KInv == KeyTypeOK /\ (\A c \in Creators : Reading(c)) /\ OneActivePerKey

LEMMA IdleTx ==
  /\ Idle \in Transactions
  /\ Idle.pc = "idle" /\ Idle.seen = None
BY DEF Idle, Transactions

LEMMA KeyInitInv == KeyInit => KInv
BY KeyAssumption, IdleTx
   DEF KeyInit, KInv, KeyTypeOK, Reading, OneActivePerKey, Idle, ActiveOf,
       Inserting, Active, States

\* A row moves between states while nobody holds it: the creators that read
\* it learn that they are stale.
LEMMA MoveReading ==
  ASSUME KInv, NEW S \in SUBSET Tasks,
         \A t \in S : ~Held(t) /\ state[t] # "absent",
         NEW s \in [Tasks -> States],
         state' = [t \in Tasks |-> IF t \in S THEN s[t] ELSE state[t]],
         tx' = Seen(S)
  PROVE  /\ tx' \in [Creators -> Transactions]
         /\ \A c \in Creators : Reading(c)'
         /\ \A k \in Keys : Inserting(k)' = Inserting(k)
<1> USE DEF KInv, KeyTypeOK
<1>1. \A c \in Creators : tx'[c] = IF tx[c].seen \in S
                                   THEN [tx[c] EXCEPT !.stale = TRUE]
                                   ELSE tx[c]
  BY DEF Seen
<1>2. \A c \in Creators :
        /\ tx'[c].pc = tx[c].pc /\ tx'[c].key = tx[c].key
        /\ tx'[c].seen = tx[c].seen /\ tx'[c].task = tx[c].task
        /\ ~tx'[c].stale => ~tx[c].stale /\ tx[c].seen \notin S
        /\ tx[c].seen \notin S => tx'[c] = tx[c]
  BY <1>1 DEF Transactions
<1>3. ASSUME NEW c \in Creators PROVE Reading(c)'
  <2>1. Reading(c)
    OBVIOUS
  <2>2. tx[c].seen \in Tasks \cup {None} /\ tx[c].task \in Tasks \cup {None}
    BY DEF Transactions
  <2>3. tx[c].pc = "idle" => tx'[c] = Idle
    BY <1>1, <2>1, IdleTx, KeyAssumption DEF Reading
  <2>4. tx[c].pc = "reused" => tx[c].seen \notin S
    BY <2>1 DEF Reading, Held
  <2>5. tx[c].pc = "inserted" => tx[c].task \notin S
    BY <2>1 DEF Reading
  <2> QED
    BY <1>2, <2>1, <2>2, <2>3, <2>4, <2>5 DEF Reading
<1>4. tx' = [c \in Creators |-> tx'[c]]
  BY DEF Seen
<1>5. \A c \in Creators :
        tx'[c] \in Transactions
  BY <1>1 DEF Transactions
<1> QED
  BY <1>2, <1>3, <1>4, <1>5 DEF Inserting

\* Moves that make no row active.
LEMMA MoveInv ==
  ASSUME KInv, NEW t \in Tasks, NEW s \in States, Move(t, s),
         state[t] # "absent", s \in Active => state[t] \in Active
  PROVE  /\ state' \in [Tasks -> States]
         /\ \A c \in Creators : Reading(c)'
         /\ tx' \in [Creators -> Transactions]
         /\ OneActivePerKey'
<1> DEFINE f == [u \in Tasks |-> s]
<1>1. f \in [Tasks -> States]
  OBVIOUS
<1>2. state' = [u \in Tasks |-> IF u \in {t} THEN f[u] ELSE state[u]]
  BY DEF Move, KInv, KeyTypeOK
<1> HIDE DEF f
<1>3. /\ tx' \in [Creators -> Transactions]
      /\ \A c \in Creators : Reading(c)'
      /\ \A k \in Keys : Inserting(k)' = Inserting(k)
  BY <1>1, <1>2, MoveReading DEF Move
<1>4. \A k \in Keys : ActiveOf(k)' \subseteq ActiveOf(k)
  BY DEF ActiveOf, Move, KInv, KeyTypeOK
<1>5. OneActivePerKey'
  BY <1>3, <1>4 DEF OneActivePerKey, KInv
<1> QED
  BY <1>3, <1>5 DEF Move, KInv, KeyTypeOK

\* Rows that the index admits become pending.
LEMMA AdmittedInv ==
  ASSUME KInv, NEW S \in SUBSET Tasks, Admitted(S),
         \A t \in S : state[t] = "failed",
         state' = [t \in Tasks |-> IF t \in S THEN "pending" ELSE state[t]],
         tx' = Seen(S), retries' \in [Tasks -> 0..MaxRetries]
  PROVE  KInv'
<1> DEFINE f == [t \in Tasks |-> "pending"]
<1>1. f \in [Tasks -> States]
  BY DEF States, Active
<1>2. state' = [t \in Tasks |-> IF t \in S THEN f[t] ELSE state[t]]
  OBVIOUS
<1>3. \A t \in S : ~Held(t) /\ state[t] # "absent"
  BY DEF KInv, Reading, Held, Active, KeyTypeOK
<1> HIDE DEF f
<1>4. /\ tx' \in [Creators -> Transactions]
      /\ \A c \in Creators : Reading(c)'
      /\ \A k \in Keys : Inserting(k)' = Inserting(k)
  BY <1>1, <1>2, <1>3, MoveReading
<1>5. KeyTypeOK'
  BY <1>4 DEF KInv, KeyTypeOK, States, Active
<1>6. \A k \in Keys : ActiveOf(k)' =
        ActiveOf(k) \cup {t \in S : KeyOf[t] = k}
  BY DEF ActiveOf, Active
<1>7. OneActivePerKey'
  <2> SUFFICES ASSUME NEW k \in Keys
               PROVE  /\ \A t, u \in ActiveOf(k)' : t = u
                      /\ \A c, d \in Inserting(k)' : c = d
                      /\ Inserting(k)' # {} => ActiveOf(k)' = {}
    BY DEF OneActivePerKey
  <2>1. CASE \E t \in S : KeyOf[t] = k
    BY <1>4, <1>6, <2>1 DEF Admitted
  <2>2. CASE ~\E t \in S : KeyOf[t] = k
    BY <1>4, <1>6, <2>2 DEF KInv, OneActivePerKey
  <2> QED
    BY <2>1, <2>2
<1> QED
  BY <1>4, <1>5, <1>7 DEF KInv

LEMMA CreatorInv ==
  ASSUME KInv, NEW c \in Creators,
         \/ \E k \in Keys : Begin(c, k)
         \/ Reuse(c) \/ Abort(c)
  PROVE  KInv'
<1> USE KeyAssumption DEF KInv, KeyTypeOK
<1>1. state' = state /\ retries' = retries
  BY DEF Begin, Reuse, Abort
<1>2. \A d \in Creators \ {c} : tx'[d] = tx[d]
  BY DEF Begin, Reuse, Abort
<1>3. CASE \E k \in Keys : Begin(c, k)
  <2>1. PICK k \in Keys, t \in Tasks \cup {None} :
          /\ IF ActiveOf(k) = {} THEN t = None ELSE t \in ActiveOf(k)
          /\ tx' = [tx EXCEPT ![c] = [Idle EXCEPT !.pc = "begun", !.key = k,
                                                  !.seen = t]]
    BY <1>3 DEF Begin
  <2>2. tx'[c] = [pc |-> "begun", key |-> k, seen |-> t, stale |-> FALSE,
                  task |-> None]
    BY <2>1 DEF Idle
  <2>3. KeyTypeOK'
    BY <1>1, <2>1 DEF Idle, Transactions
  <2>4. \A d \in Creators : Reading(d)'
    BY <1>1, <1>2, <2>1, <2>2 DEF Reading, ActiveOf
  <2>5. \A l \in Keys : Inserting(l)' \subseteq Inserting(l)
    BY <1>2, <2>2 DEF Inserting
  <2> QED
    BY <1>1, <2>3, <2>4, <2>5 DEF OneActivePerKey, ActiveOf
<1>4. CASE Reuse(c)
  <2>1. /\ tx'[c] = [tx[c] EXCEPT !.pc = "reused", !.task = tx[c].seen]
        /\ tx'[c] \in Transactions /\ tx'[c].pc = "reused"
    BY <1>4 DEF Reuse, Transactions
  <2>2. KeyTypeOK'
    BY <1>1, <1>4, <2>1 DEF Reuse
  <2>3. \A d \in Creators : Reading(d)'
    BY <1>1, <1>2, <1>4, <2>1 DEF Reading, Reuse, Transactions
  <2>4. \A l \in Keys : Inserting(l)' \subseteq Inserting(l)
    BY <1>2, <2>1 DEF Inserting
  <2> QED
    BY <1>1, <2>2, <2>3, <2>4 DEF OneActivePerKey, ActiveOf
<1>5. CASE Abort(c)
  <2>1. tx'[c] = Idle
    BY <1>5 DEF Abort
  <2>2. KeyTypeOK'
    BY <1>1, <1>5, IdleTx DEF Abort
  <2>3. Reading(c)'
    BY <2>1, IdleTx DEF Reading
  <2>4. \A d \in Creators \ {c} : Reading(d)'
    BY <1>1, <1>2 DEF Reading
  <2>5. \A l \in Keys : Inserting(l)' \subseteq Inserting(l)
    BY <1>2, <2>1, IdleTx DEF Inserting
  <2> QED
    BY <1>1, <2>2, <2>3, <2>4, <2>5 DEF OneActivePerKey, ActiveOf
<1> QED
  BY <1>3, <1>4, <1>5

LEMMA InsertInv ==
  ASSUME KInv, NEW c \in Creators, NEW t \in Tasks, Insert(c, t)
  PROVE  KInv'
<1> USE KeyAssumption DEF KInv, KeyTypeOK
<1>1. state' = state /\ retries' = retries
  BY DEF Insert
<1>2. /\ \A d \in Creators \ {c} : tx'[d] = tx[d]
      /\ tx'[c] = [tx[c] EXCEPT !.pc = "inserted", !.task = t]
  BY DEF Insert
<1>3. KeyTypeOK'
  <2>1. tx'[c] \in Transactions
    BY <1>2 DEF Transactions
  <2> QED
    BY <1>1, <1>2, <2>1 DEF Insert
<1>4. \A d \in Creators : Reading(d)'
  BY <1>1, <1>2 DEF Reading, Insert, Transactions
<1>5. \A l \in Keys : /\ ActiveOf(l)' = ActiveOf(l)
                      /\ Inserting(l)' = IF l = KeyOf[t] THEN {c}
                                         ELSE Inserting(l)
  BY <1>1, <1>2 DEF Inserting, ActiveOf, Insert, Transactions
<1>6. OneActivePerKey'
  BY <1>5 DEF OneActivePerKey, Insert
<1> QED
  BY <1>3, <1>4, <1>6

LEMMA CommitInv ==
  ASSUME KInv, NEW c \in Creators, Commit(c)
  PROVE  /\ KInv'
         /\ tx[c].task \in Tasks /\ KeyOf[tx[c].task] = tx[c].key
         /\ state'[tx[c].task] \in Active
         /\ \A k \in Keys : ActiveOf(k) \subseteq ActiveOf(k)'
<1> USE KeyAssumption DEF KInv, KeyTypeOK
<1>1. Reading(c) /\ tx[c].key \in Keys
  BY DEF Reading, Commit
<1>2. /\ \A d \in Creators \ {c} : tx'[d] = tx[d]
      /\ tx'[c] = Idle /\ retries' = retries
  BY DEF Commit
<1>3. tx' \in [Creators -> Transactions]
  BY IdleTx DEF Commit
<1>4. \A l \in Keys : Inserting(l)' = Inserting(l) \ {c}
  BY <1>2, IdleTx DEF Inserting
<1>7. Reading(c)'
  BY <1>2, IdleTx DEF Reading
<1>5. CASE tx[c].pc = "reused"
  <2>1. state' = state
    BY <1>5 DEF Commit
  <2>2. \A d \in Creators : Reading(d)'
    BY <1>2, <1>7, <2>1 DEF Reading
  <2>3. OneActivePerKey'
    BY <1>4, <2>1 DEF OneActivePerKey, ActiveOf
  <2>4. tx[c].task \in Tasks /\ state[tx[c].task] \in Active
        /\ KeyOf[tx[c].task] = tx[c].key
    BY <1>1, <1>5 DEF Reading, Transactions
  <2> QED
    BY <1>2, <1>3, <2>1, <2>2, <2>3, <2>4 DEF ActiveOf
<1>6. CASE tx[c].pc = "inserted"
  <2> DEFINE t == tx[c].task
  <2>1. t \in Tasks /\ KeyOf[t] = tx[c].key /\ state[t] = "absent"
    BY <1>1, <1>6 DEF Reading
  <2>2. state' = [state EXCEPT ![t] = "pending"]
    BY <1>6 DEF Commit
  <2> HIDE DEF t
  <2>3. state' \in [Tasks -> States]
    BY <2>1, <2>2 DEF States, Active
  <2>4. c \in Inserting(KeyOf[t]) /\ KeyOf[t] \in Keys
    BY <1>6, <2>1 DEF Inserting
  <2>5. \A d \in Creators : Reading(d)'
    <3> SUFFICES ASSUME NEW d \in Creators, d # c PROVE Reading(d)'
      BY <1>7
    <3>1. tx[d].pc = "inserted" => tx[d].task # t
      BY <2>1, <2>4 DEF Reading, Inserting, OneActivePerKey
    <3>2. Reading(d) /\ tx'[d] = tx[d]
      BY <1>2
    <3>3. \A u \in Tasks : state[u] \in Active => state'[u] \in Active
      BY <2>2 DEF Active
    <3>4. \A u \in Tasks \ {t} : state'[u] = state[u]
      BY <2>2
    <3>5. tx[d].seen \in Tasks \cup {None}
      BY DEF Transactions
    <3> QED
      BY <3>1, <3>2, <3>3, <3>4, <3>5 DEF Reading
  <2>6. \A k \in Keys : ActiveOf(k)' = IF k = KeyOf[t] THEN {t}
                                       ELSE ActiveOf(k)
    <3> SUFFICES ASSUME NEW k \in Keys
                 PROVE  ActiveOf(k)' = IF k = KeyOf[t] THEN {t}
                                       ELSE ActiveOf(k)
      OBVIOUS
    <3>1. ActiveOf(KeyOf[t]) = {}
      BY <2>4 DEF OneActivePerKey
    <3>2. \A u \in Tasks : state'[u] = IF u = t THEN "pending" ELSE state[u]
      BY <2>2
    <3> QED
      BY <2>1, <3>1, <3>2 DEF ActiveOf, Active
  <2>7. OneActivePerKey'
    BY <1>4, <2>4, <2>6 DEF OneActivePerKey
  <2>8. \A k \in Keys : ActiveOf(k) \subseteq ActiveOf(k)'
    BY <2>4, <2>6 DEF OneActivePerKey
  <2>9. state'[t] \in Active
    BY <2>1, <2>2 DEF Active
  <2>10. KInv'
    BY <1>2, <1>3, <2>3, <2>5, <2>7
  <2> QED
    BY <2>1, <2>8, <2>9, <2>10 DEF t
<1> QED
  BY <1>5, <1>6 DEF Commit

LEMMA RowInv ==
  ASSUME KInv, NEW t \in Tasks,
         \/ Claim(t) \/ Complete(t) \/ Fail(t) \/ Cancel(t) \/ Requeue(t)
         \/ Release(t)
  PROVE  KInv'
<1> USE DEF KInv, KeyTypeOK
<1>1. retries' \in [Tasks -> 0..MaxRetries]
  BY KeyAssumption DEF Claim, Complete, Fail, Cancel, Requeue, Release
<1>2. PICK s \in States : /\ Move(t, s) /\ state[t] # "absent"
                          /\ s \in Active => state[t] \in Active
  BY DEF Claim, Complete, Fail, Cancel, Requeue, Release, States, Active
<1> QED
  BY <1>1, <1>2, MoveInv

LEMMA RetryInv ==
  ASSUME KInv,
         \/ \E t \in Tasks : ManualRetry(t)
         \/ \E S \in SUBSET Tasks : AutoRetryFailed(S)
  PROVE  KInv'
<1>1. ASSUME NEW t \in Tasks, ManualRetry(t) PROVE KInv'
  <2>1. state' = [u \in Tasks |-> IF u \in {t} THEN "pending" ELSE state[u]]
    BY <1>1 DEF ManualRetry, Move, KInv, KeyTypeOK
  <2> QED
    BY <1>1, <2>1, AdmittedInv DEF ManualRetry, Move, KInv, KeyTypeOK
<1>2. ASSUME NEW S \in SUBSET Tasks, AutoRetryFailed(S) PROVE KInv'
  <2>1. retries' \in [Tasks -> 0..MaxRetries]
    BY <1>2, KeyAssumption DEF AutoRetryFailed, KInv, KeyTypeOK
  <2> QED
    BY <1>2, <2>1, AdmittedInv DEF AutoRetryFailed
<1> QED
  BY <1>1, <1>2

LEMMA KeyStepInv == KInv /\ [KeyNext]_keyVars => KInv'
<1> SUFFICES ASSUME KInv, [KeyNext]_keyVars
             PROVE  KInv'
  OBVIOUS
<1>1. CASE UNCHANGED keyVars
  BY <1>1 DEF keyVars, KInv, KeyTypeOK, Reading, OneActivePerKey, ActiveOf,
              Inserting
<1>2. CASE KeyNext
  BY <1>2, CreatorInv, InsertInv, CommitInv, RowInv, RetryInv DEF KeyNext
<1> QED
  BY <1>1, <1>2

\* The rows of Migration are those of UniqueKey: the record and its hooks only
\* restrict when they move.
LEMMA StepIsKeyStep == [Next]_vars => [KeyNext]_keyVars
BY DEF Next, vars, KeyNext, BeginSchedule, Enqueue, CommitSchedule,
       SwallowSchedule, AbortSchedule, Start, Returns, Dropped, Retries, Raises,
       Dies, Recover, CancelTask, Retry

\* Migration implements UniqueKey (create_task and its callers).
THEOREM ImplementsUniqueKey == Spec => KeySpec
<1>1. Init => KeyInit
  BY DEF Init
<1> QED
  BY <1>1, StepIsKeyStep, PTL DEF Spec, KeySpec

LEMMA KeyInvariant == Spec => []KInv
BY KeyInitInv, KeyStepInv, ImplementsUniqueKey, PTL DEF KeySpec

\* One active task per key, counting uncommitted inserts, whatever mixes of
\* creations and retries the callers make (create_task).
THEOREM OneTaskPerKey == Spec => []OneActivePerKey
BY KeyInvariant, PTL DEF KInv

\* A task that create_task returned is not finished under its caller's feet.
THEOREM ReturnedTaskIsActive == Spec => []ReturnedIsActive
<1>1. KInv => ReturnedIsActive
  BY DEF KInv, KeyTypeOK, Reading, ReturnedIsActive
<1> QED
  BY <1>1, KeyInvariant, PTL

------------------------------------------------------------------------------
\* The registry of keys

Current == {t \in Tasks : state[t] \in Active}
Leases == [c \in Creators |-> IF tx[c].pc = "reused" THEN tx[c].task ELSE None]

LEMMA RegistryInit == KeyInit => Registry!Init
BY IdleTx DEF KeyInit, Registry!Init, Active

\* A creator's own steps leave the other creators' leases alone.
LEMMA CreatorRegisters ==
  ASSUME KInv, NEW c \in Creators,
         \/ \E k \in Keys : Begin(c, k)
         \/ \E t \in Tasks : Insert(c, t)
         \/ Reuse(c) \/ Abort(c)
  PROVE  [Registry!Next]_(Registry!vars)
<1> USE DEF KInv, KeyTypeOK
<1>1. Current' = Current
  BY DEF Current, Begin, Insert, Reuse, Abort
<1>2. \A d \in Creators \ {c} : tx'[d] = tx[d]
  BY DEF Begin, Insert, Reuse, Abort
<1>3. CASE \/ \E k \in Keys : Begin(c, k)
           \/ \E t \in Tasks : Insert(c, t)
  <2>1. tx[c].pc # "reused" /\ tx'[c].pc # "reused"
    BY <1>3 DEF Begin, Insert, Transactions, Idle
  <2>2. Leases' = Leases
    BY <1>2, <2>1 DEF Leases
  <2> QED
    BY <1>1, <2>2 DEF Registry!vars, Current, Leases
<1>4. CASE Abort(c)
  <2>1. tx'[c].pc # "reused"
    BY <1>4, IdleTx DEF Abort
  <2>2. Leases' = [Leases EXCEPT ![c] = None]
    BY <1>2, <2>1 DEF Leases
  <2>3. Registry!GiveBack(c)
    BY <1>1, <2>2 DEF Registry!GiveBack, Current, Leases
  <2> QED
    BY <2>3 DEF Registry!Next
<1>5. CASE Reuse(c)
  <2> DEFINE t == tx[c].seen
  <2>1. t \in Tasks /\ state[t] \in Active
    BY <1>5 DEF Reuse, Reading, Transactions
  <2>2. tx'[c].pc = "reused" /\ tx'[c].task = t
    BY <1>5 DEF Reuse, Transactions
  <2>3. Leases' = [Leases EXCEPT ![c] = t]
    BY <1>2, <2>2 DEF Leases
  <2>4. Leases[c] = None /\ \A d \in Creators : Leases[d] # t
    BY <1>5, <2>1, KeyAssumption DEF Reuse, Leases, Held
  <2> HIDE DEF t
  <2>5. PICK u \in Tasks : u = t
    BY <2>1
  <2>6. Registry!Lease(c, u)
    BY <1>1, <2>1, <2>3, <2>4, <2>5 DEF Registry!Lease, Current, Leases
  <2> QED
    BY <2>6 DEF Registry!Next
<1> QED
  BY <1>3, <1>4, <1>5

\* A commit gives a lease back, or makes the row it inserted current.
LEMMA CommitRegisters ==
  ASSUME KInv, NEW c \in Creators, Commit(c)
  PROVE  [Registry!Next]_(Registry!vars)
<1> USE DEF KInv, KeyTypeOK
<1>1. tx'[c].pc # "reused" /\ \A d \in Creators \ {c} : tx'[d] = tx[d]
  BY IdleTx DEF Commit
<1>2. Leases' = [Leases EXCEPT ![c] = None]
  BY <1>1 DEF Leases
<1>3. CASE tx[c].pc = "reused"
  <2>1. Registry!GiveBack(c)
    BY <1>2, <1>3 DEF Commit, Registry!GiveBack, Current, Leases
  <2> QED
    BY <2>1 DEF Registry!Next
<1>4. CASE tx[c].pc = "inserted"
  <2>1. PICK t \in Tasks : t = tx[c].task
    BY CommitInv
  <2>2. KeyOf[t] = tx[c].key /\ state[t] = "absent" /\ KeyOf[t] \in Keys
    BY <1>4, <2>1, KeyAssumption DEF Reading
  <2>3. ActiveOf(KeyOf[t]) = {}
    BY <1>4, <2>2 DEF OneActivePerKey, Inserting
  <2>4. state' = [state EXCEPT ![t] = "pending"]
    BY <1>4, <2>1 DEF Commit
  <2>5. Current' = Current \cup {t}
    BY <2>4 DEF Current, Active
  <2>6. Leases' = Leases
    BY <1>2, <1>4 DEF Leases
  <2>7. \A u \in Current : KeyOf[u] # KeyOf[t]
    BY <2>3 DEF Current, ActiveOf
  <2>8. Registry!Enter({t})
    BY <2>5, <2>6, <2>7 DEF Registry!Enter, Current, Leases
  <2> QED
    BY <2>8 DEF Registry!Next
<1> QED
  BY <1>3, <1>4 DEF Commit

\* Rows that move keep every lease.
LEMMA SeenKeepsLeases ==
  ASSUME KInv, NEW S, tx' = Seen(S)
  PROVE  Leases' = Leases
BY DEF KInv, KeyTypeOK, Transactions, Seen, Leases

LEMMA RowRegisters ==
  ASSUME KInv, NEW t \in Tasks,
         \/ Claim(t) \/ Complete(t) \/ Fail(t) \/ Cancel(t) \/ Requeue(t)
         \/ Release(t)
  PROVE  [Registry!Next]_(Registry!vars)
<1> USE DEF KInv, KeyTypeOK
<1>1. PICK s \in States : Move(t, s) /\ state[t] \in Active
  BY DEF Claim, Complete, Fail, Cancel, Requeue, Release, Active, States
<1>2. Leases' = Leases
  BY <1>1, SeenKeepsLeases DEF Move
<1>3. Current' = IF s \in Active THEN Current ELSE Current \ {t}
  BY <1>1 DEF Move, Current
<1>4. CASE s \in Active
  BY <1>2, <1>3, <1>4 DEF Registry!vars, Current, Leases
<1>5. CASE s \notin Active
  <2>1. \A c \in Creators : Leases[c] # t
    BY <1>1, KeyAssumption DEF Move, Held, Leases
  <2>2. Registry!Retire(t)
    BY <1>1, <1>2, <1>3, <1>5, <2>1 DEF Registry!Retire, Current, Leases
  <2> QED
    BY <2>2 DEF Registry!Next
<1> QED
  BY <1>4, <1>5

LEMMA AdmittedRegisters ==
  ASSUME KInv, NEW S \in SUBSET Tasks, Admitted(S),
         state' = [t \in Tasks |-> IF t \in S THEN "pending" ELSE state[t]],
         tx' = Seen(S)
  PROVE  Registry!Next
<1>1. Leases' = Leases
  BY SeenKeepsLeases
<1>2. Current' = Current \cup S
  BY DEF Current, Active
<1>3. /\ \A t \in S, u \in Current \cup S : KeyOf[t] = KeyOf[u] => t = u
      /\ S \cap Current = {}
  BY DEF Admitted, Current, ActiveOf
<1>4. Registry!Enter(S)
  BY <1>1, <1>2, <1>3 DEF Registry!Enter, Current, Leases
<1> QED
  BY <1>4 DEF Registry!Next

LEMMA RetryRegisters ==
  ASSUME KInv,
         \/ \E t \in Tasks : ManualRetry(t)
         \/ \E S \in SUBSET Tasks : AutoRetryFailed(S)
  PROVE  Registry!Next
<1>1. ASSUME NEW t \in Tasks, ManualRetry(t) PROVE Registry!Next
  <2>1. state' = [u \in Tasks |-> IF u \in {t} THEN "pending" ELSE state[u]]
    BY <1>1 DEF ManualRetry, Move, KInv, KeyTypeOK
  <2> QED
    BY <1>1, <2>1, AdmittedRegisters DEF ManualRetry, Move
<1>2. ASSUME NEW S \in SUBSET Tasks, AutoRetryFailed(S) PROVE Registry!Next
  BY <1>2, AdmittedRegisters DEF AutoRetryFailed
<1> QED
  BY <1>1, <1>2

LEMMA KeyStepRegisters ==
  KInv /\ [KeyNext]_keyVars => [Registry!Next]_(Registry!vars)
<1> SUFFICES ASSUME KInv, [KeyNext]_keyVars
             PROVE  [Registry!Next]_(Registry!vars)
  OBVIOUS
<1>1. CASE UNCHANGED keyVars
  BY <1>1 DEF keyVars, Registry!vars
<1>2. CASE KeyNext
  BY <1>2, CreatorRegisters, CommitRegisters, RowRegisters, RetryRegisters
     DEF KeyNext
<1> QED
  BY <1>1, <1>2

\* Looking up and creating a keyed task is as good as one step, and what a
\* caller reuses stays current until it commits (create_task).
THEOREM ImplementsRegistry == Spec => RegistrySpec
<1>1. KeySpec => []KInv
  BY KeyInitInv, KeyStepInv, PTL DEF KeySpec
<1> QED
  BY <1>1, RegistryInit, KeyStepRegisters, ImplementsUniqueKey, PTL
     DEF KeySpec, RegistrySpec, Registry!Spec

------------------------------------------------------------------------------
\* The life of a row

Rows == INSTANCE TaskRows WITH MaxRetries <- [t \in Tasks |-> MaxRetries]

\* A row that moves alone.
LEMMA MoveRows ==
  ASSUME KInv, NEW t \in Tasks,
         \/ Claim(t) \/ Complete(t) \/ Fail(t) \/ Cancel(t) \/ Requeue(t)
         \/ Release(t) \/ ManualRetry(t)
  PROVE  Rows!Next
<1> SUFFICES ASSUME NEW u \in Tasks PROVE Rows!RowStep(u)
  BY DEF Rows!Next
<1> USE DEF KInv, KeyTypeOK
<1>1. CASE u # t
  BY <1>1 DEF Claim, Complete, Fail, Cancel, Requeue, Release, ManualRetry, Move,
              Rows!RowStep, Rows!Stay, Rows!Moves, Rows!Free
<1>2. CASE u = t
  BY <1>2, KeyAssumption
     DEF Claim, Complete, Fail, Cancel, Requeue, Release, ManualRetry, Move, Active,
         Rows!RowStep, Rows!Claim, Rows!End, Rows!Cancel, Rows!Retry, Rows!Moves,
         Rows!Free, Rows!Charged
<1> QED
  BY <1>1, <1>2

LEMMA BatchRows ==
  ASSUME KInv, NEW S \in SUBSET Tasks, AutoRetryFailed(S)
  PROVE  Rows!Next
<1> SUFFICES ASSUME NEW u \in Tasks PROVE Rows!RowStep(u)
  BY DEF Rows!Next
<1>1. CASE u \notin S
  BY <1>1 DEF AutoRetryFailed, Rows!RowStep, Rows!Stay, Rows!Moves, Rows!Free
<1>2. CASE u \in S
  BY <1>2 DEF AutoRetryFailed, Rows!RowStep, Rows!Retry, Rows!Moves, Rows!Charged
<1> QED
  BY <1>1, <1>2

\* An insert shows in the table when its transaction commits.
LEMMA CommitRows ==
  ASSUME KInv, NEW c \in Creators, Commit(c)
  PROVE  [Rows!Next]_(Rows!rowVars)
<1> USE DEF KInv, KeyTypeOK
<1>1. CASE tx[c].pc = "reused"
  BY <1>1 DEF Commit, Rows!rowVars
<1>2. CASE tx[c].pc = "inserted"
  <2>1. /\ tx[c].task \in Tasks /\ state[tx[c].task] = "absent"
        /\ state' = [state EXCEPT ![tx[c].task] = "pending"]
        /\ UNCHANGED retries
    BY <1>2 DEF Commit, Reading
  <2>2. \A u \in Tasks : Rows!RowStep(u)
    BY <2>1 DEF Rows!RowStep, Rows!Create, Rows!Stay, Rows!Moves, Rows!Free
  <2> QED
    BY <2>2 DEF Rows!Next
<1> QED
  BY <1>1, <1>2 DEF Commit

\* Keyed rows live the common life of rows: the index and the creators only
\* restrict when one becomes active.
THEOREM ImplementsRows == Spec => Rows!Spec
<1>1. KeyInit => Rows!Init
  BY DEF KeyInit, Rows!Init
<1>2. KInv /\ [KeyNext]_keyVars => [Rows!Next]_(Rows!rowVars)
  <2> SUFFICES ASSUME KInv, [KeyNext]_keyVars
               PROVE  [Rows!Next]_(Rows!rowVars)
    OBVIOUS
  <2>1. CASE UNCHANGED <<state, retries>>
    BY <2>1 DEF Rows!rowVars
  <2>2. \/ UNCHANGED <<state, retries>>
        \/ \E c \in Creators : Commit(c)
        \/ \E t \in Tasks : \/ Claim(t) \/ Complete(t) \/ Fail(t) \/ Cancel(t)
                            \/ Requeue(t) \/ Release(t) \/ ManualRetry(t)
        \/ \E S \in SUBSET Tasks : AutoRetryFailed(S)
    BY DEF KeyNext, keyVars, Begin, Reuse, Insert, Abort
  <2> QED
    BY <2>1, <2>2, MoveRows, BatchRows, CommitRows
<1> QED
  BY <1>1, <1>2, KeyInvariant, ImplementsUniqueKey, PTL DEF KeySpec, Rows!Spec

------------------------------------------------------------------------------
\* The record

Schedules ==
  \A c \in Creators :
    /\ /\ tx[c].key \in Migrations /\ record[tx[c].key] = "done"
       /\ tx[c].pc # "idle" /\ c \notin outdated
       => c \in seenDone
    /\ tx[c].pc \in {"reused", "inserted"} => c \notin seenDone

RInv == TypeOK /\ Schedules /\ PendingHasTask

LEMMA InitRInv == Init => RInv
BY KeyInitInv, MigrationAssumption, IdleTx
   DEF Init, KeyInit, KInv, RInv, TypeOK, Schedules, PendingHasTask

\* Writers of rows leave the creators where they are.
LEMMA SeenKeeps ==
  ASSUME KeyTypeOK, NEW S, tx' = Seen(S)
  PROVE  \A c \in Creators : tx'[c].pc = tx[c].pc /\ tx'[c].key = tx[c].key
BY DEF KeyTypeOK, Transactions, Seen

LEMMA MoveKeeps ==
  ASSUME KeyTypeOK, NEW t \in Tasks, NEW s, Move(t, s)
  PROVE  /\ \A c \in Creators : tx'[c].pc = tx[c].pc /\ tx'[c].key = tx[c].key
         /\ \A u \in Tasks : state'[u] = IF u = t THEN s ELSE state[u]
BY SeenKeeps DEF Move, KeyTypeOK

\* The rows' moves, seen from the records.
LEMMA RowKeeps ==
  ASSUME KInv, NEW t \in Tasks,
         \/ Claim(t) \/ Complete(t) \/ Fail(t) \/ Cancel(t) \/ Requeue(t)
         \/ Release(t) \/ Dropped(t) \/ UNCHANGED keyVars
  PROVE  /\ \A c \in Creators : tx'[c].pc = tx[c].pc /\ tx'[c].key = tx[c].key
         /\ \A u \in Tasks \ {t} : state'[u] = state[u]
         /\ Claim(t) \/ Requeue(t) \/ Release(t) \/ UNCHANGED state =>
              (state'[t] \in Active <=> state[t] \in Active)
BY MoveKeeps
   DEF KInv, Claim, Complete, Fail, Cancel, Requeue, Release, Dropped, keyVars,
       Active

\* A step of the record that marks it for a task t.
LEMMA MarkSchedules ==
  ASSUME KInv, RInv, NEW t \in Tasks, NEW s \in {"failed", "done"}, Mark(t, s),
         \A c \in Creators : tx'[c].pc = tx[c].pc /\ tx'[c].key = tx[c].key,
         UNCHANGED seenDone
  PROVE  /\ record' \in [Keys -> {"none", "pending", "failed", "done"}]
         /\ outdated' \in SUBSET (Creators \cup Tasks)
         /\ Schedules'
         /\ \A k \in Migrations :
              record'[k] = IF k = KeyOf[t] THEN s ELSE record[k]
<1> USE MigrationAssumption, KeyAssumption DEF RInv, TypeOK, Mark, IsMigration
<1>1. /\ record' \in [Keys -> {"none", "pending", "failed", "done"}]
      /\ \A k \in Migrations :
           record'[k] = IF k = KeyOf[t] THEN s ELSE record[k]
  OBVIOUS
<1>2. outdated' \in SUBSET (Creators \cup Tasks)
  BY DEF Readers
<1>3. \A c \in Creators :
        c \notin outdated' =>
          c \notin outdated /\ (KeyOf[t] \in Migrations => tx[c].key # KeyOf[t])
  BY DEF Readers
<1>4. Schedules'
  BY <1>1, <1>3 DEF Schedules
<1> QED
  BY <1>1, <1>2, <1>4

LEMMA BeginRInv ==
  ASSUME KInv, RInv, KInv', NEW c \in Creators, NEW k \in Keys,
         BeginSchedule(c, k)
  PROVE  RInv'
<1> USE MigrationAssumption DEF RInv
<1>1. TypeOK'
  BY DEF TypeOK, BeginSchedule, KInv
<1>2. /\ \A d \in Creators \ {c} : tx'[d] = tx[d]
      /\ tx'[c].pc = "begun" /\ tx'[c].key = k
      /\ state' = state
  BY DEF BeginSchedule, Begin, KInv, KeyTypeOK, Idle
<1>3. Schedules'
  BY <1>2 DEF Schedules, BeginSchedule, TypeOK
<1>4. PendingHasTask'
  BY <1>2 DEF PendingHasTask, BeginSchedule, ActiveOf
<1> QED
  BY <1>1, <1>3, <1>4

LEMMA EnqueueRInv ==
  ASSUME KInv, RInv, KInv', NEW c \in Creators, Enqueue(c)
  PROVE  RInv'
<1> USE MigrationAssumption DEF RInv
<1>1. TypeOK'
  BY DEF TypeOK, Enqueue, KInv, migVars
<1>2. /\ \A d \in Creators \ {c} : tx'[d] = tx[d]
      /\ tx'[c].key = tx[c].key /\ tx[c].pc # "idle"
      /\ state' = state
  BY DEF Enqueue, Reuse, Insert, KInv, KeyTypeOK, Transactions
<1>3. Schedules'
  BY <1>2 DEF Schedules, Enqueue, migVars
<1>4. PendingHasTask'
  BY <1>2 DEF PendingHasTask, Enqueue, migVars, ActiveOf
<1> QED
  BY <1>1, <1>3, <1>4

LEMMA CommitRInv ==
  ASSUME KInv, RInv, KInv', NEW c \in Creators, CommitSchedule(c)
  PROVE  RInv'
<1> USE MigrationAssumption, KeyAssumption DEF RInv
<1> DEFINE k == tx[c].key
<1>1. /\ \A d \in Creators \ {c} : tx'[d] = tx[d]
      /\ tx'[c].pc = "idle" /\ k \in Keys
      /\ Commit(c)
  BY IdleTx DEF CommitSchedule, Commit, KInv, KeyTypeOK, Reading
<1>2. TypeOK'
  BY <1>1 DEF TypeOK, CommitSchedule, KInv, Readers
<1>3. Schedules'
  BY <1>1 DEF Schedules, CommitSchedule, TypeOK, Readers
<1>4. /\ tx[c].task \in Tasks /\ KeyOf[tx[c].task] = k
      /\ state'[tx[c].task] \in Active
      /\ \A l \in Keys : ActiveOf(l) \subseteq ActiveOf(l)'
  BY <1>1, CommitInv
<1>5. PendingHasTask'
  <2> SUFFICES ASSUME NEW l \in Migrations \ skipped', record'[l] = "pending"
               PROVE  ActiveOf(l)' # {}
    BY DEF PendingHasTask
  <2>1. CASE l = k
    BY <1>4, <2>1 DEF ActiveOf
  <2>2. CASE l # k
    <3>1. l \notin skipped /\ record[l] = "pending"
      BY <2>2 DEF CommitSchedule, TypeOK
    <3> QED
      BY <1>4, <3>1 DEF PendingHasTask
  <2> QED
    BY <2>1, <2>2
<1> QED
  BY <1>2, <1>3, <1>5

LEMMA AbortRInv ==
  ASSUME KInv, RInv, KInv', NEW c \in Creators, AbortSchedule(c)
  PROVE  RInv'
<1> USE MigrationAssumption DEF RInv
<1>1. /\ \A d \in Creators \ {c} : tx'[d] = tx[d]
      /\ tx'[c].pc = "idle" /\ state' = state
  BY IdleTx DEF AbortSchedule, Abort, KInv, KeyTypeOK
<1>2. TypeOK'
  BY DEF TypeOK, AbortSchedule, KInv
<1>3. Schedules'
  BY <1>1 DEF Schedules, AbortSchedule
<1>4. PendingHasTask'
  BY <1>1 DEF PendingHasTask, AbortSchedule, ActiveOf
<1> QED
  BY <1>2, <1>3, <1>4

LEMMA SwallowRInv ==
  ASSUME KInv, RInv, KInv', NEW c \in Creators, SwallowSchedule(c)
  PROVE  RInv'
<1> USE MigrationAssumption, KeyAssumption DEF RInv
<1> DEFINE k == tx[c].key
<1>1. /\ \A d \in Creators \ {c} : tx'[d] = tx[d]
      /\ tx'[c].pc = "idle" /\ k \in Migrations /\ state' = state
  BY IdleTx DEF SwallowSchedule, Abort, KInv, KeyTypeOK
<1>2. TypeOK'
  BY <1>1 DEF TypeOK, SwallowSchedule, KInv, Readers
<1>3. Schedules'
  BY <1>1 DEF Schedules, SwallowSchedule, TypeOK, Readers
<1>4. PendingHasTask'
  BY <1>1 DEF PendingHasTask, SwallowSchedule, TypeOK, ActiveOf
<1> QED
  BY <1>2, <1>3, <1>4

\* Steps of executions that leave the record alone.
LEMMA QuietRInv ==
  ASSUME KInv, RInv, KInv', NEW t \in Tasks,
         \/ Start(t) \/ Retries(t) \/ Dies(t) \/ CancelTask(t)
         \/ /\ Recover(t) /\ (Requeue(t) \/ Release(t))
            /\ UNCHANGED <<record, outdated, skipped>>
  PROVE  RInv'
<1> USE MigrationAssumption, KeyAssumption DEF RInv
<1>1. /\ \A c \in Creators : tx'[c].pc = tx[c].pc /\ tx'[c].key = tx[c].key
      /\ \A u \in Tasks \ {t} : state'[u] = state[u]
      /\ ~CancelTask(t) => (state'[t] \in Active <=> state[t] \in Active)
  BY RowKeeps DEF Start, Retries, Dies, Recover, CancelTask, Dropped, keyVars
<1>2. /\ UNCHANGED <<record, seenDone>>
      /\ outdated' \subseteq outdated /\ outdated \subseteq outdated' \cup {t}
      /\ skipped' = IF CancelTask(t)
                    THEN skipped \cup ({KeyOf[t]} \cap Migrations) ELSE skipped
      /\ threads' \in SUBSET Tasks
  BY DEF Start, Retries, Dies, Recover, CancelTask, TypeOK
<1>3. TypeOK'
  BY <1>2 DEF TypeOK, KInv
<1>4. Schedules'
  BY <1>1, <1>2 DEF Schedules
<1>5. PendingHasTask'
  BY <1>1, <1>2 DEF PendingHasTask, ActiveOf
<1> QED
  BY <1>3, <1>4, <1>5

\* A hook that is undone leaves the record, and its migration is excused.
LEMMA UndoneRInv ==
  ASSUME KInv, RInv, KInv', NEW t \in Tasks, HookUndone(t),
         \A c \in Creators : tx'[c].pc = tx[c].pc /\ tx'[c].key = tx[c].key,
         \A k \in Migrations : k # KeyOf[t] => ActiveOf(k)' = ActiveOf(k),
         UNCHANGED seenDone, threads' \in SUBSET Tasks
  PROVE  RInv'
<1> USE MigrationAssumption, KeyAssumption DEF RInv, HookUndone, IsMigration
<1>1. TypeOK'
  BY DEF TypeOK, KInv
<1>2. Schedules'
  BY DEF Schedules, TypeOK
<1>3. PendingHasTask'
  BY DEF PendingHasTask
<1> QED
  BY <1>1, <1>2, <1>3

LEMMA ReturnsRInv ==
  ASSUME KInv, RInv, KInv', NEW t \in Tasks, Returns(t)
  PROVE  RInv'
<1> USE MigrationAssumption, KeyAssumption DEF RInv
<1>1. /\ \A c \in Creators : tx'[c].pc = tx[c].pc /\ tx'[c].key = tx[c].key
      /\ \A u \in Tasks \ {t} : state'[u] = state[u]
  BY RowKeeps DEF Returns
<1>2. \A k \in Migrations : k # KeyOf[t] => ActiveOf(k)' = ActiveOf(k)
  BY <1>1 DEF ActiveOf
<1>3. CASE t \in outdated
  <2>1. HookUndone(t) /\ UNCHANGED seenDone /\ threads' \in SUBSET Tasks
    BY <1>3 DEF Returns, TypeOK
  <2>2. \A k \in Migrations : k # KeyOf[t] => ActiveOf(k)' = ActiveOf(k)
    BY <1>2
  <2> QED
    BY <1>1, <2>1, <2>2, UndoneRInv
<1>4. CASE t \notin outdated
  <2>1. /\ record' \in [Keys -> {"none", "pending", "failed", "done"}]
        /\ outdated' \in SUBSET (Creators \cup Tasks)
        /\ Schedules'
        /\ \A k \in Migrations :
             record'[k] = IF k = KeyOf[t] THEN "done" ELSE record[k]
    BY <1>1, <1>4, MarkSchedules DEF Returns
  <2>2. TypeOK'
    BY <1>4, <2>1 DEF TypeOK, Returns, KInv
  <2>3. PendingHasTask'
    BY <1>2, <1>4, <2>1 DEF PendingHasTask, Returns
  <2> QED
    BY <2>1, <2>2, <2>3
<1> QED
  BY <1>3, <1>4

LEMMA FailsRInv ==
  ASSUME KInv, RInv, KInv', NEW t \in Tasks,
         Raises(t) \/ (Recover(t) /\ Fail(t) /\ OnFailure(t))
  PROVE  RInv'
<1> USE MigrationAssumption, KeyAssumption DEF RInv
<1>1. /\ \A c \in Creators : tx'[c].pc = tx[c].pc /\ tx'[c].key = tx[c].key
      /\ \A u \in Tasks \ {t} : state'[u] = state[u]
  BY RowKeeps DEF Raises
<1>2. \A k \in Migrations : k # KeyOf[t] => ActiveOf(k)' = ActiveOf(k)
  BY <1>1 DEF ActiveOf
<1>3. UNCHANGED seenDone /\ threads' \in SUBSET Tasks
  BY DEF Raises, Recover, TypeOK
<1>4. CASE HookUndone(t)
  BY <1>1, <1>2, <1>3, <1>4, UndoneRInv
<1>5. CASE Mark(t, "failed") /\ UNCHANGED skipped
  <2>1. /\ record' \in [Keys -> {"none", "pending", "failed", "done"}]
        /\ outdated' \in SUBSET (Creators \cup Tasks)
        /\ Schedules'
        /\ \A k \in Migrations :
             record'[k] = IF k = KeyOf[t] THEN "failed" ELSE record[k]
    BY <1>1, <1>3, <1>5, MarkSchedules
  <2>2. TypeOK'
    BY <1>3, <1>5, <2>1 DEF TypeOK, KInv
  <2>3. PendingHasTask'
    BY <1>2, <1>5, <2>1 DEF PendingHasTask
  <2> QED
    BY <2>1, <2>2, <2>3
<1> QED
  BY <1>4, <1>5 DEF Raises, OnFailure

LEMMA RetryRInv ==
  ASSUME KInv, RInv, KInv', Retry
  PROVE  RInv'
<1> USE MigrationAssumption DEF RInv
<1>1. \E S \in SUBSET Tasks :
        /\ tx' = Seen(S)
        /\ \A t \in Tasks : state'[t] = IF t \in S THEN "pending" ELSE state[t]
  <2>1. ASSUME NEW t \in Tasks, ManualRetry(t)
        PROVE  /\ tx' = Seen({t})
               /\ \A u \in Tasks : state'[u] = IF u \in {t} THEN "pending"
                                               ELSE state[u]
    BY <2>1 DEF ManualRetry, Move, KInv, KeyTypeOK
  <2> QED
    BY <2>1 DEF Retry, AutoRetryFailed
<1>2. \A c \in Creators : tx'[c].pc = tx[c].pc /\ tx'[c].key = tx[c].key
  BY <1>1, SeenKeeps DEF KInv
<1>3. \A k \in Keys : ActiveOf(k) \subseteq ActiveOf(k)'
  BY <1>1 DEF ActiveOf, Active
<1>4. TypeOK'
  BY DEF TypeOK, Retry, migVars, KInv
<1>5. Schedules'
  BY <1>2 DEF Schedules, Retry, migVars
<1>6. PendingHasTask'
  BY <1>3 DEF PendingHasTask, Retry, migVars
<1> QED
  BY <1>4, <1>5, <1>6

LEMMA StepRInv == KInv /\ RInv /\ [Next]_vars => RInv'
<1> SUFFICES ASSUME KInv, RInv, [Next]_vars
             PROVE  RInv'
  OBVIOUS
<1>1. KInv'
  BY KeyStepInv, StepIsKeyStep
<1>2. CASE UNCHANGED vars
  BY <1>1, <1>2 DEF vars, keyVars, migVars, RInv, TypeOK, KInv, Schedules,
                    PendingHasTask, ActiveOf
<1>3. CASE \E c \in Creators, k \in Keys : BeginSchedule(c, k)
  BY <1>1, <1>3, BeginRInv
<1>4. CASE \E c \in Creators :
             \/ Enqueue(c) \/ CommitSchedule(c)
             \/ SwallowSchedule(c) \/ AbortSchedule(c)
  BY <1>1, <1>4, EnqueueRInv, CommitRInv, SwallowRInv, AbortRInv
<1>5. CASE \E t \in Tasks : \/ Start(t) \/ Retries(t) \/ Dies(t)
                            \/ CancelTask(t)
  BY <1>1, <1>5, QuietRInv
<1>6. CASE \E t \in Tasks : Returns(t) \/ Raises(t)
  BY <1>1, <1>6, ReturnsRInv, FailsRInv
<1>7. CASE \E t \in Tasks : Recover(t)
  <2>1. PICK t \in Tasks : Recover(t)
    BY <1>7
  <2>2. \/ /\ Requeue(t) \/ Release(t)
           /\ UNCHANGED <<record, outdated, skipped>>
        \/ Fail(t) /\ OnFailure(t)
    BY <2>1 DEF Recover
  <2> QED
    BY <1>1, <2>1, <2>2, QuietRInv, FailsRInv
<1>8. CASE Retry
  BY <1>1, <1>8, RetryRInv
<1> QED
  BY <1>2, <1>3, <1>4, <1>5, <1>6, <1>7, <1>8 DEF Next

LEMMA RecordInvariant == Spec => [](KInv /\ RInv)
<1>1. Init => KInv /\ RInv
  BY InitRInv, KeyInitInv DEF Init
<1>2. KInv /\ RInv /\ [Next]_vars => (KInv /\ RInv)'
  BY StepRInv, KeyStepInv, StepIsKeyStep
<1> QED
  BY <1>1, <1>2, PTL DEF Spec

\* Types of rows, records and open transactions.
THEOREM TypeCorrect == Spec => []TypeOK
BY RecordInvariant, PTL DEF RInv

\* A pending record has an active task, until a cancel, or a hook or a schedule
\* that was undone and its error swallowed, and again from the next schedule
\* that goes through (_schedule_migration, on_failure, on_success).
THEOREM PendingMigrationsHaveTasks == Spec => []PendingHasTask
BY RecordInvariant, PTL DEF RInv

\* No upgrade takes a migration that is done back (_schedule_migration).
THEOREM DoneMigrationsStay == Spec => DoneIsNotScheduled
<1> DEFINE Stays(k) == record[k] = "done" =>
             /\ record'[k] # "pending"
             /\ \A t \in Tasks :
                  KeyOf[t] = k /\ state[t] = "absent" => state'[t] = "absent"
<1> USE MigrationAssumption, KeyAssumption
<1>1. ASSUME KInv, RInv, [Next]_vars, NEW k \in Migrations, record[k] = "done"
      PROVE  Stays(k)
  <2>1. CASE \E c \in Creators : CommitSchedule(c)
    <3>1. PICK c \in Creators : CommitSchedule(c)
      BY <2>1
    <3>2. tx[c].key # k
      BY <1>1, <3>1 DEF CommitSchedule, Commit, RInv, Schedules
    <3>3. KeyOf[tx[c].task] = tx[c].key
      BY <1>1, <3>1, CommitInv DEF CommitSchedule
    <3> QED
      BY <1>1, <3>1, <3>2, <3>3
         DEF CommitSchedule, Commit, RInv, TypeOK, KInv, KeyTypeOK
  <2>2. CASE UNCHANGED vars
    BY <1>1, <2>2 DEF vars, keyVars, migVars
  <2>3. CASE \E c \in Creators, l \in Keys : BeginSchedule(c, l)
    BY <1>1, <2>3 DEF BeginSchedule, Begin
  <2>4. CASE \E c \in Creators : Enqueue(c) \/ AbortSchedule(c)
    BY <1>1, <2>4 DEF Enqueue, Reuse, Insert, AbortSchedule, Abort, migVars
  <2>7. CASE \E c \in Creators : SwallowSchedule(c)
    <3>1. PICK c \in Creators : SwallowSchedule(c)
      BY <2>7
    <3>2. tx[c].key # k
      BY <1>1, <3>1 DEF SwallowSchedule, RInv, Schedules
    <3> QED
      BY <1>1, <3>1, <3>2 DEF SwallowSchedule, Abort, RInv, TypeOK
  <2>5. CASE \E t \in Tasks :
               \/ Start(t) \/ Returns(t) \/ Retries(t) \/ Raises(t) \/ Dies(t)
               \/ Recover(t) \/ CancelTask(t)
    <3>1. PICK t \in Tasks : \/ Start(t) \/ Returns(t) \/ Retries(t)
                             \/ Raises(t) \/ Dies(t) \/ Recover(t)
                             \/ CancelTask(t)
      BY <2>5
    <3>2. \/ UNCHANGED state
          \/ \E s : Move(t, s) /\ state[t] # "absent" /\ s # "absent"
      BY <3>1 DEF Start, Returns, Retries, Raises, Dies, Recover, CancelTask,
                  Dropped, keyVars, Claim, Complete, Fail, Cancel, Requeue,
                  Release, Active
    <3>3. \A u \in Tasks : state[u] = "absent" => state'[u] = "absent"
      BY <1>1, <3>2, MoveKeeps DEF KInv
    <3>4. record' = record \/ Mark(t, "done") \/ Mark(t, "failed")
      BY <3>1 DEF Start, Returns, Retries, Raises, Dies, Recover, CancelTask,
                  OnFailure, HookUndone
    <3>5. record'[k] # "pending"
      BY <1>1, <3>4 DEF Mark, RInv, TypeOK
    <3> QED
      BY <3>3, <3>5
  <2>6. CASE Retry
    BY <1>1, <2>6 DEF Retry, ManualRetry, Move, AutoRetryFailed, migVars, KInv,
                      KeyTypeOK
  <2> QED
    BY <1>1, <2>1, <2>2, <2>3, <2>4, <2>5, <2>6, <2>7 DEF Next
<1>2. KInv /\ RInv /\ [Next]_vars => \A k \in Migrations : Stays(k)
  BY <1>1
<1> QED
  BY <1>2, RecordInvariant, PTL DEF Spec, DoneIsNotScheduled

------------------------------------------------------------------------------
\* Threads

\* A row moves under its thread only when it is cancelled.
ThreadsRun == \A t \in threads : state[t] \in {"running", "cancelled"}

LEMMA ExecutionKeepsThreads ==
  ASSUME KInv, TypeOK, ThreadsRun, NEW t \in Tasks,
         \/ Start(t) \/ Returns(t) \/ Retries(t) \/ Raises(t) \/ Dies(t)
         \/ Recover(t) \/ CancelTask(t)
  PROVE  ThreadsRun'
<1>1. \A u \in Tasks \ {t} : state'[u] = state[u]
  BY RowKeeps DEF Start, Returns, Retries, Raises, Dies, Recover, CancelTask
<1>2. CASE Start(t) \/ CancelTask(t)
  <2>1. state'[t] \in {"running", "cancelled"}
    BY <1>2, MoveKeeps DEF Start, Claim, CancelTask, Cancel, KInv
  <2>2. threads' \subseteq threads \cup {t}
    BY <1>2 DEF Start, CancelTask
  <2> QED
    BY <1>1, <2>1, <2>2 DEF ThreadsRun, TypeOK
<1>3. CASE Returns(t) \/ Retries(t) \/ Raises(t) \/ Dies(t) \/ Recover(t)
  <2>1. threads' = threads \ {t}
    BY <1>3 DEF Returns, Retries, Raises, Dies, Recover
  <2> QED
    BY <1>1, <2>1 DEF ThreadsRun, TypeOK
<1> QED
  BY <1>2, <1>3

LEMMA StepKeepsThreads ==
  KInv /\ TypeOK /\ ThreadsRun /\ [Next]_vars => ThreadsRun'
<1> SUFFICES ASSUME KInv, TypeOK, ThreadsRun, [Next]_vars
             PROVE  ThreadsRun'
  OBVIOUS
<1> USE DEF ThreadsRun
<1>1. CASE UNCHANGED vars
  BY <1>1 DEF vars, keyVars, migVars
<1>2. CASE \/ \E c \in Creators, k \in Keys : BeginSchedule(c, k)
           \/ \E c \in Creators :
                Enqueue(c) \/ SwallowSchedule(c) \/ AbortSchedule(c)
  BY <1>2 DEF BeginSchedule, Begin, Enqueue, Reuse, Insert, SwallowSchedule,
              AbortSchedule, Abort, migVars
<1>3. CASE \E c \in Creators : CommitSchedule(c)
  <2>1. PICK c \in Creators : CommitSchedule(c)
    BY <1>3
  <2>2. tx[c].pc = "inserted" => state[tx[c].task] = "absent"
    BY DEF KInv, Reading
  <2>3. \A t \in Tasks : state[t] # "absent" => state'[t] = state[t]
    BY <2>1, <2>2 DEF CommitSchedule, Commit, KInv, KeyTypeOK
  <2> QED
    BY <2>1, <2>3 DEF CommitSchedule, TypeOK
<1>4. CASE \E t \in Tasks :
             \/ Start(t) \/ Returns(t) \/ Retries(t) \/ Raises(t) \/ Dies(t)
             \/ Recover(t) \/ CancelTask(t)
  BY <1>4, ExecutionKeepsThreads
<1>5. CASE Retry
  <2>1. \A t \in Tasks : state[t] # "failed" => state'[t] = state[t]
    BY <1>5 DEF Retry, ManualRetry, Move, AutoRetryFailed, KInv, KeyTypeOK
  <2> QED
    BY <1>5, <2>1 DEF Retry, migVars, TypeOK
<1> QED
  BY <1>1, <1>2, <1>3, <1>4, <1>5 DEF Next

\* Two threads never run the same migration, unless somebody cancels: assuming,
\* as Recover does, that a row is recovered only when its thread is gone
\* (_schedule_migration).
THEOREM MigrationsRunOnce == Spec => []OneExecution
<1>1. Init => ThreadsRun
  BY DEF Init, ThreadsRun
<1>2. TypeOK /\ ThreadsRun /\ OneActivePerKey => OneExecution
  BY KeyAssumption
     DEF TypeOK, ThreadsRun, OneActivePerKey, OneExecution, ActiveOf, Active
<1> QED
  BY <1>1, <1>2, StepKeepsThreads, TypeCorrect, KeyInvariant, OneTaskPerKey,
     PTL DEF Spec
=============================================================================
