------------------------------ MODULE Dispatch ------------------------------
(***************************************************************************)
(* What claim_task promises, whoever claims: a claim takes its batch at one *)
(* instant, out of what is pending then.  If claims are serial, a task of a *)
(* singleton type is taken only as the first of its type, and only while    *)
(* none of its type executes.                                               *)
(***************************************************************************)
EXTENDS Naturals

CONSTANTS
  Tasks, TypeOf, Singleton, Rank,
  Serial    \* whether the singleton guarantee is given

VARIABLES
  queued,     \* tasks that are pending or delayed
  pending,    \* those whose eta has passed
  executing

vars == <<queued, pending, executing>>

Init == queued = {} /\ pending = {} /\ executing = {}

\* A task is queued, at once or with a delay: a new one, or after an attempt.
Enter(t, now) ==
  /\ t \notin queued
  /\ queued' = queued \cup {t}
  /\ pending' = IF now THEN pending \cup {t} ELSE pending
  /\ executing' = executing \ {t}

Elapse(t) ==
  /\ t \in queued
  /\ pending' = pending \cup {t}
  /\ UNCHANGED <<queued, executing>>

First(t) ==
  /\ \A u \in executing : TypeOf[u] # TypeOf[t]
  /\ \A u \in queued \ {t} : TypeOf[u] = TypeOf[t] => Rank[t] < Rank[u]

Claim(S) ==
  /\ S \subseteq pending
  /\ Serial => \A t \in S : TypeOf[t] \in Singleton => First(t)
  /\ queued' = queued \ S
  /\ pending' = pending \ S
  /\ executing' = executing \cup S

Leave(t) ==
  /\ queued' = queued \ {t}
  /\ pending' = pending \ {t}
  /\ executing' = executing \ {t}

Next ==
  \/ \E t \in Tasks : Elapse(t) \/ Leave(t) \/ \E now \in BOOLEAN : Enter(t, now)
  \/ \E S \in SUBSET Tasks : Claim(S)

Spec == Init /\ [][Next]_vars
=============================================================================
