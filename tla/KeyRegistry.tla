----------------------------- MODULE KeyRegistry -----------------------------
(***************************************************************************)
(* What a unique_key promises, whoever creates, executes and retries tasks: *)
(* a key has one current task or none, as if tasks were looked up and       *)
(* created at one instant.  A caller to whom create_task returned the       *)
(* current task has a lease on it until it commits: meanwhile the task      *)
(* stays current, and nobody else has a lease on it.                        *)
(***************************************************************************)
CONSTANTS Tasks, KeyOf, Creators, None

VARIABLES
  current,    \* the current tasks of the keys
  lease       \* the task that every open caller reuses, or None

vars == <<current, lease>>

Init ==
  /\ current = {}
  /\ lease = [c \in Creators |-> None]

\* Tasks S of different keys, none of which has one, are created or retried.
Enter(S) ==
  /\ \A t \in S, u \in current \cup S : KeyOf[t] = KeyOf[u] => t = u
  /\ S \cap current = {}
  /\ current' = current \cup S
  /\ UNCHANGED lease

Retire(t) ==
  /\ t \in current
  /\ \A c \in Creators : lease[c] # t
  /\ current' = current \ {t}
  /\ UNCHANGED lease

Lease(c, t) ==
  /\ lease[c] = None /\ t \in current
  /\ \A d \in Creators : lease[d] # t
  /\ lease' = [lease EXCEPT ![c] = t]
  /\ UNCHANGED current

GiveBack(c) ==
  /\ lease' = [lease EXCEPT ![c] = None]
  /\ UNCHANGED current

Next ==
  \/ \E c \in Creators : GiveBack(c) \/ \E t \in Tasks : Lease(c, t)
  \/ \E t \in Tasks : Retire(t)
  \/ \E S \in SUBSET Tasks : Enter(S)

Spec == Init /\ [][Next]_vars
==============================================================================
