---------------------------- MODULE ChildBarrier ----------------------------
(***************************************************************************)
(* What a parent task promises about its children, whoever schedules, polls *)
(* or retries them: the parent waits at a barrier for the children of its   *)
(* wave.  It passes the barrier -- to the next wave, or to its completion -- *)
(* only when none of its children is live.  It may give up or be cancelled  *)
(* at any time.  A task that is done stays done.                            *)
(***************************************************************************)
CONSTANTS
  Tasks,
  Parent,  \* the parent of every task
  Raw      \* parents that may add children to a wave that is under way

VARIABLES live, waiting, done

vars == <<live, waiting, done>>

Children(p) == {c \in Tasks : Parent[c] = p}
LiveChildren(p) == Children(p) \cap live

Init == live = {} /\ waiting = {} /\ done = {}

\* A task is created or retried.
Enter(t) ==
  /\ t \notin live \cup done
  /\ live' = live \cup {t}
  /\ UNCHANGED <<waiting, done>>

\* A parent starts a wave S and waits for it.
Fork(p, S) ==
  /\ p \in live
  /\ p \in waiting => LiveChildren(p) = {}
  /\ S \subseteq Children(p) \ (live \cup done)
  /\ live' = live \cup S
  /\ waiting' = waiting \cup {p}
  /\ UNCHANGED done

\* S is added to the wave of a raw parent that waits, or waited when this began.
Join(p, S) ==
  /\ p \in Raw
  /\ S \subseteq Children(p) \ (live \cup done)
  /\ live' = live \cup S
  /\ UNCHANGED <<waiting, done>>

Complete(t) ==
  /\ t \in live
  /\ t \in waiting => LiveChildren(t) = {}
  /\ live' = live \ {t}
  /\ waiting' = waiting \ {t}
  /\ done' = done \cup {t}

\* Tasks fail or are cancelled.
GiveUp(S) ==
  /\ S \cap done = {}
  /\ live' = live \ S
  /\ waiting' = waiting \ S
  /\ UNCHANGED done

Next ==
  \/ \E t \in Tasks : Enter(t) \/ Complete(t)
  \/ \E p \in Tasks, S \in SUBSET Tasks : Fork(p, S) \/ Join(p, S)
  \/ \E S \in SUBSET Tasks : GiveUp(S)

Spec == Init /\ [][Next]_vars
=============================================================================
