----------------------------- MODULE Supervisors -----------------------------
(***************************************************************************)
(* What the background service gives the task queue: one supervisor loop    *)
(* per worker.  A loop is started where there is none, initialises itself   *)
(* once, and loops are gone at any time, several at once when their process *)
(* dies.  A new loop never starts beside an old one, nor goes an old one    *)
(* through its initialisation again.                                        *)
(***************************************************************************)
CONSTANT Workers

VARIABLE sup    \* the loop of every worker: "down", "init" or "up"

vars == <<sup>>

Init == sup = [w \in Workers |-> "down"]

Start(w) == sup[w] = "down" /\ sup' = [sup EXCEPT ![w] = "init"]

Ready(w) == sup[w] = "init" /\ sup' = [sup EXCEPT ![w] = "up"]

Leave(S) == sup' = [w \in Workers |-> IF w \in S THEN "down" ELSE sup[w]]

Next ==
  \/ \E w \in Workers : Start(w) \/ Ready(w)
  \/ \E S \in SUBSET Workers : Leave(S)

Spec == Init /\ [][Next]_vars
==============================================================================
