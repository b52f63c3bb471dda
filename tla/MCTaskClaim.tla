----------------------------- MODULE MCTaskClaim -----------------------------
(* Values of the constants of TaskClaim for TLC. *)
EXTENDS TaskClaim, TLC

CONSTANTS a1, a2, a3, b1, w1, w2

\* Three tasks of a singleton type and one of a type that runs in parallel.
Types == [t \in Tasks |-> IF t = b1 THEN "parallel" ELSE "single"]
Singles == {"single"}

\* Only w1 serves the channel of a3.
Channels == [w \in Claimers |-> IF w = w1 THEN Tasks ELSE Tasks \ {a3}]

\* b1 comes between a1 and a2.
Ranks == [t \in Tasks |-> CASE t = a1 -> 0 [] t = b1 -> 1 [] t = a2 -> 2
                            [] OTHER -> 3]
=============================================================================
