---------------------------- MODULE MCMigration ----------------------------
(* Values of the constants of Migration for TLC. *)
EXTENDS Migration, TLC

CONSTANTS m1, m2, g1, g2, c1, c2

\* m1, m2 are tasks of one migration, g1 and g2 of another key.
KeyOfTask == [t \in Tasks |-> IF t \in {g1, g2} THEN "other" ELSE "migration"]
Generic == Tasks \cap {g1, g2}
OneMigration == {"migration"}
AllKeys == {KeyOfTask[t] : t \in Tasks}
Alike == Permutations(Creators)
=============================================================================
