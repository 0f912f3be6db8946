----------------------------- MODULE MCWorldPool -----------------------------
(* WorldPool on five worlds whose keys are not in the order of difficulty. *)
EXTENDS WorldPool

MCWorlds == 1 .. 5
MCDifficulty == [w \in MCWorlds |-> CASE w = 1 -> 3 [] w = 2 -> 1 [] w = 3 -> 2
                                      [] w = 4 -> 1 [] w = 5 -> 4]
MCFamily == [w \in MCWorlds |-> IF w = 5 THEN "b" ELSE "a"]
MCSeeds == {1, 2, 5}
=============================================================================
