-------------------------- MODULE FrontierContract --------------------------
(* What a curriculum promises about the world it hands to training: it starts   *)
(* from an admitted world, moves only to another admitted world, says which     *)
(* world it came from, and after a restart goes on from a frontier it had. This *)
(* is what the world pool relies on when it takes "some child or none".         *)
CONSTANTS
    Admissible(_),  \* the pack's verdict on a world
    NoWorld

VARIABLES
    world,   \* the content of the frontier world, or NoWorld
    parent,  \* the content of the world it was evolved from, or NoWorld
    past     \* every frontier there has been

contract == <<world, parent, past>>

Init == world = NoWorld /\ parent = NoWorld /\ past = {}

(* A first world, or a fresh one in its place. *)
Seed ==
    /\ world' # NoWorld
    /\ Admissible(world')
    /\ parent' = NoWorld

(* A step of the curriculum: another world, from this one. *)
Evolve ==
    /\ world # NoWorld
    /\ world' \notin {world, NoWorld}
    /\ Admissible(world')
    /\ parent' = world

(* A restart loses the frontier or finds an earlier one. *)
Restart == <<world', parent'>> \in past \cup {<<NoWorld, NoWorld>>}

Next ==
    /\ Seed \/ Evolve \/ Restart
    /\ past' = past \cup {<<world', parent'>>}

Spec == Init /\ [][Next]_contract

=============================================================================
