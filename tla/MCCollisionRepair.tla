-------------------------- MODULE MCCollisionRepair -------------------------
(* Inherited chains of three seals.  In the first one block 1 collides and *)
(* block 2 may, once the pointer is back on a seal of block 1; in the      *)
(* second one block 2 collides and its names may be given again.           *)
EXTENDS CollisionRepair
CONSTANTS script1, script2, script3, cycle1, cycle2
Name(b, c) == [block |-> b, cycle |-> c]
Stored(seals) == seals @@ [s \in Names |-> 0]
MCHistories ==
    {Stored(Name(1, cycle1) :> 1 @@ Name(1, cycle2) :> 2 @@ Name(2, cycle1) :> 3),
     Stored(Name(1, cycle1) :> 1 @@ Name(2, cycle1) :> 2 @@ Name(2, cycle2) :> 3)}
MCScripts == Permutations(Scripts)
=============================================================================
