--------------------------- MODULE MCSealIntegrity --------------------------
(* Inherited chains of two seals that collide, and of three whose first    *)
(* block collides with a seal that came after its successor.               *)
EXTENDS SealIntegrity
CONSTANTS cycle1, cycle2
Name(b, c) == [block |-> b, cycle |-> c]
Stored(seals) == seals @@ [s \in Names |-> 0]
MCHistories ==
    {Stored(Name(1, cycle1) :> 1 @@ Name(1, cycle2) :> 2),
     Stored(Name(1, cycle1) :> 1 @@ Name(2, cycle1) :> 2 @@ Name(1, cycle2) :> 3)}
=============================================================================
