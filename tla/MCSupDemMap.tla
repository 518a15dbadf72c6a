---------------------------- MODULE MCSupDemMap ----------------------------
(* Small maps for TLC: two places that are one apart, and item vectors     *)
(* that cover each other, tie, and leave a remainder.                      *)
EXTENDS SupDemMap

Vec(a, b, c) == [k \in Items |-> CASE k = "a" -> a [] k = "b" -> b [] k = "c" -> c]

MCPoints == {<<0, 0>>, <<1, 0>>}

(* A supply of 2 serves two demands of 1; [1,1,0] is covered by neither    *)
(* until the b item is there; [0,0,0] is served by any supply in reach.    *)
MCDemandAmounts == {Vec(1, 0, 0), Vec(1, 1, 0)}
MCSupplyAmounts == {Vec(1, 1, 0), Vec(2, 1, 0)}

MCUnitOrNone    == {Vec(1, 0, 0), Vec(0, 0, 0)}
MCOneOrTwo      == {Vec(1, 0, 0), Vec(2, 0, 0)}
MCNoDistances   == {}
=============================================================================
