----------------------------- MODULE MCCheckAddr -----------------------------
(* Two layouts that differ in area, pages and count.  In the first address *)
(* 0 is mapped and nothing is above address 1; in the second address 0 is  *)
(* in a hole and address 1 in an area of a file.                           *)
EXTENDS CheckAddr

Area(from, to, of) == [start |-> from, end |-> to, file |-> of]

MCLayouts == {{Area(0, 1, 0)}, {Area(1, 2, 1), Area(3, 4, 0)}}
=============================================================================
