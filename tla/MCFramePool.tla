---------------------------- MODULE MCFramePool ----------------------------
(***************************************************************************)
(* Finite instances of FramePool: two surface geometries, the second twice *)
(* as large, so that a slot filled at the first has to grow for the second *)
(* and a slot grown for the second is large enough for the first.          *)
(***************************************************************************)
EXTENDS FramePool

MCGeoms == {"small", "large"}
MCBytes == [g \in MCGeoms |-> IF g = "small" THEN 1 ELSE 2]
=============================================================================
