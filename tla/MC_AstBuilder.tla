--------------------------- MODULE MC_AstBuilder ---------------------------
(***************************************************************************)
(* AstBuilder on small builds: two contracts, each after at most one       *)
(* pragma and one import, with at most two body elements.                  *)
(***************************************************************************)
EXTENDS AstBuilder

MC_Widths == {8, 256}
MC_OneWidth == {256}
=============================================================================
