----------------------------- MODULE MCPagination -----------------------------
(***************************************************************************)
(* Lists of up to five rows against pages of two: a list longer than the   *)
(* cap, one that fills its pages exactly, and one that ends within a page. *)
(***************************************************************************)
EXTENDS Pagination

CONSTANTS r1, r2, r3, r4, r5
MCRows == {r1, r2, r3, r4, r5}
MCFewRows == {r1, r2, r3}
RowSymmetry == Permutations(MCRows)
=============================================================================
