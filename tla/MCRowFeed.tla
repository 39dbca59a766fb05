------------------------------- MODULE MCRowFeed ------------------------------
(* Model checking RowFeed: every row over two products and one supplier,   *)
(* and every reply of at most two of them.                                 *)
EXTENDS RowFeed

MCReplies == BoundedSeq(Row, 2)

Symmetry == Permutations(ProductIds)
===============================================================================
