----------------------------- MODULE MCToolReplies ----------------------------
(* Instances of ToolReplies for TLC: rows are interchangeable.             *)
EXTENDS ToolReplies, TLC

Symmetry == Permutations(Rows)
===============================================================================
