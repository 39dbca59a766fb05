--------------------------------- MODULE Filter --------------------------------
(* The members of a sequence that are in a set, in their order.            *)
EXTENDS Sequences, SequencesExt

Among(set, seq) ==
  FoldLeft(LAMBDA kept, x : IF x \in set THEN Append(kept, x) ELSE kept, <<>>, seq)
===============================================================================
