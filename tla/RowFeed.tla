-------------------------------- MODULE RowFeed -------------------------------
(***************************************************************************)
(* The buckets of one agent run, fed with one reply after another.         *)
(*                                                                         *)
(* The module keeps two versions of the buckets: the one the operators of  *)
(* RowBuckets compute for a whole reply, and "walk", where the loop of     *)
(* _absorb is executed row by row.  It also remembers every row fed, so    *)
(* that properties can compare what was retrieved with what is reported.   *)
(***************************************************************************)
EXTENDS RowBuckets, SequencesExt

CONSTANTS
  Replies,    \* the row lists a tool may return
  MaxFeeds    \* bound: number of replies absorbed in one run

ASSUME FeedAssumption == Replies \subseteq Seq(Row) /\ MaxFeeds \in Nat

VARIABLES products, suppliers, records, walk, fed, feeds

vars == <<products, suppliers, records, walk, fed, feeds>>

\* Item assignment and setdefault of a dict.
Put(dict, key, value) ==
  [k \in DOMAIN dict \cup {key} |-> IF k = key THEN value ELSE dict[k]]
SetDefault(dict, key, value) ==
  IF key \in DOMAIN dict THEN dict ELSE Put(dict, key, value)

(* One turn of the for loop of _absorb: the if/elif/elif chain, then the   *)
(* setdefault.                                                             *)
AbsorbRow(b, row) ==
  LET id == row.supplier_id
      kept ==
        IF IsProductRow(row)
          THEN [b EXCEPT !.products = Put(@, row.product_id, row)]
        ELSE IF id # None
          THEN [b EXCEPT !.suppliers = Put(@, id, row)]
        ELSE [b EXCEPT !.records = @ \cup {row}]
  IN IF NamesSupplier(row)
       THEN [kept EXCEPT !.suppliers = SetDefault(@, id, Stub(id))]
       ELSE kept

Init ==
  /\ products = NoRows /\ suppliers = NoRows /\ records = {}
  /\ walk = [products |-> NoRows, suppliers |-> NoRows, records |-> {}]
  /\ fed = {} /\ feeds = 0

Feed(rows) ==
  /\ feeds < MaxFeeds
  /\ feeds' = feeds + 1
  /\ products' = AbsorbProducts(products, rows)
  /\ suppliers' = AbsorbSuppliers(suppliers, rows)
  /\ records' = AbsorbRecords(records, rows)
  /\ walk' = FoldLeft(AbsorbRow, walk, rows)
  /\ fed' = fed \cup ToSet(rows)

Next == \E rows \in Replies : Feed(rows)

Spec == Init /\ [][Next]_vars

-------------------------------------------------------------------------------
(* The whole-reply operators and the row-by-row loop of _absorb agree.     *)
MatchesWalk ==
  walk = [products |-> products, suppliers |-> suppliers, records |-> records]

(* "Base every statement on retrieved rows only": the buckets hold exactly *)
(* what was retrieved.  Every row leaves a trace under the id it carries   *)
(* and only there, a supplier that a row names is never missing, and no    *)
(* id, row or record is there that no retrieved row accounts for, however  *)
(* often rows were replaced in between.                                    *)
BucketsExact ==
  /\ DOMAIN products = {row.product_id : row \in {f \in fed : IsProductRow(f)}}
  /\ DOMAIN suppliers =
       {row.supplier_id : row \in {f \in fed : IsSupplierRow(f) \/ NamesSupplier(f)}}
  /\ records = {f \in fed : IsOtherRow(f)}
  /\ \A p \in DOMAIN products : products[p] \in fed /\ products[p].product_id = p
  /\ \A s \in DOMAIN suppliers : suppliers[s] \in fed \cup {Stub(s)}

(* A full supplier row is never displaced by the stub of a later join.     *)
SupplierRowBeatsStub ==
  \A s \in SupplierIds :
    (\E row \in fed : IsSupplierRow(row) /\ row.supplier_id = s)
      => \E row \in fed : IsSupplierRow(row) /\ suppliers[s] = row
===============================================================================
