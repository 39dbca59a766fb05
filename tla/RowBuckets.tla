------------------------------ MODULE RowBuckets ------------------------------
(***************************************************************************)
(* How the agent files the SQL rows it retrieves: MasterDataAgent._absorb  *)
(* (app/agent/agent.py).  A row is reduced to what _absorb looks at: its   *)
(* product_id, its supplier_id, whether supplier_name is present, and one  *)
(* field standing for every other column (prices, quantities, ...), so     *)
(* that two rows about one product can still be different rows.            *)
(*                                                                         *)
(* _absorb walks the rows in order; the operators below say, bucket by     *)
(* bucket, what that walk leaves behind.  RowFeed checks them against the  *)
(* row-by-row walk itself.                                                 *)
(***************************************************************************)
EXTENDS Integers, Sequences, FiniteSetsExt

CONSTANTS
  ProductIds,    \* values of the product_id column
  SupplierIds,   \* values of the supplier_id column
  Details,       \* contents of the remaining columns of a row
  None           \* a column that is absent or NULL

ASSUME NoneAssumption == None \notin ProductIds \cup SupplierIds \cup Details

Row == [product_id    : ProductIds \cup {None},
        supplier_id   : SupplierIds \cup {None},
        supplier_name : BOOLEAN,
        detail        : Details \cup {None}]

(* The row {"supplier_id": s, "supplier_name": ...} made for a supplier that *)
(* is only known through a joined row.                                       *)
Stub(s) == [product_id |-> None, supplier_id |-> s,
            supplier_name |-> TRUE, detail |-> None]

IsProductRow(row)  == row.product_id # None
IsSupplierRow(row) == row.product_id = None /\ row.supplier_id # None
IsOtherRow(row)    == row.product_id = None /\ row.supplier_id = None
NamesSupplier(row) == row.supplier_id # None /\ row.supplier_name

(* The rows of a reply, as the positions at which they stand.              *)
ProductRowsOf(rows, p)  == {i \in DOMAIN rows : IsProductRow(rows[i])
                                                /\ rows[i].product_id = p}
SupplierRowsOf(rows, s) == {i \in DOMAIN rows : IsSupplierRow(rows[i])
                                                /\ rows[i].supplier_id = s}
NamingRowsOf(rows, s)   == {i \in DOMAIN rows : NamesSupplier(rows[i])
                                                /\ rows[i].supplier_id = s}

ProductsIn(rows)  == {p \in ProductIds  : ProductRowsOf(rows, p) # {}}
\* Mutants are named <definition>_<fault>; nothing uses them.
SuppliersIn_Unnamed(rows) == {s \in SupplierIds : \E i \in DOMAIN rows :
                                                    rows[i].supplier_id = s}
SuppliersIn(rows) == {s \in SupplierIds : SupplierRowsOf(rows, s) # {}
                                          \/ NamingRowsOf(rows, s) # {}}

AbsorbProducts_FirstWins(products, rows) ==
  [p \in DOMAIN products \cup ProductsIn(rows) |->
     IF p \in ProductsIn(rows) THEN rows[Min(ProductRowsOf(rows, p))]
                               ELSE products[p]]

(* products[product_id] = row: the last row about a product wins.          *)
AbsorbProducts(products, rows) ==
  [p \in DOMAIN products \cup ProductsIn(rows) |->
     IF p \in ProductsIn(rows) THEN rows[Max(ProductRowsOf(rows, p))]
                               ELSE products[p]]

AbsorbSuppliers_KeepsStub(suppliers, rows) ==
  [s \in DOMAIN suppliers \cup SuppliersIn(rows) |->
     IF s \in DOMAIN suppliers              THEN suppliers[s]
     ELSE IF SupplierRowsOf(rows, s) # {}   THEN rows[Max(SupplierRowsOf(rows, s))]
     ELSE Stub(s)]

(* suppliers[supplier_id] = row for a row about the supplier alone;        *)
(* setdefault for a row that merely names it: a stub never replaces        *)
(* anything, a supplier row replaces everything.                           *)
AbsorbSuppliers(suppliers, rows) ==
  [s \in DOMAIN suppliers \cup SuppliersIn(rows) |->
     IF SupplierRowsOf(rows, s) # {}  THEN rows[Max(SupplierRowsOf(rows, s))]
     ELSE IF s \in DOMAIN suppliers   THEN suppliers[s]
     ELSE Stub(s)]

(* records.append(row) if row not in records: a list without repetitions,  *)
(* kept here as the set of its elements.                                   *)
AbsorbRecords(records, rows) ==
  records \cup {rows[i] : i \in {j \in DOMAIN rows : IsOtherRow(rows[j])}}

AnyData_NoRecords(products, suppliers, records) ==
  DOMAIN products # {} \/ DOMAIN suppliers # {}

(* has_data()                                                              *)
AnyData(products, suppliers, records) ==
  DOMAIN products # {} \/ DOMAIN suppliers # {} \/ records # {}

NoRows == [x \in {} |-> None]
===============================================================================
