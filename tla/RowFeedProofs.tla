------------------------------ MODULE RowFeedProofs ---------------------------
(***************************************************************************)
(* Theorems about RowFeed for every set of replies, of any length, and any *)
(* number of them.                                                         *)
(***************************************************************************)
EXTENDS RowFeed, SequenceLemmas

(* The rows of a reply and the positions at which they stand.              *)
LEMMA RowsOfReply ==
  ASSUME NEW rows \in Seq(Row)
  PROVE  /\ ToSet(rows) \subseteq Row
         /\ \A i \in DOMAIN rows : rows[i] \in ToSet(rows)
         /\ \A row \in ToSet(rows) : \E i \in DOMAIN rows : rows[i] = row
  BY DEF ToSet

(* The last row about a product, and the last about a supplier alone.      *)
LEMMA LastRow ==
  ASSUME NEW rows \in Seq(Row)
  PROVE  /\ \A p : ProductRowsOf(rows, p) # {} =>
                     LET row == rows[Max(ProductRowsOf(rows, p))]
                     IN  row \in ToSet(rows) /\ IsProductRow(row)
                         /\ row.product_id = p
         /\ \A s : SupplierRowsOf(rows, s) # {} =>
                     LET row == rows[Max(SupplierRowsOf(rows, s))]
                     IN  row \in ToSet(rows) /\ IsSupplierRow(row)
                         /\ row.supplier_id = s
<1>1. DOMAIN rows = 1..Len(rows) /\ Len(rows) \in Nat
  OBVIOUS
<1>2. ASSUME NEW p, ProductRowsOf(rows, p) # {}
      PROVE  Max(ProductRowsOf(rows, p)) \in ProductRowsOf(rows, p)
  <2>1. ProductRowsOf(rows, p) \subseteq 1..Len(rows)
    BY <1>1 DEF ProductRowsOf
  <2> QED
    BY <1>1, <1>2, <2>1, LastPosition
<1>3. ASSUME NEW s, SupplierRowsOf(rows, s) # {}
      PROVE  Max(SupplierRowsOf(rows, s)) \in SupplierRowsOf(rows, s)
  <2>1. SupplierRowsOf(rows, s) \subseteq 1..Len(rows)
    BY <1>1 DEF SupplierRowsOf
  <2> QED
    BY <1>1, <1>3, <2>1, LastPosition
<1>4. \A i \in DOMAIN rows : rows[i] \in ToSet(rows)
  BY RowsOfReply
<1> QED
  BY <1>2, <1>3, <1>4 DEF ProductRowsOf, SupplierRowsOf

(* The ids that a reply brings, read off its rows.                         *)
LEMMA IdsOfReply ==
  ASSUME NEW rows \in Seq(Row)
  PROVE  /\ ProductsIn(rows) =
              {row.product_id : row \in {f \in ToSet(rows) : IsProductRow(f)}}
         /\ SuppliersIn(rows) =
              {row.supplier_id : row \in {f \in ToSet(rows) :
                                   IsSupplierRow(f) \/ NamesSupplier(f)}}
         /\ {rows[i] : i \in {j \in DOMAIN rows : IsOtherRow(rows[j])}} =
              {f \in ToSet(rows) : IsOtherRow(f)}
<1>1. \A f \in Row : /\ IsProductRow(f) => f.product_id \in ProductIds
                     /\ IsSupplierRow(f) \/ NamesSupplier(f)
                          => f.supplier_id \in SupplierIds
  BY DEF Row, IsProductRow, IsSupplierRow, NamesSupplier
<1>2. ProductsIn(rows) =
        {row.product_id : row \in {f \in ToSet(rows) : IsProductRow(f)}}
  BY <1>1, RowsOfReply DEF ProductsIn, ProductRowsOf
<1>3. SuppliersIn(rows) =
        {row.supplier_id : row \in {f \in ToSet(rows) :
                             IsSupplierRow(f) \/ NamesSupplier(f)}}
  BY <1>1, RowsOfReply DEF SuppliersIn, SupplierRowsOf, NamingRowsOf
<1>4. {rows[i] : i \in {j \in DOMAIN rows : IsOtherRow(rows[j])}} =
        {f \in ToSet(rows) : IsOtherRow(f)}
  BY RowsOfReply
<1> QED
  BY <1>2, <1>3, <1>4

-------------------------------------------------------------------------------
(* What is reported and what was retrieved: inductive with the rows typed. *)
FeedInv == fed \subseteq Row /\ BucketsExact /\ SupplierRowBeatsStub

LEMMA FeedInitially == Init => FeedInv
  BY DEF Init, FeedInv, BucketsExact, SupplierRowBeatsStub, NoRows

LEMMA FeedKeepsExact ==
  ASSUME FeedInv, NEW rows \in Replies, Feed(rows)
  PROVE  BucketsExact'
<1>1. rows \in Seq(Row)
  BY FeedAssumption
<1>2. fed' = fed \cup ToSet(rows)
  BY DEF Feed
<1>3. DOMAIN products' = {row.product_id : row \in {f \in fed' : IsProductRow(f)}}
  <2>1. DOMAIN products' = DOMAIN products \cup ProductsIn(rows)
    BY DEF Feed, AbsorbProducts
  <2> QED
    BY <1>1, <1>2, <2>1, IdsOfReply DEF FeedInv, BucketsExact
<1>4. DOMAIN suppliers' =
        {row.supplier_id : row \in {f \in fed' : IsSupplierRow(f) \/ NamesSupplier(f)}}
  <2>1. DOMAIN suppliers' = DOMAIN suppliers \cup SuppliersIn(rows)
    BY DEF Feed, AbsorbSuppliers
  <2> QED
    BY <1>1, <1>2, <2>1, IdsOfReply DEF FeedInv, BucketsExact
<1>5. records' = {f \in fed' : IsOtherRow(f)}
  <2>1. records' = records \cup
                     {rows[i] : i \in {j \in DOMAIN rows : IsOtherRow(rows[j])}}
    BY DEF Feed, AbsorbRecords
  <2> QED
    BY <1>1, <1>2, <2>1, IdsOfReply DEF FeedInv, BucketsExact
<1>6. ASSUME NEW p \in DOMAIN products'
      PROVE  products'[p] \in fed' /\ products'[p].product_id = p
  <2>1. CASE p \in ProductsIn(rows)
    <3>1. products'[p] = rows[Max(ProductRowsOf(rows, p))]
      BY <1>6, <2>1 DEF Feed, AbsorbProducts
    <3>2. ProductRowsOf(rows, p) # {}
      BY <2>1 DEF ProductsIn
    <3> QED
      BY <1>1, <1>2, <3>1, <3>2, LastRow
  <2>2. CASE p \notin ProductsIn(rows)
    <3>1. p \in DOMAIN products /\ products'[p] = products[p]
      BY <1>6, <2>2 DEF Feed, AbsorbProducts
    <3> QED
      BY <1>2, <3>1 DEF FeedInv, BucketsExact
  <2> QED
    BY <2>1, <2>2
<1>7. ASSUME NEW s \in DOMAIN suppliers'
      PROVE  suppliers'[s] \in fed' \cup {Stub(s)}
  <2>1. CASE SupplierRowsOf(rows, s) # {}
    <3>1. suppliers'[s] = rows[Max(SupplierRowsOf(rows, s))]
      BY <1>7, <2>1 DEF Feed, AbsorbSuppliers
    <3> QED
      BY <1>1, <1>2, <2>1, <3>1, LastRow
  <2>2. CASE SupplierRowsOf(rows, s) = {} /\ s \in DOMAIN suppliers
    <3>1. suppliers'[s] = suppliers[s]
      BY <1>7, <2>2 DEF Feed, AbsorbSuppliers
    <3> QED
      BY <1>2, <2>2, <3>1 DEF FeedInv, BucketsExact
  <2>3. CASE SupplierRowsOf(rows, s) = {} /\ s \notin DOMAIN suppliers
    BY <1>7, <2>3 DEF Feed, AbsorbSuppliers
  <2> QED
    BY <2>1, <2>2, <2>3
<1> QED
  BY <1>3, <1>4, <1>5, <1>6, <1>7 DEF BucketsExact

LEMMA FeedKeepsSupplierRows ==
  ASSUME FeedInv, NEW rows \in Replies, Feed(rows)
  PROVE  SupplierRowBeatsStub'
<1> SUFFICES ASSUME NEW s \in SupplierIds,
                    NEW row \in fed', IsSupplierRow(row), row.supplier_id = s
             PROVE  \E other \in fed' : IsSupplierRow(other) /\ suppliers'[s] = other
  BY DEF SupplierRowBeatsStub
<1>1. rows \in Seq(Row)
  BY FeedAssumption
<1>2. fed' = fed \cup ToSet(rows)
  BY DEF Feed
<1>3. CASE SupplierRowsOf(rows, s) # {}
  <2>1. s \in SuppliersIn(rows)
    BY <1>3 DEF SuppliersIn
  <2>2. suppliers'[s] = rows[Max(SupplierRowsOf(rows, s))]
    BY <1>3, <2>1 DEF Feed, AbsorbSuppliers
  <2> QED
    BY <1>1, <1>2, <1>3, <2>2, LastRow
<1>4. CASE SupplierRowsOf(rows, s) = {}
  <2>1. row \in fed
    BY <1>1, <1>2, <1>4, RowsOfReply DEF SupplierRowsOf
  <2>2. s \in DOMAIN suppliers
    BY <2>1 DEF FeedInv, BucketsExact
  <2>3. suppliers'[s] = suppliers[s]
    BY <1>4, <2>2 DEF Feed, AbsorbSuppliers
  <2>4. \E other \in fed : IsSupplierRow(other) /\ suppliers[s] = other
    BY <2>1 DEF FeedInv, SupplierRowBeatsStub
  <2> QED
    BY <1>2, <2>3, <2>4
<1> QED
  BY <1>3, <1>4

LEMMA FeedInductive == FeedInv /\ [Next]_vars => FeedInv'
<1> SUFFICES ASSUME FeedInv, [Next]_vars PROVE FeedInv'
  OBVIOUS
<1>1. ASSUME NEW rows \in Replies, Feed(rows) PROVE FeedInv'
  <2>1. fed' \subseteq Row
    BY <1>1, RowsOfReply, FeedAssumption DEF FeedInv, Feed
  <2> QED
    BY <1>1, <2>1, FeedKeepsExact, FeedKeepsSupplierRows DEF FeedInv
<1>2. CASE UNCHANGED vars
  BY <1>2 DEF vars, FeedInv, BucketsExact, SupplierRowBeatsStub
<1> QED
  BY <1>1, <1>2 DEF Next

(* However many replies of whatever length are absorbed, the buckets hold  *)
(* what was retrieved and nothing else.                                    *)
THEOREM BucketsAreExact == Spec => []BucketsExact
<1>1. FeedInv => BucketsExact
  BY DEF FeedInv
<1> QED
  BY <1>1, FeedInitially, FeedInductive, PTL DEF Spec

(* A supplier retrieved in full is reported in full, whatever joins come   *)
(* before or after it.                                                     *)
THEOREM SupplierRowsBeatStubs == Spec => []SupplierRowBeatsStub
<1>1. FeedInv => SupplierRowBeatsStub
  BY DEF FeedInv
<1> QED
  BY <1>1, FeedInitially, FeedInductive, PTL DEF Spec

-------------------------------------------------------------------------------
(* The walk.  For the rows at a set s of positions of a reply, Walked is   *)
(* what the loop of _absorb leaves behind when it has passed exactly them: *)
(* the operators of RowBuckets, restricted to these positions.             *)
ProductsAt(rows, s, p)  == s \cap ProductRowsOf(rows, p)
SuppliersAt(rows, s, x) == s \cap SupplierRowsOf(rows, x)
NamingAt(rows, s, x)    == s \cap NamingRowsOf(rows, x)

FoundProducts(rows, s)  == {p \in ProductIds : ProductsAt(rows, s, p) # {}}
FoundSuppliers(rows, s) == {x \in SupplierIds : SuppliersAt(rows, s, x) # {}
                                                \/ NamingAt(rows, s, x) # {}}

WalkedProducts(b, rows, s) ==
  [p \in DOMAIN b \cup FoundProducts(rows, s) |->
     IF p \in FoundProducts(rows, s) THEN rows[Max(ProductsAt(rows, s, p))]
                                     ELSE b[p]]

WalkedSuppliers(b, rows, s) ==
  [x \in DOMAIN b \cup FoundSuppliers(rows, s) |->
     IF SuppliersAt(rows, s, x) # {} THEN rows[Max(SuppliersAt(rows, s, x))]
     ELSE IF x \in DOMAIN b THEN b[x] ELSE Stub(x)]

WalkedRecords(b, rows, s) ==
  b \cup {rows[i] : i \in {j \in s : IsOtherRow(rows[j])}}

Walked(b, rows, s) == [products  |-> WalkedProducts(b.products, rows, s),
                       suppliers |-> WalkedSuppliers(b.suppliers, rows, s),
                       records   |-> WalkedRecords(b.records, rows, s)]

(* The last one of some positions is the last of all that include it.      *)
LEMMA LastOfSome ==
  ASSUME NEW rows \in Seq(Row), NEW s \in SUBSET DOMAIN rows, s # {}
  PROVE  /\ Max(s) \in s /\ rows[Max(s)] \in Row
         /\ \A P \in SUBSET s : Max(s) \in P => Max(P) = Max(s)
<1>1. s \in SUBSET (1..Len(rows)) /\ Len(rows) \in Nat
  OBVIOUS
<1>2. /\ Max(s) \in s
      /\ \A P \in SUBSET s : Max(s) \in P => Max(P) = Max(s)
  BY <1>1, LastOfPositions
<1> QED
  BY <1>2

LEMMA WalkProducts ==
  ASSUME NEW rows \in Seq(Row), NEW s \in SUBSET DOMAIN rows, s # {}, NEW b,
         NEW m, m = Max(s), NEW row, row = rows[m],
         NEW before, before = WalkedProducts(b, rows, s \ {m})
  PROVE  WalkedProducts(b, rows, s) =
           IF IsProductRow(row) THEN Put(before, row.product_id, row) ELSE before
<1>1. m \in s /\ row \in Row /\ \A P \in SUBSET s : m \in P => Max(P) = m
  BY LastOfSome
<1>2. \A p : ProductsAt(rows, s, p) =
              IF IsProductRow(row) /\ row.product_id = p
                THEN ProductsAt(rows, s \ {m}, p) \cup {m}
                ELSE ProductsAt(rows, s \ {m}, p)
  BY <1>1 DEF ProductsAt, ProductRowsOf
<1>3. CASE ~IsProductRow(row)
  <2>1. FoundProducts(rows, s) = FoundProducts(rows, s \ {m})
    BY <1>2, <1>3 DEF FoundProducts
  <2> QED
    BY <1>2, <1>3, <2>1 DEF WalkedProducts
<1>4. CASE IsProductRow(row)
  <2> DEFINE id == row.product_id
  <2>1. id \in ProductIds
    BY <1>1, <1>4 DEF IsProductRow, Row
  <2>2. FoundProducts(rows, s) = FoundProducts(rows, s \ {m}) \cup {id}
    BY <1>2, <1>4, <2>1 DEF FoundProducts
  <2>3. Max(ProductsAt(rows, s, id)) = m
    <3>1. ProductsAt(rows, s, id) \in SUBSET s /\ m \in ProductsAt(rows, s, id)
      BY <1>1, <1>2, <1>4 DEF ProductsAt
    <3> QED
      BY <1>1, <3>1
  <2>4. \A p : p # id => ProductsAt(rows, s, p) = ProductsAt(rows, s \ {m}, p)
    BY <1>2
  <2>5. WalkedProducts(b, rows, s) = Put(before, id, row)
    <3> HIDE DEF id
    <3>1. DOMAIN before = DOMAIN b \cup FoundProducts(rows, s \ {m})
      BY DEF WalkedProducts
    <3>2. \A p \in DOMAIN before :
            before[p] = IF p \in FoundProducts(rows, s \ {m})
                        THEN rows[Max(ProductsAt(rows, s \ {m}, p))] ELSE b[p]
      BY DEF WalkedProducts
    <3> QED
      BY <2>2, <2>3, <2>4, <3>1, <3>2 DEF WalkedProducts, Put
  <2> QED
    BY <1>4, <2>5
<1> QED
  BY <1>3, <1>4

LEMMA WalkSuppliers ==
  ASSUME NEW rows \in Seq(Row), NEW s \in SUBSET DOMAIN rows, s # {}, NEW b,
         NEW m, m = Max(s), NEW row, row = rows[m],
         NEW before, before = WalkedSuppliers(b, rows, s \ {m}),
         NEW id, id = row.supplier_id
  PROVE  WalkedSuppliers(b, rows, s) =
           IF IsSupplierRow(row) THEN Put(before, id, row)
           ELSE IF NamesSupplier(row) THEN SetDefault(before, id, Stub(id))
           ELSE before
<1>1. m \in s /\ row \in Row /\ \A P \in SUBSET s : m \in P => Max(P) = m
  BY LastOfSome
<1>2. \A x : SuppliersAt(rows, s, x) =
              IF IsSupplierRow(row) /\ id = x
                THEN SuppliersAt(rows, s \ {m}, x) \cup {m}
                ELSE SuppliersAt(rows, s \ {m}, x)
  BY <1>1 DEF SuppliersAt, SupplierRowsOf
<1>3. \A x : NamingAt(rows, s, x) =
              IF NamesSupplier(row) /\ id = x
                THEN NamingAt(rows, s \ {m}, x) \cup {m}
                ELSE NamingAt(rows, s \ {m}, x)
  BY <1>1 DEF NamingAt, NamingRowsOf
<1>4. DOMAIN before = DOMAIN b \cup FoundSuppliers(rows, s \ {m})
  BY DEF WalkedSuppliers
<1>5. \A x \in DOMAIN before :
        before[x] = IF SuppliersAt(rows, s \ {m}, x) # {}
                      THEN rows[Max(SuppliersAt(rows, s \ {m}, x))]
                    ELSE IF x \in DOMAIN b THEN b[x] ELSE Stub(x)
  BY DEF WalkedSuppliers
<1>6. CASE IsSupplierRow(row)
  <2>1. id \in SupplierIds
    BY <1>1, <1>6 DEF IsSupplierRow, Row
  <2>2. FoundSuppliers(rows, s) = FoundSuppliers(rows, s \ {m}) \cup {id}
    BY <1>2, <1>3, <1>6, <2>1 DEF FoundSuppliers
  <2>3. SuppliersAt(rows, s, id) # {} /\ Max(SuppliersAt(rows, s, id)) = m
    <3>1. SuppliersAt(rows, s, id) \in SUBSET s /\ m \in SuppliersAt(rows, s, id)
      BY <1>1, <1>2, <1>6 DEF SuppliersAt
    <3> QED
      BY <1>1, <3>1
  <2>4. \A x : x # id => SuppliersAt(rows, s, x) = SuppliersAt(rows, s \ {m}, x)
    BY <1>2
  <2>5. WalkedSuppliers(b, rows, s) = Put(before, id, row)
    BY <1>4, <1>5, <2>2, <2>3, <2>4 DEF WalkedSuppliers, Put
  <2> QED
    BY <1>6, <2>5
<1>7. CASE ~IsSupplierRow(row) /\ NamesSupplier(row)
  <2>1. id \in SupplierIds
    BY <1>1, <1>7 DEF NamesSupplier, Row
  <2>2. FoundSuppliers(rows, s) = FoundSuppliers(rows, s \ {m}) \cup {id}
    BY <1>2, <1>3, <1>7, <2>1 DEF FoundSuppliers
  <2>3. \A x : SuppliersAt(rows, s, x) = SuppliersAt(rows, s \ {m}, x)
    BY <1>2, <1>7
  <2>4. CASE id \in DOMAIN before
    <3>1. WalkedSuppliers(b, rows, s) = before
      BY <1>4, <2>2, <2>3, <2>4 DEF WalkedSuppliers
    <3> QED
      BY <1>7, <2>4, <3>1 DEF SetDefault
  <2>5. CASE id \notin DOMAIN before
    <3>1. SuppliersAt(rows, s, id) = {} /\ id \notin DOMAIN b
      BY <1>4, <2>1, <2>3, <2>5 DEF FoundSuppliers
    <3>2. WalkedSuppliers(b, rows, s) = Put(before, id, Stub(id))
      BY <1>4, <1>5, <2>2, <2>3, <2>5, <3>1 DEF WalkedSuppliers, Put
    <3> QED
      BY <1>7, <2>5, <3>2 DEF SetDefault
  <2> QED
    BY <2>4, <2>5
<1>8. CASE ~IsSupplierRow(row) /\ ~NamesSupplier(row)
  <2>1. /\ \A x : SuppliersAt(rows, s, x) = SuppliersAt(rows, s \ {m}, x)
        /\ \A x : NamingAt(rows, s, x) = NamingAt(rows, s \ {m}, x)
    BY <1>2, <1>3, <1>8
  <2>2. FoundSuppliers(rows, s) = FoundSuppliers(rows, s \ {m})
    BY <2>1 DEF FoundSuppliers
  <2>3. WalkedSuppliers(b, rows, s) = before
    BY <2>1, <2>2 DEF WalkedSuppliers
  <2> QED
    BY <1>8, <2>3
<1> QED
  BY <1>6, <1>7, <1>8

(* Passing the last of some rows is one turn of the loop.                  *)
LEMMA WalkStep ==
  ASSUME NEW rows \in Seq(Row), NEW s \in SUBSET DOMAIN rows, s # {}, NEW b
  PROVE  Walked(b, rows, s) = AbsorbRow(Walked(b, rows, s \ {Max(s)}), rows[Max(s)])
<1> DEFINE m == Max(s)
           row == rows[m]
           id == row.supplier_id
           p == WalkedProducts(b.products, rows, s \ {m})
           x == WalkedSuppliers(b.suppliers, rows, s \ {m})
           r == WalkedRecords(b.records, rows, s \ {m})
<1>1. WalkedProducts(b.products, rows, s) =
        IF IsProductRow(row) THEN Put(p, row.product_id, row) ELSE p
  BY WalkProducts
<1>2. WalkedSuppliers(b.suppliers, rows, s) =
        IF IsSupplierRow(row) THEN Put(x, id, row)
        ELSE IF NamesSupplier(row) THEN SetDefault(x, id, Stub(id))
        ELSE x
  BY WalkSuppliers
<1>3. WalkedRecords(b.records, rows, s) =
        IF IsOtherRow(row) THEN r \cup {row} ELSE r
  <2>1. m \in s
    BY LastOfSome
  <2> QED
    BY <2>1 DEF WalkedRecords
<1>4. Walked(b, rows, s \ {m}) = [products |-> p, suppliers |-> x, records |-> r]
  BY DEF Walked
<1>5. AbsorbRow([products |-> p, suppliers |-> x, records |-> r], row) =
        [products  |-> IF IsProductRow(row) THEN Put(p, row.product_id, row) ELSE p,
         suppliers |-> IF IsSupplierRow(row) THEN Put(x, id, row)
                       ELSE IF NamesSupplier(row) THEN SetDefault(x, id, Stub(id))
                       ELSE x,
         records   |-> IF IsOtherRow(row) THEN r \cup {row} ELSE r]
  <2> HIDE DEF p, x, r, row
  <2>1. SetDefault(Put(x, id, row), id, Stub(id)) = Put(x, id, row)
    BY DEF SetDefault, Put
  <2>2. IsProductRow(row) => ~IsSupplierRow(row) /\ ~IsOtherRow(row)
    BY DEF IsProductRow, IsSupplierRow, IsOtherRow
  <2>3. ~IsProductRow(row) => (IsSupplierRow(row) <=> id # None)
                              /\ (IsOtherRow(row) <=> id = None)
    BY DEF IsProductRow, IsSupplierRow, IsOtherRow
  <2>4. NamesSupplier(row) => id # None
    BY DEF NamesSupplier
  <2> QED
    BY <2>1, <2>2, <2>3, <2>4 DEF AbsorbRow
<1> QED
  BY <1>1, <1>2, <1>3, <1>4, <1>5 DEF Walked

(* The fold is the value, for all positions, of a function that recurs on  *)
(* them.                                                                   *)
LEMMA FoldUnfolds ==
  ASSUME NEW base, NEW rows
  PROVE  LET walked[s \in SUBSET DOMAIN rows] ==
               IF s = {} THEN base
               ELSE AbsorbRow(walked[s \ {Max(s)}], rows[Max(s)])
         IN FoldLeft(AbsorbRow, base, rows) = walked[DOMAIN rows]
  BY DEF FoldLeft, MapThenFoldSet

(* Nothing is passed at first.                                             *)
LEMMA WalkNothing ==
  ASSUME NEW rows, NEW b,
         b = [products |-> [p \in DOMAIN b.products |-> b.products[p]],
              suppliers |-> [x \in DOMAIN b.suppliers |-> b.suppliers[x]],
              records |-> b.records]
  PROVE  Walked(b, rows, {}) = b
<1>1. /\ \A p : ProductsAt(rows, {}, p) = {}
      /\ \A x : SuppliersAt(rows, {}, x) = {} /\ NamingAt(rows, {}, x) = {}
  BY DEF ProductsAt, SuppliersAt, NamingAt
<1>2. FoundProducts(rows, {}) = {} /\ FoundSuppliers(rows, {}) = {}
  BY <1>1 DEF FoundProducts, FoundSuppliers
<1>3. /\ WalkedProducts(b.products, rows, {}) =
           [p \in DOMAIN b.products |-> b.products[p]]
      /\ WalkedSuppliers(b.suppliers, rows, {}) =
           [x \in DOMAIN b.suppliers |-> b.suppliers[x]]
      /\ WalkedRecords(b.records, rows, {}) = b.records
  BY <1>1, <1>2 DEF WalkedProducts, WalkedSuppliers, WalkedRecords
<1> QED
  BY <1>3 DEF Walked

(* Walked solves the recurrence of the fold, and every solution is Walked: *)
(* at a smallest set of positions where they differed, they would agree    *)
(* on what comes before its last one.                                      *)
LEMMA FoldIsWalked ==
  ASSUME NEW rows \in Seq(Row), NEW b,
         b = [products |-> [p \in DOMAIN b.products |-> b.products[p]],
              suppliers |-> [x \in DOMAIN b.suppliers |-> b.suppliers[x]],
              records |-> b.records]
  PROVE  FoldLeft(AbsorbRow, b, rows) = Walked(b, rows, DOMAIN rows)
<1> DEFINE D == DOMAIN rows
           Turn(f, s) == IF s = {} THEN b
                         ELSE AbsorbRow(f[s \ {Max(s)}], rows[Max(s)])
           Solves(f) == f = [s \in SUBSET D |-> Turn(f, s)]
           walked == CHOOSE f : Solves(f)
           closed == [s \in SUBSET D |-> Walked(b, rows, s)]
<1>1. FoldLeft(AbsorbRow, b, rows) = walked[D]
  BY FoldUnfolds
<1>2. Solves(closed)
  <2>1. ASSUME NEW s \in SUBSET D PROVE Walked(b, rows, s) = Turn(closed, s)
    <3>1. CASE s = {}
      BY <3>1, WalkNothing
    <3>2. CASE s # {}
      <4>1. closed[s \ {Max(s)}] = Walked(b, rows, s \ {Max(s)})
        OBVIOUS
      <4> QED
        BY <3>2, <4>1, WalkStep
    <3> QED
      BY <3>1, <3>2
  <2> HIDE DEF Turn
  <2> QED
    BY <2>1
<1>3. Solves(walked)
  <2> HIDE DEF Solves
  <2> QED
    BY <1>2
<1>4. \A s \in SUBSET D : walked[s] = Turn(walked, s) /\ closed[s] = Turn(closed, s)
  <2> HIDE DEF walked, closed, Turn
  <2> QED
    BY <1>2, <1>3
<1> HIDE DEF walked
<1>5. \A s \in SUBSET D : walked[s] = closed[s]
  <2> DEFINE Differ == {s \in SUBSET D : walked[s] # closed[s]}
  <2> SUFFICES ASSUME Differ # {} PROVE FALSE
    OBVIOUS
  <2>1. PICK s \in Differ : \A t \in SUBSET s : t # s => t \notin Differ
    <3>1. Differ \subseteq SUBSET (1..Len(rows)) /\ Len(rows) \in Nat
      OBVIOUS
    <3> HIDE DEF Differ, D
    <3> QED
      BY <3>1, PositionsWellFounded
  <2>2. CASE s = {}
    BY <1>4, <2>1, <2>2
  <2>3. CASE s # {}
    <3> DEFINE t == s \ {Max(s)}
    <3>1. Max(s) \in s
      BY <2>1, <2>3, LastOfSome
    <3>2. t \in SUBSET s /\ t # s
      BY <3>1
    <3>3. t \in SUBSET D /\ t \notin Differ
      BY <2>1, <3>2
    <3>4. walked[t] = closed[t]
      BY <3>3
    <3>5. Turn(walked, s) = Turn(closed, s)
      <4> HIDE DEF closed
      <4> QED
        BY <3>4
    <3> QED
      BY <1>4, <2>1, <3>5
  <2> QED
    BY <2>2, <2>3
<1> QED
  BY <1>1, <1>5

(* Over all positions, Walked is what the operators of RowBuckets say.     *)
LEMMA WalkedIsAbsorbed ==
  ASSUME NEW rows \in Seq(Row), NEW b
  PROVE  Walked(b, rows, DOMAIN rows) =
           [products  |-> AbsorbProducts(b.products, rows),
            suppliers |-> AbsorbSuppliers(b.suppliers, rows),
            records   |-> AbsorbRecords(b.records, rows)]
<1>1. /\ \A p : ProductsAt(rows, DOMAIN rows, p) = ProductRowsOf(rows, p)
      /\ \A x : /\ SuppliersAt(rows, DOMAIN rows, x) = SupplierRowsOf(rows, x)
                /\ NamingAt(rows, DOMAIN rows, x) = NamingRowsOf(rows, x)
  BY DEF ProductsAt, SuppliersAt, NamingAt,
         ProductRowsOf, SupplierRowsOf, NamingRowsOf
<1>2. /\ FoundProducts(rows, DOMAIN rows) = ProductsIn(rows)
      /\ FoundSuppliers(rows, DOMAIN rows) = SuppliersIn(rows)
  BY <1>1 DEF FoundProducts, FoundSuppliers, ProductsIn, SuppliersIn
<1>3. WalkedProducts(b.products, rows, DOMAIN rows) = AbsorbProducts(b.products, rows)
  BY <1>1, <1>2 DEF WalkedProducts, AbsorbProducts
<1>4. WalkedSuppliers(b.suppliers, rows, DOMAIN rows)
        = AbsorbSuppliers(b.suppliers, rows)
  BY <1>1, <1>2 DEF WalkedSuppliers, AbsorbSuppliers
<1>5. WalkedRecords(b.records, rows, DOMAIN rows) = AbsorbRecords(b.records, rows)
  BY DEF WalkedRecords, AbsorbRecords
<1> QED
  BY <1>3, <1>4, <1>5 DEF Walked

(* The buckets are dicts, and the walk has the same.                       *)
WalkInv ==
  /\ products = [p \in DOMAIN products |-> products[p]]
  /\ suppliers = [x \in DOMAIN suppliers |-> suppliers[x]]
  /\ MatchesWalk

LEMMA WalkInductive == WalkInv /\ [Next]_vars => WalkInv'
<1> SUFFICES ASSUME WalkInv, [Next]_vars PROVE WalkInv'
  OBVIOUS
<1>1. ASSUME NEW rows \in Replies, Feed(rows) PROVE WalkInv'
  <2>1. rows \in Seq(Row)
    BY FeedAssumption
  <2>2. /\ walk.products = products /\ walk.suppliers = suppliers
        /\ walk.records = records
        /\ walk = [products |-> [p \in DOMAIN walk.products |-> walk.products[p]],
                   suppliers |-> [x \in DOMAIN walk.suppliers |-> walk.suppliers[x]],
                   records |-> walk.records]
    BY DEF WalkInv, MatchesWalk
  <2>3. walk' = Walked(walk, rows, DOMAIN rows)
    BY <1>1, <2>1, <2>2, FoldIsWalked DEF Feed
  <2>4. MatchesWalk'
    BY <1>1, <2>1, <2>2, <2>3, WalkedIsAbsorbed DEF Feed, MatchesWalk
  <2>5. products' = [p \in DOMAIN products' |-> products'[p]]
    BY <1>1 DEF Feed, AbsorbProducts
  <2>6. suppliers' = [x \in DOMAIN suppliers' |-> suppliers'[x]]
    BY <1>1 DEF Feed, AbsorbSuppliers
  <2> QED
    BY <2>4, <2>5, <2>6 DEF WalkInv
<1>2. CASE UNCHANGED vars
  BY <1>2 DEF vars, WalkInv, MatchesWalk
<1> QED
  BY <1>1, <1>2 DEF Next

(* For replies of every length, what the operators of RowBuckets say of a  *)
(* reply as a whole is what the row-by-row loop of _absorb leaves behind:  *)
(* the models of the agent and of the buckets file rows as the code does.  *)
THEOREM WalkIsMatched == Spec => []MatchesWalk
<1>1. Init => WalkInv
  BY DEF Init, WalkInv, MatchesWalk, NoRows
<1>2. WalkInv => MatchesWalk
  BY DEF WalkInv
<1> QED
  BY <1>1, <1>2, WalkInductive, PTL DEF Spec
===============================================================================
