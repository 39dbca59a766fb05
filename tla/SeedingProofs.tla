----------------------------- MODULE SeedingProofs -----------------------------
(***************************************************************************)
(* The seeding script is all or nothing and can be run again, whatever     *)
(* tables other sessions add and remove.                                   *)
(***************************************************************************)
EXTENDS Seeding, SequenceTheorems, TLAPS

Names    == {"suppliers", "products", "prices", "warehouses", "inventory"}
Tables   == Names \cup Extras
Settings == {"schema", "role", "connect", "usage", "select", "defaults",
             "read_only", "revoke"}
Database == [tables : SUBSET Tables, filled : SUBSET Tables,
             readable : SUBSET Tables, settled : SUBSET Settings]

Statement == [op : {"drop", "create", "insert"}, on : Names] \cup [op : Settings]

RoleScript == <<[op |-> "role"]>> \o RoleGrants

-------------------------------------------------------------------------------
(* The two scripts, line by line.                                          *)
LEMMA SeededNames == Seeded = Names
<1>1. DOMAIN Creates = 1..5
  BY DEF Creates
<1>2. Seeded = {Creates[1], Creates[2], Creates[3], Creates[4], Creates[5]}
  BY <1>1 DEF Seeded, ToSet
<1> QED
  BY <1>2 DEF Creates, Names

Joined(s, t) == s \o t

LEMMA TwoParts ==
  ASSUME NEW S, NEW s \in Seq(S), NEW t \in Seq(S)
  PROVE  /\ Joined(s, t) \in Seq(S) /\ Len(Joined(s, t)) = Len(s) + Len(t)
         /\ \A i \in 1..Len(s) : Joined(s, t)[i] = s[i]
         /\ \A i \in 1..Len(t) : Joined(s, t)[Len(s) + i] = t[i]
<1> DEFINE m == Len(s)
           n == Len(t)
<1>1. /\ s \o t \in Seq(S) /\ Len(s \o t) = m + n
      /\ \A i \in 1..(m + n) : (s \o t)[i] = IF i <= m THEN s[i] ELSE t[i - m]
  BY ConcatProperties
<1>2. m \in Nat /\ n \in Nat
  OBVIOUS
<1> HIDE DEF m, n
<1>3. /\ \A i \in 1..m : i \in 1..(m + n) /\ i <= m
      /\ \A i \in 1..n : m + i \in 1..(m + n) /\ ~(m + i <= m) /\ (m + i) - m = i
  BY <1>2
<1> QED
  BY <1>1, <1>3 DEF Joined, m, n

LEMMA EachStatement ==
  ASSUME NEW op \in {"drop", "create", "insert"}, NEW s \in Seq(Names)
  PROVE  /\ Each(op, s) \in Seq(Statement) /\ Len(Each(op, s)) = Len(s)
         /\ \A i \in 1..Len(s) : Each(op, s)[i] = [op |-> op, on |-> s[i]]
<1>1. \A i \in 1..Len(s) : [op |-> op, on |-> s[i]] \in Statement
  BY DEF Statement
<1>2. Each(op, s) = [i \in 1..Len(s) |-> [op |-> op, on |-> s[i]]]
  BY DEF Each
<1> QED
  BY <1>1, <1>2

LEMMA SeedLines ==
  /\ SeedScript \in Seq(Statement) /\ Len(SeedScript) = 16
  /\ SeedScript[1] = [op |-> "schema"]
  /\ \A i \in 1..5 : /\ SeedScript[1 + i]  = [op |-> "drop", on |-> Drops[i]]
                     /\ SeedScript[6 + i]  = [op |-> "create", on |-> Creates[i]]
                     /\ SeedScript[11 + i] = [op |-> "insert", on |-> Creates[i]]
<1> DEFINE a == <<[op |-> "schema"]>>
           b == Each("drop", Drops)
           c == Each("create", Creates)
           d == Each("insert", Creates)
<1>1. /\ Drops \in Seq(Names) /\ Len(Drops) = 5
      /\ Creates \in Seq(Names) /\ Len(Creates) = 5
  BY DEF Drops, Creates, Names
<1>2. /\ b \in Seq(Statement) /\ Len(b) = 5
      /\ \A i \in 1..5 : b[i] = [op |-> "drop", on |-> Drops[i]]
  BY <1>1, EachStatement
<1>3. /\ c \in Seq(Statement) /\ Len(c) = 5
      /\ \A i \in 1..5 : c[i] = [op |-> "create", on |-> Creates[i]]
  BY <1>1, EachStatement
<1>4. /\ d \in Seq(Statement) /\ Len(d) = 5
      /\ \A i \in 1..5 : d[i] = [op |-> "insert", on |-> Creates[i]]
  BY <1>1, EachStatement
<1>5. a \in Seq(Statement) /\ Len(a) = 1 /\ a[1] = [op |-> "schema"]
  BY DEF Statement, Settings
<1> DEFINE p == Joined(a, b)
           q == Joined(p, c)
           s == Joined(q, d)
<1> HIDE DEF a, b, c, d, p, q, s
<1>l. Len(a) = 1 /\ Len(b) = 5 /\ Len(c) = 5 /\ Len(d) = 5
  BY <1>2, <1>3, <1>4, <1>5
<1>6. /\ p \in Seq(Statement) /\ Len(p) = 6 /\ p[1] = a[1]
      /\ \A i \in 1..5 : p[1 + i] = b[i]
  <2>1. /\ p \in Seq(Statement) /\ Len(p) = Len(a) + Len(b)
        /\ \A i \in 1..Len(a) : p[i] = a[i]
        /\ \A i \in 1..Len(b) : p[Len(a) + i] = b[i]
    <3>0. a \in Seq(Statement) /\ b \in Seq(Statement)
      BY <1>2, <1>5
    <3>1. p = Joined(a, b)
      BY DEF p
    <3>2. p \in Seq(Statement)
      BY <3>0, <3>1, TwoParts
    <3>3. Len(p) = Len(a) + Len(b)
      BY <3>0, <3>1, TwoParts
    <3>4. \A i \in 1..Len(a) : p[i] = a[i]
      BY <3>0, <3>1, TwoParts
    <3>5. \A i \in 1..Len(b) : Joined(a, b)[Len(a) + i] = b[i]
      BY <3>0, TwoParts
    <3> QED
      BY <3>1, <3>2, <3>3, <3>4, <3>5
  <2> QED
    BY <1>l, <2>1
<1>7. /\ q \in Seq(Statement) /\ Len(q) = 11
      /\ \A i \in 1..6 : q[i] = p[i]
      /\ \A i \in 1..5 : q[6 + i] = c[i]
  <2>1. /\ q \in Seq(Statement) /\ Len(q) = Len(p) + Len(c)
        /\ \A i \in 1..Len(p) : q[i] = p[i]
        /\ \A i \in 1..Len(c) : q[Len(p) + i] = c[i]
    <3>0. p \in Seq(Statement) /\ c \in Seq(Statement)
      BY <1>3, <1>6
    <3>1. q = Joined(p, c)
      BY DEF q
    <3>2. q \in Seq(Statement)
      BY <3>0, <3>1, TwoParts
    <3>3. Len(q) = Len(p) + Len(c)
      BY <3>0, <3>1, TwoParts
    <3>4. \A i \in 1..Len(p) : q[i] = p[i]
      BY <3>0, <3>1, TwoParts
    <3>5. \A i \in 1..Len(c) : Joined(p, c)[Len(p) + i] = c[i]
      BY <3>0, TwoParts
    <3> QED
      BY <3>1, <3>2, <3>3, <3>4, <3>5
  <2> QED
    BY <1>l, <1>6, <2>1
<1>8. /\ s \in Seq(Statement) /\ Len(s) = 16
      /\ \A i \in 1..11 : s[i] = q[i]
      /\ \A i \in 1..5 : s[11 + i] = d[i]
  <2>1. /\ s \in Seq(Statement) /\ Len(s) = Len(q) + Len(d)
        /\ \A i \in 1..Len(q) : s[i] = q[i]
        /\ \A i \in 1..Len(d) : s[Len(q) + i] = d[i]
    <3>0. q \in Seq(Statement) /\ d \in Seq(Statement)
      BY <1>4, <1>7
    <3>1. s = Joined(q, d)
      BY DEF s
    <3>2. s \in Seq(Statement)
      BY <3>0, <3>1, TwoParts
    <3>3. Len(s) = Len(q) + Len(d)
      BY <3>0, <3>1, TwoParts
    <3>4. \A i \in 1..Len(q) : s[i] = q[i]
      BY <3>0, <3>1, TwoParts
    <3>5. \A i \in 1..Len(d) : Joined(q, d)[Len(q) + i] = d[i]
      BY <3>0, TwoParts
    <3> QED
      BY <3>1, <3>2, <3>3, <3>4, <3>5
  <2> QED
    BY <1>l, <1>7, <2>1
<1>9. SeedScript = s
  BY DEF SeedScript, Joined, a, b, c, d, p, q, s
<1>10. \A i \in 1..5 : 1 + i \in 1..6 /\ 1 + i \in 1..11 /\ 6 + i \in 1..11
  OBVIOUS
<1>11. 1 \in 1..6 /\ 1 \in 1..11
  OBVIOUS
<1> QED
  BY <1>2, <1>3, <1>4, <1>5, <1>6, <1>7, <1>8, <1>9, <1>10, <1>11

LEMMA RoleLines ==
  /\ RoleScript \in Seq(Statement) /\ Len(RoleScript) = 7
  /\ RoleGrants \in Seq(Statement) /\ Len(RoleGrants) = 6
  /\ \A i \in 1..6 : RoleGrants[i] = RoleScript[1 + i]
  /\ RoleScript[1] = [op |-> "role"]     /\ RoleScript[2] = [op |-> "connect"]
  /\ RoleScript[3] = [op |-> "usage"]    /\ RoleScript[4] = [op |-> "select"]
  /\ RoleScript[5] = [op |-> "defaults"] /\ RoleScript[6] = [op |-> "read_only"]
  /\ RoleScript[7] = [op |-> "revoke"]
<1>1. RoleGrants \in Seq(Statement) /\ Len(RoleGrants) = 6
  BY DEF RoleGrants, Statement, Settings
<1>2. <<[op |-> "role"]>> \in Seq(Statement)
  BY DEF Statement, Settings
<1>3. /\ RoleScript \in Seq(Statement) /\ Len(RoleScript) = 7
      /\ RoleScript[1] = [op |-> "role"]
      /\ \A i \in 1..6 : RoleScript[1 + i] = RoleGrants[i]
  <2> DEFINE a == <<[op |-> "role"]>>
  <2>1. a \in Seq(Statement) /\ Len(a) = 1 /\ a[1] = [op |-> "role"]
    BY <1>2
  <2>2. RoleScript = Joined(a, RoleGrants)
    BY DEF RoleScript, Joined
  <2> HIDE DEF a
  <2>3. /\ RoleScript \in Seq(Statement) /\ Len(RoleScript) = Len(a) + Len(RoleGrants)
        /\ \A i \in 1..Len(a) : RoleScript[i] = a[i]
        /\ \A i \in 1..Len(RoleGrants) : RoleScript[Len(a) + i] = RoleGrants[i]
    <3>0. a \in Seq(Statement) /\ RoleGrants \in Seq(Statement)
      BY <1>1, <2>1, <2>2
    <3>1. RoleScript = Joined(a, RoleGrants)
      BY <1>1, <2>1, <2>2
    <3>2. RoleScript \in Seq(Statement)
      BY <3>0, <3>1, TwoParts
    <3>3. Len(RoleScript) = Len(a) + Len(RoleGrants)
      BY <3>0, <3>1, TwoParts
    <3>4. \A i \in 1..Len(a) : RoleScript[i] = a[i]
      BY <3>0, <3>1, TwoParts
    <3>5. \A i \in 1..Len(RoleGrants) : Joined(a, RoleGrants)[Len(a) + i] = RoleGrants[i]
      BY <3>0, TwoParts
    <3> QED
      BY <3>1, <3>2, <3>3, <3>4, <3>5
  <2> QED
    BY <1>1, <2>1, <2>3
<1>4. /\ RoleGrants[1] = [op |-> "connect"]   /\ RoleGrants[2] = [op |-> "usage"]
      /\ RoleGrants[3] = [op |-> "select"]    /\ RoleGrants[4] = [op |-> "defaults"]
      /\ RoleGrants[5] = [op |-> "read_only"] /\ RoleGrants[6] = [op |-> "revoke"]
  BY DEF RoleGrants
<1>5. /\ 1 \in 1..6 /\ 2 \in 1..6 /\ 3 \in 1..6 /\ 4 \in 1..6 /\ 5 \in 1..6 /\ 6 \in 1..6
      /\ 1 + 1 = 2 /\ 1 + 2 = 3 /\ 1 + 3 = 4 /\ 1 + 4 = 5 /\ 1 + 5 = 6 /\ 1 + 6 = 7
  OBVIOUS
<1>6. /\ RoleScript[2] = RoleGrants[1] /\ RoleScript[3] = RoleGrants[2]
      /\ RoleScript[4] = RoleGrants[3] /\ RoleScript[5] = RoleGrants[4]
      /\ RoleScript[6] = RoleGrants[5] /\ RoleScript[7] = RoleGrants[6]
  BY <1>3, <1>5
<1> QED
  BY <1>1, <1>3, <1>4, <1>6

-------------------------------------------------------------------------------
(* Where the open transaction stands: so many lines of its script are done *)
(* and the rest is to come.                                                *)
Done(script) == Len(script) - Len(rest)
On(script) ==
  /\ rest \in Seq(Statement) /\ Len(rest) <= Len(script)
  /\ \A i \in 1..Len(rest) : rest[i] = script[Done(script) + i]

(* A database that keeps the promises of SeedIsWhole and RoleIsWhole; once *)
(* the role is there, default privileges look after the tables to come.    *)
SeedOK(db) ==
  db.tables \cap Seeded = {} \/ Seeded \subseteq db.tables \cap db.filled
RoleOK(db) == "role" \in db.settled =>
                /\ Rights \cup {"defaults"} \subseteq db.settled
                /\ db.tables \ (Foreign \cup missed) \subseteq db.readable

(* The database after k lines of init_db.sql ...                           *)
SeedStage(db, k) ==
  /\ k >= 1 => "schema" \in db.settled
  /\ \A i \in 1..5 :
       /\ i < k /\ k <= 6 => Drops[i] \notin db.tables \cup db.filled
       /\ k >= 6 => /\ Creates[i] \in db.tables <=> i <= k - 6
                    /\ Creates[i] \in db.filled <=> i <= k - 11

(* ... and after k steps of _ensure_readonly_role.                         *)
GrantStage(db, k) ==
  /\ "schema" \in db.settled /\ Seeded \subseteq db.tables \cap db.filled
  /\ "role" \in db.settled <=> k >= 1
  /\ k >= 2 => "connect" \in db.settled
  /\ k >= 3 => "usage" \in db.settled
  /\ k >= 4 => db.tables \ (Foreign \cup missed) \subseteq db.readable
  /\ k >= 5 => "defaults" \in db.settled
  /\ k >= 6 => "read_only" \in db.settled
  /\ k >= 7 => "revoke" \in db.settled

Delivered(db) == /\ Seeded \subseteq db.filled \cap db.readable
                 /\ Rights \subseteq db.settled

DataInv == /\ pc \in {"idle", "seeding", "granting", "done", "failed"}
           /\ work \in Database /\ base \in Database /\ missed \subseteq Extras

BaseInv == /\ SeedOK(base) /\ RoleOK(base)
           /\ pc = "done" => Delivered(base)
           /\ ~InTransaction => work = base

(* The tables of others stay as they are while the script's are replaced.  *)
SeedInv == pc = "seeding" =>
  /\ On(SeedScript) /\ SeedStage(work, Done(SeedScript)) /\ RoleOK(work)
  /\ work.tables \ Seeded = base.tables \ Seeded
  /\ work.settled \subseteq base.settled \cup {"schema"}

GrantInv == pc = "granting" =>
  /\ On(RoleScript) /\ GrantStage(work, Done(RoleScript))
  /\ "role" \in base.settled => "role" \in work.settled /\ RoleOK(work)

SeedingInv == DataInv /\ BaseInv /\ SeedInv /\ GrantInv

-------------------------------------------------------------------------------
LEMMA NextLine ==
  ASSUME NEW CONSTANT script, script \in Seq(Statement), On(script), rest # <<>>
  PROVE  /\ Done(script) \in 0..(Len(script) - 1)
         /\ Head(rest) = script[Done(script) + 1] /\ Head(rest) \in Statement
         /\ rest' = Tail(rest) => On(script)' /\ Done(script)' = Done(script) + 1
<1> DEFINE n == Len(script)
           m == Len(rest)
<1>1. n \in Nat /\ m \in Nat \ {0} /\ m <= n
  BY DEF On
<1>2. /\ Head(rest) = rest[1] /\ Head(rest) \in Statement
      /\ Tail(rest) \in Seq(Statement) /\ Len(Tail(rest)) = m - 1
      /\ \A i \in 1..(m - 1) : Tail(rest)[i] = rest[i + 1]
  BY DEF On
<1>3. \A i \in 1..m : rest[i] = script[(n - m) + i]
  BY DEF On, Done
<1> HIDE DEF n, m
<1>4. 1 \in 1..m /\ \A i \in 1..(m - 1) : i + 1 \in 1..m
  BY <1>1
<1>5. /\ n - m \in 0..(n - 1) /\ n - (m - 1) = (n - m) + 1 /\ m - 1 <= n
      /\ \A i \in 1..(m - 1) : (n - m) + (i + 1) = ((n - m) + 1) + i
  BY <1>1
<1>6. \A i \in 1..(m - 1) : Tail(rest)[i] = script[((n - m) + 1) + i]
  BY <1>2, <1>3, <1>4, <1>5
<1>7. Head(rest) = script[(n - m) + 1]
  BY <1>2, <1>3, <1>4
<1>8. Done(script) = n - m
  BY DEF Done, n, m
<1>9. ASSUME rest' = Tail(rest) PROVE On(script)' /\ Done(script)' = Done(script) + 1
  <2>1. Done(script)' = n - (m - 1)
    BY <1>2, <1>9 DEF Done, n
  <2>2. Len(rest') = m - 1 /\ rest' \in Seq(Statement)
    BY <1>2, <1>9
  <2>3. \A i \in 1..(m - 1) : rest'[i] = script[Done(script)' + i]
    BY <1>5, <1>6, <1>9, <2>1
  <2>4. Len(rest') <= Len(script)
    BY <1>5, <2>2 DEF n
  <2> QED
    BY <1>5, <1>8, <2>1, <2>2, <2>3, <2>4 DEF On
<1> QED
  BY <1>2, <1>5, <1>7, <1>8, <1>9 DEF n

(* Who refers to whom.                                                     *)
LEMMA ForeignKeys ==
  ASSUME NEW t \in Tables
  PROVE  /\ "inventory" \notin References(t) /\ "prices" \notin References(t)
         /\ "warehouses" \in References(t) => t = "inventory"
         /\ "suppliers" \in References(t) => t = "products"
         /\ "products" \in References(t) => t \in {"prices", "inventory"} \cup Linked
  BY ExtraAssumption, SeededNames DEF References, Tables, Names

LEMMA OwnForeignKeys ==
  /\ References("suppliers") = {} /\ References("products") = {"suppliers"}
  /\ References("prices") = {"products"} /\ References("warehouses") = {}
  /\ References("inventory") = {"products", "warehouses"}
  BY ExtraAssumption, SeededNames DEF References, Names

(* What a statement does.                                                  *)
LEMMA Statements ==
  ASSUME NEW db, NEW t
  PROVE  /\ Apply(db, [op |-> "drop", on |-> t]) = Dropped(db, t)
         /\ Apply(db, [op |-> "create", on |-> t]) = Created(db, t, Covered(db, t))
         /\ Apply(db, [op |-> "insert", on |-> t]) = [db EXCEPT !.filled = @ \cup {t}]
<1>1. Apply(db, [op |-> "drop", on |-> t]) = Dropped(db, t)
  BY DEF Apply
<1>2. Apply(db, [op |-> "create", on |-> t]) = Created(db, t, Covered(db, t))
  BY DEF Apply
<1>3. Apply(db, [op |-> "insert", on |-> t]) = [db EXCEPT !.filled = @ \cup {t}]
  BY DEF Apply
<1> QED
  BY <1>1, <1>2, <1>3

LEMMA Grants ==
  ASSUME NEW db
  PROVE  /\ Apply(db, [op |-> "select"]) = [db EXCEPT !.readable = db.tables]
         /\ \A x \in Settings \ {"select"} :
              Apply(db, [op |-> x]) = [db EXCEPT !.settled = @ \cup {x}]
<1>1. Apply(db, [op |-> "select"]) = [db EXCEPT !.readable = db.tables]
  BY DEF Apply
<1>2. ASSUME NEW x \in Settings \ {"select"}
      PROVE  Apply(db, [op |-> x]) = [db EXCEPT !.settled = @ \cup {x}]
  BY DEF Apply, Settings
<1> QED
  BY <1>1, <1>2

(* The order of the drops, of the creations and of the insertions.         *)
LEMMA Orders ==
  /\ Drops[1] = "inventory" /\ Drops[2] = "prices" /\ Drops[3] = "warehouses"
  /\ Drops[4] = "products" /\ Drops[5] = "suppliers"
  /\ Creates[1] = "suppliers" /\ Creates[2] = "products" /\ Creates[3] = "prices"
  /\ Creates[4] = "warehouses" /\ Creates[5] = "inventory"
  BY DEF Drops, Creates

(* A line of init_db.sql is possible unless somebody else's foreign key is *)
(* in the way ...                                                          *)
LEMMA SeedLineAccepted ==
  ASSUME DataInv, SeedInv, pc = "seeding", rest # <<>>
  PROVE  Accepts(work, Head(rest)) \/ base.tables \cap Linked # {}
<1> DEFINE k == Done(SeedScript)
<1>1. /\ k \in 0..15 /\ Head(rest) = SeedScript[k + 1]
      /\ On(SeedScript) /\ SeedStage(work, k)
      /\ work.tables \ Seeded = base.tables \ Seeded
      /\ work.tables \subseteq Tables
  <2>1. /\ On(SeedScript) /\ SeedStage(work, k)
        /\ work.tables \ Seeded = base.tables \ Seeded
    BY DEF SeedInv
  <2>2. work.tables \subseteq Tables
    BY DEF DataInv, Database
  <2>3. k \in 0..(16 - 1) /\ Head(rest) = SeedScript[k + 1]
    BY <2>1, SeedLines, NextLine
  <2> QED
    BY <2>1, <2>2, <2>3
<1> HIDE DEF k
<1>2. \/ k = 0
      \/ \E i \in 1..5 : k = i \/ k = 5 + i \/ k = 10 + i
  <2>1. k = 0 \/ k \in 1..5 \/ k - 5 \in 1..5 \/ k - 10 \in 1..5
    BY <1>1
  <2>2. k = 5 + (k - 5) /\ k = 10 + (k - 10)
    BY <1>1
  <2> QED
    BY <2>1, <2>2
<1>3. CASE k = 0
  <2>1. Head(rest) = [op |-> "schema"]
    BY <1>1, <1>3, SeedLines
  <2> QED
    BY <2>1 DEF Accepts
<1>4. ASSUME NEW i \in 1..5, k = i
      PROVE  Accepts(work, Head(rest)) \/ base.tables \cap Linked # {}
  <2>1. Head(rest) = [op |-> "drop", on |-> Drops[i]]
    <3>1. k + 1 = 1 + i
      BY <1>4
    <3> QED
      BY <1>1, <3>1, SeedLines
  <2>2. \A j \in 1..5 : j < i => Drops[j] \notin work.tables
    BY <1>1, <1>4 DEF SeedStage
  <2>3. ASSUME NEW t \in work.tables, Drops[i] \in References(t)
        PROVE  t \in base.tables \cap Linked
    <3>1. t \in Tables
      BY <1>1
    <3>2. /\ i >= 2 => "inventory" \notin work.tables
          /\ i >= 3 => "prices" \notin work.tables
          /\ i >= 5 => "products" \notin work.tables
      BY <2>2, Orders
    <3>3. CASE i \in {1, 2}
      BY <2>3, <3>1, <3>3, Orders, ForeignKeys
    <3>4. CASE i = 3
      BY <2>3, <3>1, <3>2, <3>4, Orders, ForeignKeys
    <3>5. CASE i = 4
      <4>1. t \in Linked
        BY <2>3, <3>1, <3>2, <3>5, Orders, ForeignKeys
      <4>2. t \notin Seeded
        BY <4>1, ExtraAssumption
      <4> QED
        BY <1>1, <4>1, <4>2
    <3>6. CASE i = 5
      BY <2>3, <3>1, <3>2, <3>6, Orders, ForeignKeys
    <3> QED
      BY <3>3, <3>4, <3>5, <3>6
  <2>4. (\A t \in work.tables \ {Drops[i]} : Drops[i] \notin References(t))
          => Accepts(work, Head(rest))
    BY <2>1 DEF Accepts
  <2> QED
    BY <2>3, <2>4
<1>5. ASSUME NEW i \in 1..5, k = 5 + i PROVE Accepts(work, Head(rest))
  <2>1. Head(rest) = [op |-> "create", on |-> Creates[i]]
    <3>1. k + 1 = 6 + i
      BY <1>5
    <3> QED
      BY <1>1, <3>1, SeedLines
  <2>2. \A j \in 1..5 : Creates[j] \in work.tables <=> j < i
    BY <1>1, <1>5 DEF SeedStage
  <2>3. References(Creates[i]) \subseteq work.tables
    <3>1. /\ i > 1 => "suppliers" \in work.tables
          /\ i > 2 => "products" \in work.tables
          /\ i > 4 => "warehouses" \in work.tables
      BY <2>2, Orders
    <3>2. i = 1 \/ i = 2 \/ i = 3 \/ i = 4 \/ i = 5
      OBVIOUS
    <3> QED
      BY <3>1, <3>2, Orders, OwnForeignKeys
  <2>4. Creates[i] \notin work.tables
    BY <2>2
  <2> QED
    BY <2>1, <2>3, <2>4 DEF Accepts
<1>6. ASSUME NEW i \in 1..5, k = 10 + i PROVE Accepts(work, Head(rest))
  <2>1. Head(rest) = [op |-> "insert", on |-> Creates[i]]
    <3>1. k + 1 = 11 + i
      BY <1>6
    <3> QED
      BY <1>1, <3>1, SeedLines
  <2>2. \A j \in 1..5 : Creates[j] \in work.tables /\ (Creates[j] \in work.filled <=> j < i)
    BY <1>1, <1>6 DEF SeedStage
  <2>3. References(Creates[i]) \subseteq work.filled
    <3>1. /\ i > 1 => "suppliers" \in work.filled
          /\ i > 2 => "products" \in work.filled
          /\ i > 4 => "warehouses" \in work.filled
      BY <2>2, Orders
    <3>2. i = 1 \/ i = 2 \/ i = 3 \/ i = 4 \/ i = 5
      OBVIOUS
    <3> QED
      BY <3>1, <3>2, Orders, OwnForeignKeys
  <2>4. Creates[i] \in work.tables /\ Creates[i] \notin work.filled
    BY <2>2
  <2> QED
    BY <2>1, <2>3, <2>4 DEF Accepts
<1> QED
  BY <1>2, <1>3, <1>4, <1>5, <1>6

(* ... and brings the database to the next stage.                          *)
LEMMA SeedLineApplied ==
  ASSUME DataInv, SeedInv, pc = "seeding", rest # <<>>,
         NEW db, db = Apply(work, Head(rest))
  PROVE  /\ db \in Database /\ SeedStage(db, Done(SeedScript) + 1)
         /\ RoleOK(db) /\ db.tables \ Seeded = base.tables \ Seeded
         /\ db.settled \subseteq base.settled \cup {"schema"}
<1> DEFINE k == Done(SeedScript)
<1> SUFFICES /\ db \in Database /\ SeedStage(db, k + 1)
             /\ RoleOK(db) /\ db.tables \ Seeded = base.tables \ Seeded
             /\ db.settled \subseteq base.settled \cup {"schema"}
  OBVIOUS
<1>1. /\ k \in 0..15 /\ Head(rest) = SeedScript[k + 1]
      /\ On(SeedScript) /\ SeedStage(work, k) /\ RoleOK(work)
      /\ work.tables \ Seeded = base.tables \ Seeded
      /\ work.settled \subseteq base.settled \cup {"schema"}
      /\ work \in Database
  BY SeedLines, NextLine DEF SeedInv, DataInv
<1> HIDE DEF k
<1>s. SeedStage(work, k)
  BY <1>1
<1>k. k \in 0..15
  BY <1>1
<1>2. \/ k = 0
      \/ \E i \in 1..5 : k = i \/ k = 5 + i \/ k = 10 + i
  <2>1. k = 0 \/ k \in 1..5 \/ k - 5 \in 1..5 \/ k - 10 \in 1..5
    BY <1>1
  <2>2. k = 5 + (k - 5) /\ k = 10 + (k - 10)
    BY <1>1
  <2> QED
    BY <2>1, <2>2
<1>c. \A i \in 1..5 : /\ Drops[i] \in Seeded /\ Creates[i] \in Seeded
                      /\ Drops[i] \in Names /\ Creates[i] \in Names
                      /\ Drops[i] \notin Foreign /\ Creates[i] \notin Foreign
  <2>1. \A i \in 1..5 : Drops[i] \in Names /\ Creates[i] \in Names
    <3>1. \A i \in 1..5 : i = 1 \/ i = 2 \/ i = 3 \/ i = 4 \/ i = 5
      OBVIOUS
    <3> QED
      BY <3>1, Orders DEF Names
  <2> QED
    BY <2>1, SeededNames, ExtraAssumption
<1>3. CASE k = 0
  <2>1. Head(rest) = [op |-> "schema"]
    BY <1>1, <1>3, SeedLines
  <2>2. db = [work EXCEPT !.settled = work.settled \cup {"schema"}]
    BY <2>1, Grants DEF Settings
  <2>3. /\ db \in Database /\ db.tables = work.tables /\ db.filled = work.filled
        /\ db.readable = work.readable /\ db.settled = work.settled \cup {"schema"}
    BY <1>1, <2>2 DEF Database, Settings
  <2>4. SeedStage(db, k + 1)
    BY <1>3, <2>3 DEF SeedStage
  <2>5. RoleOK(db)
    <3>1. RoleOK(work)
      BY <1>1
    <3> QED
      BY <2>3, <3>1 DEF RoleOK
  <2>6. /\ db.tables \ Seeded = base.tables \ Seeded
        /\ db.settled \subseteq base.settled \cup {"schema"}
    BY <1>1, <2>3
  <2> QED
    BY <2>3, <2>4, <2>5, <2>6
<1>4. ASSUME NEW i \in 1..5, k = i
      PROVE  /\ db \in Database /\ SeedStage(db, k + 1)
             /\ RoleOK(db) /\ db.tables \ Seeded = base.tables \ Seeded
             /\ db.settled \subseteq base.settled \cup {"schema"}
  <2>1. Head(rest) = [op |-> "drop", on |-> Drops[i]]
    <3>1. k + 1 = 1 + i
      BY <1>4
    <3> QED
      BY <1>1, <3>1, SeedLines
  <2>2. db = [work EXCEPT !.tables = @ \ {Drops[i]}, !.filled = @ \ {Drops[i]},
                          !.readable = @ \ {Drops[i]}]
    <3>1. db = Dropped(work, Drops[i])
      BY <2>1, Statements
    <3> QED
      BY <3>1 DEF Dropped
  <2>3. /\ db \in Database /\ db.tables = work.tables \ {Drops[i]}
        /\ db.filled = work.filled \ {Drops[i]}
        /\ db.readable = work.readable \ {Drops[i]} /\ db.settled = work.settled
    BY <1>1, <2>2 DEF Database
  <2>4. SeedStage(db, k + 1)
    <3>1. \A j \in 1..5 : j < k + 1 /\ k + 1 <= 6 => Drops[j] \notin db.tables \cup db.filled
      BY <1>1, <1>4, <2>3 DEF SeedStage
    <3>2. ASSUME k + 1 >= 6, NEW j \in 1..5
          PROVE  Creates[j] \notin db.tables \cup db.filled
      <4>1. k = 5
        BY <1>1, <1>4, <3>2
      <4>2. \E m \in 1..5 : Creates[j] = Drops[m]
        <5>1. j = 1 \/ j = 2 \/ j = 3 \/ j = 4 \/ j = 5
          OBVIOUS
        <5> QED
          BY <5>1, Orders
      <4> QED
        BY <3>1, <4>1, <4>2
    <3>3. ~\E j \in 1..5 : k + 1 >= 6 /\ (j <= (k + 1) - 6 \/ j <= (k + 1) - 11)
      BY <1>4
    <3>4. k + 1 >= 1 => "schema" \in db.settled
      BY <1>1, <1>4, <2>3 DEF SeedStage
    <3> QED
      BY <3>1, <3>2, <3>3, <3>4 DEF SeedStage
  <2> QED
    BY <1>1, <1>c, <2>3, <2>4 DEF RoleOK
<1>5. ASSUME NEW i \in 1..5, k = 5 + i
      PROVE  /\ db \in Database /\ SeedStage(db, k + 1)
             /\ RoleOK(db) /\ db.tables \ Seeded = base.tables \ Seeded
             /\ db.settled \subseteq base.settled \cup {"schema"}
  <2>1. Head(rest) = [op |-> "create", on |-> Creates[i]]
    <3>1. k + 1 = 6 + i
      BY <1>5
    <3> QED
      BY <1>1, <3>1, SeedLines
  <2> DEFINE readable == IF Covered(work, Creates[i]) THEN work.readable \cup {Creates[i]}
                                                      ELSE work.readable
  <2>2. db = [work EXCEPT !.tables = work.tables \cup {Creates[i]}, !.readable = readable]
    BY <2>1, Statements DEF Created
  <2>3. readable \subseteq Tables
    BY <1>1, <1>c DEF Database, Tables
  <2> HIDE DEF readable
  <2>4. /\ db \in Database /\ db.tables = work.tables \cup {Creates[i]}
        /\ db.filled = work.filled /\ db.readable = readable /\ db.settled = work.settled
    BY <1>1, <1>c, <2>2, <2>3 DEF Database, Tables
  <2>5. SeedStage(db, k + 1)
    <3>1. \A j \in 1..5 : Creates[j] = Creates[i] => j = i
      <4>1. \A j \in 1..5 : j = 1 \/ j = 2 \/ j = 3 \/ j = 4 \/ j = 5
        OBVIOUS
      <4> QED
        BY <4>1, Orders
    <3>2. \A j \in 1..5 : /\ Creates[j] \in work.tables <=> j <= k - 6
                          /\ Creates[j] \in work.filled <=> j <= k - 11
      <4>1. k >= 6
        BY <1>k, <1>5
      <4> QED
        BY <1>s, <4>1 DEF SeedStage
    <3>3. \A j \in 1..5 : /\ j <= (k + 1) - 6 <=> j <= k - 6 \/ j = i
                          /\ ~(j <= k - 11) /\ ~(j <= (k + 1) - 11)
      BY <1>5
    <3>4. \A j \in 1..5 : /\ Creates[j] \in db.tables <=> j <= (k + 1) - 6
                          /\ Creates[j] \in db.filled <=> j <= (k + 1) - 11
      <4>1. db.tables = work.tables \cup {Creates[i]}
        BY <2>4
      <4>2. db.filled = work.filled
        BY <2>4
      <4> QED
        <5> SUFFICES ASSUME NEW j \in 1..5
                     PROVE  /\ Creates[j] \in db.tables <=> j <= (k + 1) - 6
                            /\ Creates[j] \in db.filled <=> j <= (k + 1) - 11
          OBVIOUS
        <5>1. Creates[j] \in {Creates[i]} <=> j = i
          BY <3>1
        <5> QED
          BY <3>2, <3>3, <4>1, <4>2, <5>1
    <3>5. ~(k + 1 <= 6) /\ "schema" \in db.settled
      BY <1>s, <1>5, <2>4 DEF SeedStage
    <3> QED
      BY <1>k, <3>4, <3>5 DEF SeedStage
  <2>6. RoleOK(db)
    BY <1>1, <1>c, <2>4 DEF RoleOK, Covered, readable
  <2> QED
    BY <1>1, <1>c, <2>4, <2>5, <2>6
<1>6. ASSUME NEW i \in 1..5, k = 10 + i
      PROVE  /\ db \in Database /\ SeedStage(db, k + 1)
             /\ RoleOK(db) /\ db.tables \ Seeded = base.tables \ Seeded
             /\ db.settled \subseteq base.settled \cup {"schema"}
  <2>1. Head(rest) = [op |-> "insert", on |-> Creates[i]]
    <3>1. k + 1 = 11 + i
      BY <1>6
    <3> QED
      BY <1>1, <3>1, SeedLines
  <2>2. db = [work EXCEPT !.filled = work.filled \cup {Creates[i]}]
    BY <2>1, Statements
  <2>3. /\ db \in Database /\ db.tables = work.tables
        /\ db.filled = work.filled \cup {Creates[i]}
        /\ db.readable = work.readable /\ db.settled = work.settled
    BY <1>1, <1>c, <2>2 DEF Database, Tables
  <2>4. SeedStage(db, k + 1)
    <3>1. \A j \in 1..5 : Creates[j] = Creates[i] => j = i
      <4>1. \A j \in 1..5 : j = 1 \/ j = 2 \/ j = 3 \/ j = 4 \/ j = 5
        OBVIOUS
      <4> QED
        BY <4>1, Orders
    <3>2. \A j \in 1..5 : /\ Creates[j] \in work.tables <=> j <= k - 6
                          /\ Creates[j] \in work.filled <=> j <= k - 11
      <4>1. k >= 6
        BY <1>k, <1>6
      <4> QED
        BY <1>s, <4>1 DEF SeedStage
    <3>3. \A j \in 1..5 : /\ j <= (k + 1) - 11 <=> j <= k - 11 \/ j = i
                          /\ j <= k - 6 /\ j <= (k + 1) - 6
      BY <1>6
    <3>4. \A j \in 1..5 : /\ Creates[j] \in db.tables <=> j <= (k + 1) - 6
                          /\ Creates[j] \in db.filled <=> j <= (k + 1) - 11
      <4>1. db.tables = work.tables
        BY <2>3
      <4>2. db.filled = work.filled \cup {Creates[i]}
        BY <2>3
      <4> QED
        <5> SUFFICES ASSUME NEW j \in 1..5
                     PROVE  /\ Creates[j] \in db.tables <=> j <= (k + 1) - 6
                            /\ Creates[j] \in db.filled <=> j <= (k + 1) - 11
          OBVIOUS
        <5>1. Creates[j] \in {Creates[i]} <=> j = i
          BY <3>1
        <5> QED
          BY <3>2, <3>3, <4>1, <4>2, <5>1
    <3>5. ~(k + 1 <= 6) /\ "schema" \in db.settled
      BY <1>s, <1>6, <2>3 DEF SeedStage
    <3> QED
      BY <1>k, <3>4, <3>5 DEF SeedStage
  <2> QED
    BY <1>1, <2>3, <2>4 DEF RoleOK
<1> QED
  BY <1>2, <1>3, <1>4, <1>5, <1>6 DEF k

(* A step of _ensure_readonly_role is always possible, and brings the      *)
(* database to the next stage.                                             *)
LEMMA GrantLineApplied ==
  ASSUME DataInv, GrantInv, pc = "granting", rest # <<>>,
         NEW db, db = Apply(work, Head(rest))
  PROVE  /\ Accepts(work, Head(rest))
         /\ db \in Database /\ GrantStage(db, Done(RoleScript) + 1)
         /\ "role" \in base.settled => "role" \in db.settled /\ RoleOK(db)
<1> DEFINE k == Done(RoleScript)
           s == Head(rest)
<1>1. /\ On(RoleScript) /\ GrantStage(work, k)
      /\ "role" \in base.settled => "role" \in work.settled /\ RoleOK(work)
  BY DEF GrantInv
<1>2. k \in 0..(7 - 1) /\ s = RoleScript[k + 1]
  BY <1>1, RoleLines, NextLine
<1>3. work \in Database
  BY DEF DataInv
<1> SUFFICES /\ Accepts(work, s) /\ db \in Database /\ GrantStage(db, k + 1)
             /\ "role" \in base.settled => "role" \in db.settled /\ RoleOK(db)
  OBVIOUS
<1> HIDE DEF k
<1>4. k \in 0..6 /\ (k = 0 \/ k = 1 \/ k = 2 \/ k = 3 \/ k = 4 \/ k = 5 \/ k = 6)
  BY <1>2
<1>g. /\ "schema" \in work.settled /\ Seeded \subseteq work.tables \cap work.filled
      /\ "role" \in work.settled <=> k >= 1
  BY <1>1 DEF GrantStage
<1>5. CASE k = 3
  <2>1. s = [op |-> "select"]
    BY <1>2, <1>5, RoleLines
  <2>2. db = [work EXCEPT !.readable = work.tables]
    BY <2>1, Grants
  <2>3. /\ db \in Database /\ db.tables = work.tables /\ db.filled = work.filled
        /\ db.readable = work.tables /\ db.settled = work.settled
    BY <1>3, <2>2 DEF Database
  <2>4. GrantStage(db, k + 1)
    BY <1>1, <1>5, <2>3 DEF GrantStage
  <2>5. "role" \in base.settled => "role" \in db.settled /\ RoleOK(db)
    BY <1>1, <2>3 DEF RoleOK
  <2>6. Accepts(work, s)
    BY <1>5, <1>g, <2>1 DEF Accepts
  <2> QED
    BY <2>3, <2>4, <2>5, <2>6
<1>6. ASSUME NEW x \in Settings \ {"select"}, s = [op |-> x]
      PROVE  /\ db \in Database /\ db.tables = work.tables /\ db.filled = work.filled
             /\ db.readable = work.readable /\ db.settled = work.settled \cup {x}
             /\ "role" \in base.settled => "role" \in db.settled /\ RoleOK(db)
             /\ x # "schema" /\ (x = "role" <=> k = 0) => Accepts(work, s)
  <2>1. db = [work EXCEPT !.settled = @ \cup {x}]
    BY <1>6, Grants
  <2>2. /\ db \in Database /\ db.tables = work.tables /\ db.filled = work.filled
        /\ db.readable = work.readable /\ db.settled = work.settled \cup {x}
    BY <1>3, <1>6, <2>1 DEF Database
  <2>3. "role" \in base.settled => "role" \in db.settled /\ RoleOK(db)
    BY <1>1, <2>2 DEF RoleOK
  <2>4. ASSUME x # "schema", x = "role" <=> k = 0 PROVE Accepts(work, s)
    <3>1. CASE x = "role"
      <4>1. ~(k >= 1)
        BY <2>4, <3>1
      <4> QED
        BY <1>6, <1>g, <3>1, <4>1 DEF Accepts
    <3>2. CASE x # "role"
      <4>1. k >= 1
        BY <1>4, <2>4, <3>2
      <4> QED
        BY <1>6, <1>g, <2>4, <3>2, <4>1 DEF Accepts, Settings
    <3> QED
      BY <3>1, <3>2
  <2> QED
    BY <2>2, <2>3, <2>4
<1>7. CASE k # 3
  <2>1. PICK x \in Settings \ {"select"} :
          /\ s = [op |-> x] /\ x # "schema" /\ (x = "role" <=> k = 0)
          /\ k = 1 => x = "connect"
          /\ k = 2 => x = "usage"
          /\ k = 4 => x = "defaults"
          /\ k = 5 => x = "read_only"
          /\ k = 6 => x = "revoke"
    <3>1. CASE k = 0
      BY <1>2, <3>1, RoleLines DEF Settings
    <3>2. CASE k = 1
      BY <1>2, <3>2, RoleLines DEF Settings
    <3>3. CASE k = 2
      BY <1>2, <3>3, RoleLines DEF Settings
    <3>4. CASE k = 4
      BY <1>2, <3>4, RoleLines DEF Settings
    <3>5. CASE k = 5
      BY <1>2, <3>5, RoleLines DEF Settings
    <3>6. CASE k = 6
      BY <1>2, <3>6, RoleLines DEF Settings
    <3> QED
      BY <1>4, <1>7, <3>1, <3>2, <3>3, <3>4, <3>5, <3>6
  <2>2. /\ Accepts(work, s) /\ db \in Database
        /\ db.tables = work.tables /\ db.filled = work.filled
        /\ db.readable = work.readable /\ db.settled = work.settled \cup {x}
        /\ "role" \in base.settled => "role" \in db.settled /\ RoleOK(db)
    BY <1>6, <2>1
  <2>3. GrantStage(db, k + 1)
    <3>1. "role" \in db.settled
      BY <1>4, <1>g, <2>1, <2>2
    <3>2. /\ k + 1 >= 2 => k >= 1
          /\ k + 1 >= 2 => k >= 2 \/ k = 1
          /\ k + 1 >= 3 => k >= 3 \/ k = 2
          /\ k + 1 >= 4 => k >= 4
          /\ k + 1 >= 5 => k >= 5 \/ k = 4
          /\ k + 1 >= 6 => k >= 6 \/ k = 5
          /\ k + 1 >= 7 => k >= 7 \/ k = 6
          /\ k + 1 >= 1
      BY <1>4, <1>7
    <3> QED
      BY <1>1, <2>1, <2>2, <3>1, <3>2 DEF GrantStage
  <2> QED
    BY <2>2, <2>3
<1> QED
  BY <1>5, <1>7

-------------------------------------------------------------------------------
LEMMA SeedingInvInitially == Init => SeedingInv
<1> SUFFICES ASSUME Init PROVE SeedingInv
  OBVIOUS
<1>1. /\ pc = "idle" /\ work = Fresh /\ base = Fresh /\ missed = {}
      /\ Fresh.tables = {} /\ Fresh.settled = {} /\ Fresh \in Database
  BY DEF Init, Fresh, Database
<1> QED
  BY <1>1 DEF SeedingInv, DataInv, BaseInv, SeedInv, GrantInv, SeedOK, RoleOK,
     InTransaction

LEMMA ExecuteKeepsInv ==
  ASSUME SeedingInv, Execute
  PROVE  SeedingInv'
<1>1. /\ InTransaction /\ rest # <<>> /\ rest' = Tail(rest)
      /\ work' = Apply(work, Head(rest)) /\ UNCHANGED <<pc, base, missed>>
  BY DEF Execute, Visible
<1>2. DataInv /\ BaseInv /\ SeedInv /\ GrantInv
  BY DEF SeedingInv
<1>3. BaseInv'
  BY <1>1, <1>2 DEF BaseInv, SeedOK, RoleOK, Delivered, InTransaction
<1>4. CASE pc = "seeding"
  <2>1. /\ work' \in Database /\ SeedStage(work', Done(SeedScript) + 1)
        /\ RoleOK(work') /\ work'.tables \ Seeded = base.tables \ Seeded
        /\ work'.settled \subseteq base.settled \cup {"schema"}
    BY <1>1, <1>2, <1>4, SeedLineApplied
  <2>2. On(SeedScript)' /\ Done(SeedScript)' = Done(SeedScript) + 1
    <3>1. On(SeedScript)
      BY <1>2, <1>4 DEF SeedInv
    <3> QED
      BY <1>1, <3>1, SeedLines, NextLine
  <2>3. DataInv'
    BY <1>1, <1>2, <2>1 DEF DataInv
  <2>4. RoleOK(work)' /\ SeedStage(work, Done(SeedScript))'
    BY <1>1, <2>1, <2>2 DEF RoleOK, SeedStage
  <2>5. SeedInv'
    BY <1>1, <2>1, <2>2, <2>4 DEF SeedInv
  <2>6. GrantInv'
    BY <1>1, <1>4 DEF GrantInv
  <2> QED
    BY <1>3, <2>3, <2>5, <2>6 DEF SeedingInv
<1>5. CASE pc = "granting"
  <2>1. /\ work' \in Database /\ GrantStage(work', Done(RoleScript) + 1)
        /\ "role" \in base.settled => "role" \in work'.settled /\ RoleOK(work')
    BY <1>1, <1>2, <1>5, GrantLineApplied
  <2>2. On(RoleScript)' /\ Done(RoleScript)' = Done(RoleScript) + 1
    <3>1. On(RoleScript)
      BY <1>2, <1>5 DEF GrantInv
    <3> QED
      BY <1>1, <3>1, RoleLines, NextLine
  <2>3. DataInv'
    BY <1>1, <1>2, <2>1 DEF DataInv
  <2>4. GrantStage(work, Done(RoleScript))'
    BY <1>1, <2>1, <2>2 DEF GrantStage
  <2>5. GrantInv'
    BY <1>1, <2>1, <2>2, <2>4 DEF GrantInv, RoleOK
  <2>6. SeedInv'
    BY <1>1, <1>5 DEF SeedInv
  <2> QED
    BY <1>3, <2>3, <2>5, <2>6 DEF SeedingInv
<1> QED
  BY <1>1, <1>4, <1>5 DEF InTransaction

LEMMA CommitSeedKeepsInv ==
  ASSUME SeedingInv, CommitSeed
  PROVE  SeedingInv' /\ Seeded \subseteq base'.tables \cap base'.filled
<1>1. /\ pc = "seeding" /\ rest = <<>> /\ base' = work
      /\ pc' = "failed" \/ pc' = "granting"
      /\ pc' = "granting" =>
           rest' = (IF "role" \in work.settled THEN RoleGrants ELSE RoleScript)
      /\ UNCHANGED <<work, missed>>
  BY DEF CommitSeed, RoleScript
<1>2. DataInv /\ BaseInv /\ SeedInv
  BY DEF SeedingInv
<1>3. SeedStage(work, 16) /\ RoleOK(work)
  <2>1. Done(SeedScript) = 16
    BY <1>1, SeedLines DEF Done
  <2> QED
    BY <1>1, <1>2, <2>1 DEF SeedInv
<1>4. "schema" \in work.settled /\ Seeded \subseteq work.tables \cap work.filled
  <2>1. \A i \in 1..5 : Creates[i] \in work.tables /\ Creates[i] \in work.filled
    BY <1>3 DEF SeedStage
  <2>2. \A t \in Names : \E i \in 1..5 : t = Creates[i]
    BY Orders DEF Names
  <2>3. "schema" \in work.settled
    BY <1>3 DEF SeedStage
  <2> QED
    BY <2>1, <2>2, <2>3, SeededNames
<1>5. DataInv'
  BY <1>1, <1>2 DEF DataInv
<1>6. BaseInv'
  BY <1>1, <1>3, <1>4 DEF BaseInv, SeedOK, RoleOK
<1>7. SeedInv'
  BY <1>1 DEF SeedInv
<1>8. GrantInv'
  <2> SUFFICES ASSUME pc' = "granting" PROVE GrantInv'
    BY DEF GrantInv
  <2>1. CASE "role" \in work.settled
    <3>1. rest' = RoleGrants /\ Len(rest') = 6 /\ rest' \in Seq(Statement)
      BY <1>1, <2>1, RoleLines
    <3>2. Done(RoleScript)' = 1
      BY <3>1, RoleLines DEF Done
    <3>3. On(RoleScript)'
      BY <3>1, <3>2, RoleLines DEF On
    <3>4. GrantStage(work, 1)
      BY <1>4, <2>1 DEF GrantStage
    <3>5. GrantStage(work, Done(RoleScript))'
      BY <1>1, <3>2, <3>4 DEF GrantStage
    <3> QED
      BY <1>1, <1>3, <2>1, <3>3, <3>5 DEF GrantInv, RoleOK
  <2>2. CASE "role" \notin work.settled
    <3>1. rest' = RoleScript /\ Len(rest') = 7 /\ rest' \in Seq(Statement)
      BY <1>1, <2>2, RoleLines
    <3>2. Done(RoleScript)' = 0
      BY <3>1, RoleLines DEF Done
    <3>3. On(RoleScript)'
      BY <3>1, <3>2, RoleLines DEF On
    <3>4. GrantStage(work, 0)
      BY <1>4, <2>2 DEF GrantStage
    <3>5. GrantStage(work, Done(RoleScript))'
      BY <1>1, <3>2, <3>4 DEF GrantStage
    <3> QED
      BY <1>1, <2>2, <3>3, <3>5 DEF GrantInv
  <2> QED
    BY <2>1, <2>2
<1> QED
  BY <1>1, <1>4, <1>5, <1>6, <1>7, <1>8 DEF SeedingInv

LEMMA CommitRoleKeepsInv ==
  ASSUME SeedingInv, CommitRole
  PROVE  SeedingInv' /\ Delivered(base)'
<1>1. /\ pc = "granting" /\ rest = <<>> /\ base' = work /\ pc' = "done"
      /\ missed' = missed \ work.readable /\ UNCHANGED <<rest, work>>
  BY DEF CommitRole
<1>2. DataInv /\ GrantInv
  BY DEF SeedingInv
<1>3. GrantStage(work, 7)
  <2>1. Done(RoleScript) = 7
    BY <1>1, RoleLines DEF Done
  <2> QED
    BY <1>1, <1>2, <2>1 DEF GrantInv
<1>4. /\ Rights \cup {"defaults"} \subseteq work.settled
      /\ work.tables \ (Foreign \cup missed) \subseteq work.readable
      /\ Seeded \subseteq work.tables \cap work.filled
  BY <1>3 DEF GrantStage, Rights
<1>5. Seeded \cap (Foreign \cup missed) = {}
  BY <1>2, ExtraAssumption DEF DataInv
<1>6. Delivered(base)'
  BY <1>1, <1>4, <1>5 DEF Delivered
<1>7. DataInv'
  BY <1>1, <1>2 DEF DataInv
<1>8. BaseInv'
  BY <1>1, <1>4, <1>6 DEF BaseInv, SeedOK, RoleOK, InTransaction
<1>9. SeedInv' /\ GrantInv'
  BY <1>1 DEF SeedInv, GrantInv
<1> QED
  BY <1>6, <1>7, <1>8, <1>9 DEF SeedingInv

LEMMA StopKeepsInv ==
  ASSUME SeedingInv, Start \/ Raise \/ Interrupted
  PROVE  SeedingInv'
<1>2. DataInv /\ BaseInv
  BY DEF SeedingInv
<1>3. CASE Start
  <2>1. /\ ~InTransaction /\ pc' = "seeding" /\ rest' = SeedScript
        /\ UNCHANGED <<work, base, missed>>
    BY <1>3 DEF Start
  <2>2. work = base
    BY <1>2, <2>1 DEF BaseInv
  <2>3. Done(SeedScript)' = 0 /\ On(SeedScript)'
    BY <2>1, SeedLines DEF Done, On
  <2>4. SeedStage(work, 0)
    BY DEF SeedStage
  <2>5. SeedStage(work, Done(SeedScript))'
    BY <2>1, <2>3, <2>4 DEF SeedStage
  <2>6. SeedInv'
    BY <1>2, <2>1, <2>2, <2>3, <2>5 DEF SeedInv, BaseInv, RoleOK
  <2>7. DataInv' /\ GrantInv'
    BY <1>2, <2>1 DEF DataInv, GrantInv
  <2>8. BaseInv'
    BY <1>2, <2>1 DEF BaseInv, SeedOK, RoleOK, InTransaction
  <2> QED
    BY <2>6, <2>7, <2>8 DEF SeedingInv
<1>4. CASE Raise \/ Interrupted
  <2>1. /\ work' = base /\ pc' \in {"failed", "idle"} /\ UNCHANGED <<base, missed>>
    BY <1>4 DEF Raise, Interrupted, RollBack
  <2>2. DataInv' /\ SeedInv' /\ GrantInv'
    BY <1>2, <2>1 DEF DataInv, SeedInv, GrantInv
  <2>3. BaseInv'
    BY <1>2, <2>1 DEF BaseInv, SeedOK, RoleOK
  <2> QED
    BY <2>2, <2>3 DEF SeedingInv
<1> QED
  BY <1>3, <1>4

(* Other sessions: a table more is covered by the default privileges or    *)
(* noted as missed.                                                        *)
LEMMA AddTableKeepsInv ==
  ASSUME SeedingInv, NEW x \in Extras, AddTable(x)
  PROVE  SeedingInv' /\ base.tables \subseteq base'.tables
<1> DEFINE c == Covered(base, x)
<1>1. /\ base' = Created(base, x, c) /\ work' = Created(work, x, c)
      /\ missed' = IF pc = "granting" /\ ~c THEN missed \cup {x} ELSE missed
      /\ UNCHANGED <<pc, rest>>
  BY DEF AddTable
<1>2. DataInv /\ BaseInv /\ SeedInv /\ GrantInv
  BY DEF SeedingInv
<1>3. x \notin Seeded /\ x \in Tables
  BY ExtraAssumption DEF Tables
<1>c. c => x \notin Foreign /\ "defaults" \in base.settled
  BY DEF Covered
<1>d. ~c => x \in Foreign \/ "defaults" \notin base.settled
  BY DEF Covered
<1> HIDE DEF c
<1>4. ASSUME NEW db \in Database
      PROVE  LET new == Created(db, x, c)
             IN  /\ new \in Database /\ new.tables = db.tables \cup {x}
                 /\ new.filled = db.filled /\ new.settled = db.settled
                 /\ new.readable = IF c THEN db.readable \cup {x} ELSE db.readable
  <2> DEFINE readable == IF c THEN db.readable \cup {x} ELSE db.readable
  <2>1. readable \subseteq Tables
    BY <1>3 DEF Database
  <2>2. Created(db, x, c) = [db EXCEPT !.tables = db.tables \cup {x}, !.readable = readable]
    BY DEF Created
  <2> HIDE DEF readable
  <2>3. LET new == Created(db, x, c)
        IN  /\ new \in Database /\ new.tables = db.tables \cup {x}
            /\ new.filled = db.filled /\ new.settled = db.settled
            /\ new.readable = readable
    BY <1>3, <2>1, <2>2 DEF Database
  <2> QED
    BY <2>3 DEF readable
<1>5. /\ base' \in Database /\ base'.tables = base.tables \cup {x}
      /\ base'.filled = base.filled /\ base'.settled = base.settled
      /\ base'.readable = IF c THEN base.readable \cup {x} ELSE base.readable
  BY <1>1, <1>2, <1>4 DEF DataInv
<1>6. /\ work' \in Database /\ work'.tables = work.tables \cup {x}
      /\ work'.filled = work.filled /\ work'.settled = work.settled
      /\ work'.readable = IF c THEN work.readable \cup {x} ELSE work.readable
  BY <1>1, <1>2, <1>4 DEF DataInv
<1>7. /\ missed \subseteq missed' /\ missed' \subseteq missed \cup {x}
      /\ pc = "granting" => c \/ x \in missed'
  BY <1>1
<1>8. "role" \in base.settled => c \/ x \in Foreign
  BY <1>2, <1>d DEF BaseInv, RoleOK
<1>9. DataInv'
  BY <1>1, <1>2, <1>5, <1>6, <1>7 DEF DataInv
<1>10. BaseInv'
  <2>1. SeedOK(base)'
    BY <1>2, <1>3, <1>5 DEF BaseInv, SeedOK
  <2>2. RoleOK(base)'
    BY <1>2, <1>5, <1>7, <1>8 DEF BaseInv, RoleOK
  <2>3. pc' = "done" => Delivered(base)'
    BY <1>1, <1>2, <1>5 DEF BaseInv, Delivered
  <2>4. ~InTransaction' => work' = base'
    BY <1>1, <1>2 DEF BaseInv, InTransaction
  <2> QED
    BY <2>1, <2>2, <2>3, <2>4 DEF BaseInv
<1>11. SeedInv'
  <2> SUFFICES ASSUME pc = "seeding" PROVE SeedInv'
    BY <1>1 DEF SeedInv
  <2>1. /\ On(SeedScript) /\ SeedStage(work, Done(SeedScript)) /\ RoleOK(work)
        /\ work.tables \ Seeded = base.tables \ Seeded
        /\ work.settled \subseteq base.settled \cup {"schema"}
    BY <1>2 DEF SeedInv
  <2>2. On(SeedScript)' /\ Done(SeedScript)' = Done(SeedScript)
    BY <1>1, <2>1 DEF On, Done
  <2>3. SeedStage(work, Done(SeedScript))'
    <3>1. \A i \in 1..5 : Drops[i] # x /\ Creates[i] # x
      <4>1. \A i \in 1..5 : Drops[i] \in Names /\ Creates[i] \in Names
        <5>1. \A i \in 1..5 : i = 1 \/ i = 2 \/ i = 3 \/ i = 4 \/ i = 5
          OBVIOUS
        <5> QED
          BY <5>1, Orders DEF Names
      <4> QED
        BY <1>3, <4>1, SeededNames
    <3>2. \A i \in 1..5 : /\ Drops[i] \in work'.tables <=> Drops[i] \in work.tables
                          /\ Creates[i] \in work'.tables <=> Creates[i] \in work.tables
      BY <1>6, <3>1
    <3>3. work'.filled = work.filled /\ work'.settled = work.settled
      BY <1>6
    <3> DEFINE k == Done(SeedScript)
    <3>4. SeedStage(work, k) /\ k' = k
      BY <2>1, <2>2
    <3> HIDE DEF k
    <3>5. SeedStage(work', k)
      BY <3>2, <3>3, <3>4 DEF SeedStage
    <3>6. SeedStage(work, k)'
      BY <3>4, <3>5 DEF SeedStage
    <3> QED
      BY <3>6 DEF k
  <2>4. RoleOK(work)'
    <3>1. "role" \in work.settled => "role" \in base.settled
      BY <2>1
    <3> QED
      BY <1>6, <1>7, <1>8, <2>1, <3>1 DEF RoleOK
  <2>5. /\ work'.tables \ Seeded = base'.tables \ Seeded
        /\ work'.settled \subseteq base'.settled \cup {"schema"}
    BY <1>5, <1>6, <2>1
  <2> QED
    BY <2>2, <2>3, <2>4, <2>5 DEF SeedInv
<1>12. GrantInv'
  <2> SUFFICES ASSUME pc = "granting" PROVE GrantInv'
    BY <1>1 DEF GrantInv
  <2>1. /\ On(RoleScript) /\ GrantStage(work, Done(RoleScript))
        /\ "role" \in base.settled => "role" \in work.settled /\ RoleOK(work)
    BY <1>2 DEF GrantInv
  <2>2. On(RoleScript)' /\ Done(RoleScript)' = Done(RoleScript)
    BY <1>1, <2>1 DEF On, Done
  <2>3. GrantStage(work, Done(RoleScript))'
    BY <1>6, <1>7, <2>1, <2>2 DEF GrantStage
  <2>4. "role" \in base'.settled => "role" \in work'.settled /\ RoleOK(work)'
    BY <1>5, <1>6, <1>7, <1>8, <2>1 DEF RoleOK
  <2> QED
    BY <2>2, <2>3, <2>4 DEF GrantInv
<1> QED
  BY <1>5, <1>9, <1>10, <1>11, <1>12 DEF SeedingInv

LEMMA RemoveTableKeepsInv ==
  ASSUME SeedingInv, NEW x \in Extras, RemoveTable(x)
  PROVE  SeedingInv'
<1>1. /\ base' = Dropped(base, x) /\ work' = Dropped(work, x)
      /\ missed' = missed \ {x} /\ UNCHANGED <<pc, rest>>
  BY DEF RemoveTable
<1>2. DataInv /\ BaseInv /\ SeedInv /\ GrantInv
  BY DEF SeedingInv
<1>3. x \notin Seeded
  BY ExtraAssumption
<1>4. ASSUME NEW db \in Database
      PROVE  LET new == Dropped(db, x)
             IN  /\ new \in Database /\ new.tables = db.tables \ {x}
                 /\ new.filled = db.filled \ {x} /\ new.settled = db.settled
                 /\ new.readable = db.readable \ {x}
  BY DEF Database, Dropped
<1>5. /\ base' \in Database /\ base'.tables = base.tables \ {x}
      /\ base'.filled = base.filled \ {x} /\ base'.settled = base.settled
      /\ base'.readable = base.readable \ {x}
  BY <1>1, <1>2, <1>4 DEF DataInv
<1>6. /\ work' \in Database /\ work'.tables = work.tables \ {x}
      /\ work'.filled = work.filled \ {x} /\ work'.settled = work.settled
      /\ work'.readable = work.readable \ {x}
  BY <1>1, <1>2, <1>4 DEF DataInv
<1>9. DataInv'
  BY <1>1, <1>2, <1>5, <1>6 DEF DataInv
<1>10. BaseInv'
  <2>1. SeedOK(base)'
    BY <1>2, <1>3, <1>5 DEF BaseInv, SeedOK
  <2>2. RoleOK(base)'
    BY <1>1, <1>2, <1>5 DEF BaseInv, RoleOK
  <2>3. pc' = "done" => Delivered(base)'
    BY <1>1, <1>2, <1>3, <1>5 DEF BaseInv, Delivered
  <2>4. ~InTransaction' => work' = base'
    BY <1>1, <1>2 DEF BaseInv, InTransaction
  <2> QED
    BY <2>1, <2>2, <2>3, <2>4 DEF BaseInv
<1>11. SeedInv'
  <2> SUFFICES ASSUME pc = "seeding" PROVE SeedInv'
    BY <1>1 DEF SeedInv
  <2>1. /\ On(SeedScript) /\ SeedStage(work, Done(SeedScript)) /\ RoleOK(work)
        /\ work.tables \ Seeded = base.tables \ Seeded
        /\ work.settled \subseteq base.settled \cup {"schema"}
    BY <1>2 DEF SeedInv
  <2>2. On(SeedScript)' /\ Done(SeedScript)' = Done(SeedScript)
    BY <1>1, <2>1 DEF On, Done
  <2>3. SeedStage(work, Done(SeedScript))'
    <3>1. \A i \in 1..5 : Drops[i] # x /\ Creates[i] # x
      <4>1. \A i \in 1..5 : Drops[i] \in Names /\ Creates[i] \in Names
        <5>1. \A i \in 1..5 : i = 1 \/ i = 2 \/ i = 3 \/ i = 4 \/ i = 5
          OBVIOUS
        <5> QED
          BY <5>1, Orders DEF Names
      <4> QED
        BY <1>3, <4>1, SeededNames
    <3>2. \A i \in 1..5 : /\ Drops[i] \in work'.tables <=> Drops[i] \in work.tables
                          /\ Creates[i] \in work'.tables <=> Creates[i] \in work.tables
                          /\ Drops[i] \in work'.filled <=> Drops[i] \in work.filled
                          /\ Creates[i] \in work'.filled <=> Creates[i] \in work.filled
      BY <1>6, <3>1
    <3>3. work'.settled = work.settled
      BY <1>6
    <3> DEFINE k == Done(SeedScript)
    <3>4. SeedStage(work, k) /\ k' = k
      BY <2>1, <2>2
    <3> HIDE DEF k
    <3>5. SeedStage(work', k)
      BY <3>2, <3>3, <3>4 DEF SeedStage
    <3>6. SeedStage(work, k)'
      BY <3>4, <3>5 DEF SeedStage
    <3> QED
      BY <3>6 DEF k
  <2>4. RoleOK(work)'
    BY <1>1, <1>6, <2>1 DEF RoleOK
  <2>5. /\ work'.tables \ Seeded = base'.tables \ Seeded
        /\ work'.settled \subseteq base'.settled \cup {"schema"}
    BY <1>5, <1>6, <2>1
  <2> QED
    BY <2>2, <2>3, <2>4, <2>5 DEF SeedInv
<1>12. GrantInv'
  <2> SUFFICES ASSUME pc = "granting" PROVE GrantInv'
    BY <1>1 DEF GrantInv
  <2>1. /\ On(RoleScript) /\ GrantStage(work, Done(RoleScript))
        /\ "role" \in base.settled => "role" \in work.settled /\ RoleOK(work)
    BY <1>2 DEF GrantInv
  <2>2. On(RoleScript)' /\ Done(RoleScript)' = Done(RoleScript)
    BY <1>1, <2>1 DEF On, Done
  <2>3. GrantStage(work, Done(RoleScript))'
    BY <1>1, <1>3, <1>6, <2>1, <2>2 DEF GrantStage
  <2>4. "role" \in base'.settled => "role" \in work'.settled /\ RoleOK(work)'
    BY <1>1, <1>5, <1>6, <2>1 DEF RoleOK
  <2> QED
    BY <2>2, <2>3, <2>4 DEF GrantInv
<1> QED
  BY <1>9, <1>10, <1>11, <1>12 DEF SeedingInv

LEMMA SeedingInvInductive == SeedingInv /\ [Next]_vars => SeedingInv'
<1> SUFFICES ASSUME SeedingInv, [Next]_vars PROVE SeedingInv'
  OBVIOUS
<1>1. CASE Script
  BY <1>1, ExecuteKeepsInv, CommitSeedKeepsInv, CommitRoleKeepsInv, StopKeepsInv DEF Script
<1>2. CASE \E x \in Extras : AddTable(x) \/ RemoveTable(x)
  BY <1>2, AddTableKeepsInv, RemoveTableKeepsInv
<1>3. CASE UNCHANGED vars
  BY <1>3 DEF vars, SeedingInv, DataInv, BaseInv, SeedInv, GrantInv, SeedOK, RoleOK,
     Delivered, SeedStage, GrantStage, On, Done, InTransaction
<1> QED
  BY <1>1, <1>2, <1>3 DEF Next

LEMMA SeedingInvHolds == Spec => []SeedingInv
  BY SeedingInvInitially, SeedingInvInductive, PTL DEF Spec

(* Nobody ever sees a half-seeded database, whenever the script is         *)
(* interrupted or fails.                                                   *)
THEOREM SeedsAreWhole == Spec => []SeedIsWhole
<1>1. SeedingInv => SeedIsWhole
  BY DEF SeedingInv, BaseInv, SeedOK, SeedIsWhole
<1> QED
  BY <1>1, SeedingInvHolds, PTL

(* The role exists only with all its rights, and can read each table of    *)
(* the script's user from then on.                                         *)
THEOREM RolesAreWhole == Spec => []RoleIsWhole
<1>1. SeedingInv => RoleIsWhole
  BY DEF SeedingInv, BaseInv, RoleOK, RoleIsWhole
<1> QED
  BY <1>1, SeedingInvHolds, PTL

(* Whatever an earlier run left behind, a run fails only over somebody     *)
(* else's foreign key to products, or over the name of the role with the   *)
(* tables already replaced; and one that gets through delivers.            *)
THEOREM RerunsAreSafe == Spec => RerunsWork
<1> DEFINE Excused == \/ base.tables \cap Linked # {}
                      \/ ~validRole /\ Seeded \subseteq base'.tables \cap base'.filled
<1>1. SeedingInv /\ [Next]_vars =>
        /\ pc' = "failed" /\ pc # "failed" => Excused
        /\ pc' = "done" => /\ Seeded \subseteq base'.filled \cap base'.readable
                           /\ Rights \subseteq base'.settled
  <2> SUFFICES ASSUME SeedingInv, [Next]_vars
               PROVE  /\ pc' = "failed" /\ pc # "failed" => Excused
                      /\ pc' = "done" => Delivered(base')
    BY DEF Delivered
  <2>1. pc' = "done" => Delivered(base)'
    BY SeedingInvInductive DEF SeedingInv, BaseInv
  <2>2. ASSUME pc' = "failed", pc # "failed" PROVE Excused
    <3>1. Raise \/ CommitSeed
      BY <2>2 DEF Next, Script, Start, Execute, CommitRole, Interrupted,
         RollBack, AddTable, RemoveTable, vars
    <3>2. CASE Raise
      <4>1. /\ pc = "seeding" \/ pc = "granting"
            /\ rest # <<>> /\ ~Accepts(work, Head(rest))
        BY <3>2 DEF Raise, InTransaction
      <4> QED
        BY <4>1, SeedLineAccepted, GrantLineApplied DEF SeedingInv
    <3>3. CASE CommitSeed
      <4>1. ~validRole
        BY <2>2, <3>3 DEF CommitSeed
      <4> QED
        BY <3>3, <4>1, CommitSeedKeepsInv
    <3> QED
      BY <3>1, <3>2, <3>3
  <2> QED
    BY <2>1, <2>2 DEF Delivered
<1> QED
  BY <1>1, SeedingInvHolds, PTL DEF Spec, RerunsWork
===============================================================================
