-------------------------------- MODULE Seeding --------------------------------
(***************************************************************************)
(* Seeding the database: run_init and _ensure_readonly_role of             *)
(* scripts/init_db.py with the statements of scripts/init_db.sql.          *)
(*                                                                         *)
(* The script runs them in two transactions, one after the other, and may  *)
(* be interrupted between any two statements and run again at any time.    *)
(* PostgreSQL is the environment: a transaction works on a copy that       *)
(* becomes the database when it commits, and a statement that is not       *)
(* possible raises, which rolls its transaction back and ends the script.  *)
(* Meanwhile other sessions add tables to the schema and remove them.      *)
(***************************************************************************)
EXTENDS Sequences, SequencesExt

CONSTANTS
  Extras,    \* tables of the schema that init_db.sql knows nothing of
  Linked,    \* the ones with a foreign key to products
  Foreign    \* the ones not created by the user who runs the script

VARIABLES
  pc,      \* "idle", "seeding", "granting", "done", "failed"
  rest,    \* statements of the open transaction still to be executed
  work,    \* the database as the open transaction sees it
  base,    \* the database as everybody else sees it
  validRole,   \* MCP_DB_USER of this run can be the name of a role
  missed   \* tables added while the role was being granted its rights

vars == <<pc, rest, work, base, validRole, missed>>

\* Mutants are named <definition>_<fault>; nothing uses them.
Creates == <<"suppliers", "products", "prices", "warehouses", "inventory">>
Drops_ParentsFirst == Creates
Drops   == <<"inventory", "prices", "warehouses", "products", "suppliers">>
Seeded  == ToSet(Creates)

ASSUME ExtraAssumption ==
  Linked \subseteq Extras /\ Foreign \subseteq Extras /\ Extras \cap Seeded = {}

References(t) == CASE t = "products"  -> {"suppliers"}
                   [] t = "prices"    -> {"products"}
                   [] t = "inventory" -> {"products", "warehouses"}
                   [] t \in Linked    -> {"products"}
                   [] OTHER           -> {}

Each(op, tables) == [i \in DOMAIN tables |-> [op |-> op, on |-> tables[i]]]

(* init_db.sql, statement by statement (_split_statements).                *)
SeedScript == <<[op |-> "schema"]>> \o Each("drop", Drops)
              \o Each("create", Creates) \o Each("insert", Creates)

RoleGrants_NoDefaults ==
  <<[op |-> "connect"], [op |-> "usage"], [op |-> "select"],
    [op |-> "read_only"], [op |-> "revoke"]>>

(* What _ensure_readonly_role grants and sets, the role itself aside.      *)
RoleGrants ==
  <<[op |-> "connect"], [op |-> "usage"], [op |-> "select"],
    [op |-> "defaults"], [op |-> "read_only"], [op |-> "revoke"]>>

Rights == {"role", "connect", "usage", "read_only", "revoke"}

(* A database: its tables, those with their rows in, those the role may    *)
(* read, and what else has been said about schema and role.                *)
Fresh == [tables |-> {}, filled |-> {}, readable |-> {}, settled |-> {}]

-------------------------------------------------------------------------------
(* PostgreSQL: what a statement needs, and what it does.                   *)
Accepts(db, s) ==
  CASE s.op = "drop"   -> \A t \in db.tables \ {s.on} : s.on \notin References(t)
    [] s.op = "create" -> s.on \notin db.tables /\ References(s.on) \subseteq db.tables
    [] s.op = "insert" -> /\ s.on \in db.tables \ db.filled
                          /\ References(s.on) \subseteq db.filled
    [] s.op = "schema" -> TRUE
    [] s.op = "role"   -> "role" \notin db.settled
    [] OTHER           -> {"role", "schema"} \subseteq db.settled

(* Default privileges reach the tables their grantor creates from then on. *)
Covered(db, t) == "defaults" \in db.settled /\ t \notin Foreign

Created(db, t, covered) ==
  [db EXCEPT !.tables = @ \cup {t},
             !.readable = IF covered THEN @ \cup {t} ELSE @]

Dropped(db, t) ==
  [db EXCEPT !.tables = @ \ {t}, !.filled = @ \ {t}, !.readable = @ \ {t}]

Apply(db, s) ==
  CASE s.op = "drop"   -> Dropped(db, s.on)
    [] s.op = "create" -> Created(db, s.on, Covered(db, s.on))
    [] s.op = "insert" -> [db EXCEPT !.filled = @ \cup {s.on}]
    [] s.op = "select" -> [db EXCEPT !.readable = db.tables]
    [] OTHER           -> [db EXCEPT !.settled = @ \cup {s.op}]

-------------------------------------------------------------------------------
Init == pc = "idle" /\ rest = <<>> /\ work = Fresh /\ base = Fresh
        /\ validRole \in BOOLEAN /\ missed = {}

InTransaction == pc \in {"seeding", "granting"}

Start ==
  /\ ~InTransaction
  /\ pc' = "seeding" /\ rest' = SeedScript /\ validRole' \in BOOLEAN
  /\ UNCHANGED <<work, base, missed>>

Visible_Autocommit == work'
Visible == base

Execute ==
  /\ InTransaction /\ rest # <<>> /\ Accepts(work, Head(rest))
  /\ work' = Apply(work, Head(rest)) /\ rest' = Tail(rest)
  /\ base' = Visible
  /\ UNCHANGED <<pc, validRole, missed>>

(* The first commit.  Only then the name of the role is looked at, and if  *)
(* it is none that raises; otherwise the second transaction looks whether  *)
(* the role exists.                                                        *)
CommitSeed ==
  /\ pc = "seeding" /\ rest = <<>>
  /\ base' = work
  /\ \/ ~validRole /\ pc' = "failed" /\ rest' = <<>>
     \/ /\ validRole /\ pc' = "granting"
        /\ rest' = IF "role" \in work.settled THEN RoleGrants
                                              ELSE <<[op |-> "role"]>> \o RoleGrants
  /\ UNCHANGED <<work, validRole, missed>>

CommitRole ==
  /\ pc = "granting" /\ rest = <<>>
  /\ base' = work
  /\ pc' = "done"
  /\ missed' = missed \ work.readable
  /\ UNCHANGED <<rest, work, validRole>>

RollBack(to) ==
  /\ work' = base /\ rest' = <<>> /\ pc' = to
  /\ UNCHANGED <<base, validRole, missed>>

Raise ==
  /\ InTransaction /\ rest # <<>> /\ ~Accepts(work, Head(rest))
  /\ RollBack("failed")

(* The script is killed, the connection is lost, the server goes down.     *)
Interrupted == InTransaction /\ RollBack("idle")

(* Other sessions, which see nothing of an open transaction.  A foreign    *)
(* key needs its table, and from the table's DROP on it waits for the lock *)
(* that the seeding transaction holds until its end.                       *)
Unlocked(x) ==
  x \in Linked =>
    /\ "products" \in base.tables
    /\ pc = "seeding" => [op |-> "drop", on |-> "products"] \in ToSet(rest)

AddTable(x) ==
  /\ x \notin base.tables /\ "schema" \in base.settled /\ Unlocked(x)
  /\ base' = Created(base, x, Covered(base, x))
  /\ work' = Created(work, x, Covered(base, x))
  /\ missed' = IF pc = "granting" /\ ~Covered(base, x) THEN missed \cup {x} ELSE missed
  /\ UNCHANGED <<pc, rest, validRole>>

RemoveTable(x) ==
  /\ x \in base.tables /\ Unlocked(x)
  /\ base' = Dropped(base, x) /\ work' = Dropped(work, x)
  /\ missed' = missed \ {x}
  /\ UNCHANGED <<pc, rest, validRole>>

Script == Start \/ Execute \/ CommitSeed \/ CommitRole \/ Raise \/ Interrupted

Next == Script \/ \E x \in Extras : AddTable(x) \/ RemoveTable(x)

Spec == Init /\ [][Next]_vars

-------------------------------------------------------------------------------
(* Nobody ever sees a half-seeded database: of the five tables all are     *)
(* there with their rows or none is, while the script replaces them and    *)
(* wherever it was interrupted.                                            *)
SeedIsWhole ==
  \/ base.tables \cap Seeded = {}
  \/ Seeded \subseteq base.tables \cap base.filled

(* "Idempotent": the role exists only with everything it needs and nothing *)
(* but reading, and from then on it can read each table of the script's    *)
(* user at any time, also the ones a later run has replaced and not yet    *)
(* granted anew.  (Only a table added while the role gets its rights for   *)
(* the first time may miss both the grant and the default privileges.)     *)
RoleIsWhole ==
  "role" \in base.settled =>
    /\ Rights \subseteq base.settled
    /\ base.tables \ (Foreign \cup missed) \subseteq base.readable

(* "Re-running is safe": whatever an earlier run left, a run fails only    *)
(* over somebody else's foreign key, or over the name of the role when the *)
(* tables are already there with their rows; and one that gets through     *)
(* delivers tables, rows and role.                                         *)
RerunsWork ==
  [][/\ pc' = "failed" /\ pc # "failed" =>
          \/ base.tables \cap Linked # {}
          \/ ~validRole /\ Seeded \subseteq base'.tables \cap base'.filled
     /\ pc' = "done" => /\ Seeded \subseteq base'.filled \cap base'.readable
                        /\ Rights \subseteq base'.settled]_vars

-------------------------------------------------------------------------------
(* "New tables are covered automatically via ALTER DEFAULT PRIVILEGES".    *)
NewTablesAreCovered ==
  "defaults" \in base.settled => base.tables \subseteq base.readable
===============================================================================
