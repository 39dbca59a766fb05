------------------------------ MODULE ToolReplies -----------------------------
(***************************************************************************)
(* From the text of a tool's reply to what the model gets to see: the rows *)
(* found in it (_parse_rows and MCPCallResult, app/mcp_client.py), the     *)
(* result of the call (ToolBelt.execute, app/agent/tools.py) and the       *)
(* observation made of it (_render_observation, app/agent/agent.py).       *)
(*                                                                         *)
(* A reply is a sequence of content blocks, whose texts are joined by line *)
(* breaks.  A text is what _loads makes of it: nothing, a list, an object, *)
(* another value, or, if it cannot be read as a whole, one item per line.  *)
(* Items are rows (objects) or anything else; a line that cannot be read   *)
(* is one of the latter.                                                   *)
(***************************************************************************)
EXTENDS Naturals, Filter

CONSTANTS
  Rows,       \* objects
  Others,     \* numbers, strings, None, blank lines
  NoObject,   \* one of them: a line that is a list, or cannot be read
  Scalar,     \* a field of an object that is not a list
  MaxItems,   \* bound: items of a list, lines of a text
  MaxBlocks   \* bound: blocks of a reply

ASSUME ReplyAssumption ==
  /\ Rows \cap Others = {} /\ NoObject \in Others
  /\ MaxItems \in Nat \ {0} /\ MaxBlocks \in Nat \ {0}

VARIABLES
  blocks,       \* the content blocks of the reply that have a text
  result,       \* the ToolResult made of it
  observation,  \* what was last put into the conversation
  pc            \* "call", "observe", "again", "done"

vars == <<blocks, result, observation, pc>>

Keys  == <<"rows", "results", "data">>
Items == BoundedSeq(Rows \cup Others, MaxItems)

Empty   == [form |-> "empty"]
Blank   == [form |-> "blank"]     \* white space only
Plain   == [form |-> "value"]
Message == [form |-> "message"]   \* a text of the harness's own
Lists   == [form : {"list"}, items : Items]
Objects == [form : {"object"}, row : Rows,
            fields : UNION {[K -> Items \cup {Scalar}] : K \in SUBSET Range(Keys)}]
(* A single line that holds a row would have been read as a whole.         *)
Lines   == {t \in [form : {"lines"}, items : Items] :
              t.items # <<>> /\ (Len(t.items) = 1 => t.items[1] \in Others)}

Texts == {Empty, Blank, Plain} \cup Lists \cup Objects \cup Lines

(* One block holds any text; of several, each is a line of its own that is *)
(* not blank, where an object is a row whatever its fields.                *)
Bare == {t \in Objects : t.fields = <<>>}
SeveralBlocks ==
  {bs \in BoundedSeq({Plain} \cup Lists \cup Bare, MaxBlocks) : Len(bs) > 1}
Blocks == {<<>>} \cup {<<t>> : t \in Texts \ {Empty}} \cup SeveralBlocks

Line(block) == IF block.form = "object" THEN block.row ELSE NoObject

(* Two values in one text cannot be read as a whole.                       *)
Joined(bs) ==
  IF bs = <<>> THEN Empty
  ELSE IF Len(bs) = 1 THEN bs[1]
  ELSE [form |-> "lines", items |-> [i \in DOMAIN bs |-> Line(bs[i])]]

text == Joined(blocks)

IsRow(item)   == item \in Rows
Stripped(t)   == IF t = Blank THEN Empty ELSE t

RowLists(t) == {k \in DOMAIN Keys : /\ Keys[k] \in DOMAIN t.fields
                                    /\ t.fields[Keys[k]] # Scalar}

\* Mutants are named <definition>_<fault>; no action uses them.
ParseLines_SkipsUnread(items) == Among(Rows, items)

(* One object per line, or no rows at all.                                 *)
ParseLines(items) ==
  IF \A i \in DOMAIN items : IsRow(items[i]) THEN items ELSE <<>>

(* The first of the known fields that is a list, else the object itself.   *)
ParseObject(t) ==
  IF RowLists(t) = {} THEN <<t.row>>
                      ELSE Among(Rows, t.fields[Keys[Min(RowLists(t))]])

ParseRows(t) ==
  CASE t.form = "list"   -> Among(Rows, t.items)
    [] t.form = "object" -> ParseObject(t)
    [] t.form = "lines"  -> ParseLines(t.items)
    [] OTHER             -> <<>>

Count_RowsOnly(rows, t) == Len(rows)

(* MCPCallResult.count: a text without rows counts as one record.          *)
Count(rows, t) == IF rows # <<>> THEN Len(rows)
                  ELSE IF Stripped(t) = Empty THEN 0 ELSE 1

-------------------------------------------------------------------------------
(* An error without a text gets a default one; white space is a text here. *)
Failed(t) == [success |-> FALSE, rows |-> <<>>, text |-> Empty, count |-> 0,
              error |-> IF t = Empty THEN Message ELSE t]

Succeeded_TextDropped(t) ==
  [success |-> TRUE, rows |-> ParseRows(t), text |-> Empty,
   error |-> Empty, count |-> Count(ParseRows(t), t)]

(* Either the rows or, for want of rows, the text is handed on.            *)
Succeeded(t) == LET rows == ParseRows(t) IN
  [success |-> TRUE, rows |-> rows, error |-> Empty, count |-> Count(rows, t),
   text |-> IF rows # <<>> THEN Empty ELSE Stripped(t)]

NoObservation == [rows |-> <<>>, text |-> Empty, error |-> Empty, note |-> "none"]

(* _render_observation: a failure is its error alone; the note on a        *)
(* repetition displaces the one on 0 rows.                                 *)
Render(r, repeated) ==
  IF ~r.success THEN [NoObservation EXCEPT !.error = r.error]
  ELSE [rows |-> r.rows, text |-> r.text, error |-> Empty,
        note |-> IF repeated THEN "repeated"
                 ELSE IF r.count = 0 THEN "zero" ELSE "none"]

Init ==
  /\ blocks \in Blocks
  /\ result = Failed(text) /\ observation = NoObservation /\ pc = "call"

(* The call is refused or gets no reply (the error is a message of the     *)
(* harness), or the server reports an error, or it answers.                *)
Execute ==
  /\ pc = "call" /\ pc' = "observe"
  /\ result' \in {Failed(Empty), Failed(text), Succeeded(text)}
  /\ UNCHANGED <<blocks, observation>>

Observe ==
  /\ pc = "observe" /\ pc' = "again"
  /\ observation' = Render(result, FALSE)
  /\ UNCHANGED <<blocks, result>>

(* The model asks for the same call again.                                 *)
ObserveAgain ==
  /\ pc = "again" /\ pc' = "done"
  /\ observation' = Render(result, TRUE)
  /\ UNCHANGED <<blocks, result>>

Next == Execute \/ Observe \/ ObserveAgain

Spec == Init /\ [][Next]_vars

-------------------------------------------------------------------------------
Observed == pc \in {"again", "done"}

(* No block of a reply gets lost on the way to the model: it sees the     *)
(* whole text, or rows to which every block contributed all that it held.  *)
(* (Of an object with lists in several fields one list stands for all.)    *)
Contributes(rows, block) ==
  CASE block.form = "lines"  -> ToSet(block.items) \subseteq rows
    [] block.form = "list"   -> ToSet(block.items) \cap Rows \subseteq rows
    [] block.form = "object" ->
         \/ block.row \in rows
         \/ \E key \in DOMAIN block.fields :
              /\ block.fields[key] # Scalar
              /\ ToSet(block.fields[key]) \cap Rows \subseteq rows
    [] OTHER -> FALSE

NoBlockIsLost ==
  Observed /\ result.success =>
    \/ observation.text = Stripped(text)
    \/ \A i \in DOMAIN blocks : Contributes(ToSet(observation.rows), blocks[i])

(* The model is never left without anything: each observation holds rows,  *)
(* a text, an error or a note, whatever the server said.  (An error whose  *)
(* text is white space is passed on as it is.)                             *)
NeverSilent ==
  Observed => \/ observation.rows # <<>>
              \/ observation.text # Empty \/ observation.error # Empty
              \/ observation.note # "none"

(* "0 rows" is said only of a successful reply that holds no record:       *)
(* nothing at all, white space, or a list with nothing in it.  A failure,  *)
(* or a reply in words (a message, a list of names), is never called that. *)
HoldsNothing ==
  \/ text \in {Empty, Blank}
  \/ text.form = "list" /\ text.items = <<>>
  \/ text.form = "object" /\ \E key \in DOMAIN text.fields : text.fields[key] = <<>>

NoFalseZero ==
  Observed /\ observation.note = "zero" =>
    result.success /\ HoldsNothing /\ observation.rows = <<>>

-------------------------------------------------------------------------------
(* The note "0 rows. Other interpretations of the identifier may still     *)
(* match": a query whose result is the empty list gets it.                 *)
EmptyResultIsNoted ==
  pc = "again" /\ result.success /\ text.form = "list" /\ text.items = <<>> =>
    observation.note = "zero"
===============================================================================
