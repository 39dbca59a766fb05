--------------------------- MODULE ToolRepliesProofs ---------------------------
(***************************************************************************)
(* Theorems about ToolReplies for any rows and other items, and for lists  *)
(* and texts of every length.                                              *)
(***************************************************************************)
EXTENDS ToolReplies, SequenceLemmas

(* The items of a list or of a text are a sequence.                        *)
LEMMA ItemsAreSequences == Items \subseteq Seq(Rows \cup Others)
  BY ReplyAssumption DEF Items, BoundedSeq, SeqOf

(* The text of a reply of any number of blocks.                            *)
JoinedTexts == Texts \cup [form : {"lines"}, items : Seq(Rows \cup Others)]

LEMMA JoinedText == ASSUME NEW bs \in Blocks PROVE Joined(bs) \in JoinedTexts
<1>1. CASE bs = <<>>
  BY <1>1 DEF Joined, JoinedTexts, Texts
<1>2. CASE bs \in {<<t>> : t \in Texts \ {Empty}}
  BY <1>2 DEF Joined, JoinedTexts
<1>3. CASE bs \in SeveralBlocks
  <2>1. Len(bs) > 1 /\ bs \in Seq({Plain} \cup Lists \cup Bare)
    BY <1>3, ReplyAssumption DEF SeveralBlocks, BoundedSeq, SeqOf
  <2>2. \A i \in DOMAIN bs : Line(bs[i]) \in Rows \cup Others
    <3> SUFFICES ASSUME NEW i \in DOMAIN bs, bs[i].form = "object"
                 PROVE  bs[i].row \in Rows
      BY ReplyAssumption DEF Line
    <3>1. bs[i] \in {Plain} \cup Lists \cup Bare
      BY <2>1
    <3> QED
      BY <3>1 DEF Plain, Lists, Bare, Objects
  <2>3. Joined(bs) = [form |-> "lines", items |-> [i \in DOMAIN bs |-> Line(bs[i])]]
    BY <2>1 DEF Joined
  <2>4. [i \in DOMAIN bs |-> Line(bs[i])] \in Seq(Rows \cup Others)
    BY <2>1, <2>2
  <2> QED
    BY <2>3, <2>4 DEF JoinedTexts
<1> QED
  BY <1>1, <1>2, <1>3 DEF Blocks

(* Whatever is found in a text is a sequence of rows.                      *)
LEMMA ParsedRows == ASSUME NEW t \in JoinedTexts PROVE ParseRows(t) \in Seq(Rows)
<1>1. CASE t \in Lists
  <2>1. t.form = "list" /\ t.items \in Seq(Rows \cup Others)
    BY <1>1, ItemsAreSequences DEF Lists
  <2>2. ParseRows(t) = Among(Rows, t.items)
    BY <2>1 DEF ParseRows
  <2> QED
    BY <2>1, <2>2, AmongIsSequence
<1>2. CASE t \in Objects
  <2>1. /\ t.form = "object" /\ t.row \in Rows
        /\ \A k \in DOMAIN t.fields : t.fields[k] \in Items \cup {Scalar}
    BY <1>2 DEF Objects
  <2>2. ParseRows(t) = ParseObject(t)
    BY <2>1 DEF ParseRows
  <2>3. CASE RowLists(t) = {}
    BY <2>1, <2>2, <2>3 DEF ParseObject
  <2>4. CASE RowLists(t) # {}
    <3> DEFINE first == Min(RowLists(t))
               list  == t.fields[Keys[first]]
    <3>1. RowLists(t) \subseteq 0..3
      BY DEF RowLists, Keys
    <3>2. first \in RowLists(t)
      BY <2>4, <3>1, FirstPosition
    <3>3. list \in Items
      BY <2>1, <3>2 DEF RowLists
    <3>4. ParseRows(t) = Among(Rows, list)
      BY <2>2, <2>4 DEF ParseObject
    <3> HIDE DEF list
    <3>5. list \in Seq(Rows \cup Others)
      BY <3>3, ItemsAreSequences
    <3> QED
      BY <3>4, <3>5, AmongIsSequence
  <2> QED
    BY <2>3, <2>4
<1>3. CASE t \in Lines \cup [form : {"lines"}, items : Seq(Rows \cup Others)]
  <2>1. t.form = "lines" /\ t.items \in Seq(Rows \cup Others)
    BY <1>3, ItemsAreSequences DEF Lines
  <2>2. ParseRows(t) = ParseLines(t.items)
    BY <2>1 DEF ParseRows
  <2> QED
    BY <2>1, <2>2 DEF ParseLines, IsRow
<1>4. CASE t \in {Empty, Blank, Plain}
  <2>1. t.form \notin {"list", "object", "lines"}
    BY <1>4 DEF Empty, Blank, Plain
  <2>2. ParseRows(t) = <<>>
    BY <2>1 DEF ParseRows
  <2> QED
    BY <2>2
<1> QED
  BY <1>1, <1>2, <1>3, <1>4 DEF Texts, JoinedTexts

(* A count of zero means that nothing was said.                            *)
LEMMA ZeroMeansNothing ==
  ASSUME NEW t \in JoinedTexts, Count(ParseRows(t), t) = 0
  PROVE  ParseRows(t) = <<>> /\ Stripped(t) = Empty /\ t \in {Empty, Blank}
<1> DEFINE rows == ParseRows(t)
<1>1. rows \in Seq(Rows)
  BY ParsedRows
<1> HIDE DEF rows
<1>2. rows # <<>> => Len(rows) # 0
  BY <1>1
<1>3. rows = <<>> /\ Stripped(t) = Empty
  BY <1>2 DEF Count, rows
<1> QED
  BY <1>3 DEF Stripped, rows

-------------------------------------------------------------------------------
(* The stages of a call: a result is one of three kinds, an observation is *)
(* made of the result.                                                     *)
StageInv ==
  /\ blocks \in Blocks /\ pc \in {"call", "observe", "again", "done"}
  /\ pc # "call"  => result \in {Failed(Empty), Failed(text), Succeeded(text)}
  /\ pc = "again" => observation = Render(result, FALSE)
  /\ pc = "done"  => observation = Render(result, TRUE)

THEOREM StageInvariant == Spec => []StageInv
<1>1. Init => StageInv
  BY DEF Init, StageInv
<1>2. StageInv /\ [Next]_vars => StageInv'
  BY DEF StageInv, Next, vars, Execute, Observe, ObserveAgain, text
<1> QED
  BY <1>1, <1>2, PTL DEF Spec

LEMMA FormsDiffer == Message # Empty
<1>1. Message.form # Empty.form
  BY DEF Message, Empty
<1> QED
  BY <1>1

(* What is observed of a successful call.                                  *)
LEMMA ObservedSuccess ==
  ASSUME StageInv, Observed, result.success
  PROVE  /\ result = Succeeded(text)
         /\ observation.rows = ParseRows(text)
         /\ observation.text = IF ParseRows(text) # <<>> THEN Empty ELSE Stripped(text)
<1>1. result = Succeeded(text)
  BY DEF StageInv, Observed, Failed
<1>2. observation = Render(result, FALSE) \/ observation = Render(result, TRUE)
  BY DEF StageInv, Observed
<1>3. observation.rows = result.rows /\ observation.text = result.text
  BY <1>2 DEF Render
<1> QED
  BY <1>1, <1>3 DEF Succeeded

(* The rows found in one block hold all that the block holds.              *)
LEMMA BlockContributes ==
  ASSUME NEW t \in Texts, ParseRows(t) # <<>>
  PROVE  Contributes(ToSet(ParseRows(t)), t)
<1>1. CASE t \in Lists
  <2>1. t.form = "list" /\ t.items \in Seq(Rows \cup Others)
    BY <1>1, ItemsAreSequences DEF Lists
  <2>2. ParseRows(t) = Among(Rows, t.items)
    BY <2>1 DEF ParseRows
  <2>3. ToSet(t.items) \cap Rows \subseteq ToSet(ParseRows(t))
    BY <2>1, <2>2, AmongKeeps
  <2> QED
    BY <2>1, <2>3 DEF Contributes
<1>2. CASE t \in Objects
  <2>1. /\ t.form = "object" /\ t.row \in Rows
        /\ \A k \in DOMAIN t.fields : t.fields[k] \in Items \cup {Scalar}
    BY <1>2 DEF Objects
  <2>2. ParseRows(t) = ParseObject(t)
    BY <2>1 DEF ParseRows
  <2>3. CASE RowLists(t) = {}
    <3>1. ParseRows(t) = <<t.row>>
      BY <2>2, <2>3 DEF ParseObject
    <3>2. t.row \in ToSet(ParseRows(t))
      BY <3>1 DEF ToSet
    <3> QED
      BY <2>1, <3>2 DEF Contributes
  <2>4. CASE RowLists(t) # {}
    <3> DEFINE first == Min(RowLists(t))
               list  == t.fields[Keys[first]]
    <3>1. RowLists(t) \subseteq 0..3
      BY DEF RowLists, Keys
    <3>2. first \in RowLists(t)
      BY <2>4, <3>1, FirstPosition
    <3>3. list \in Items /\ list # Scalar /\ Keys[first] \in DOMAIN t.fields
      BY <2>1, <3>2 DEF RowLists
    <3>4. ParseRows(t) = Among(Rows, list)
      BY <2>2, <2>4 DEF ParseObject
    <3>5. list \in Seq(Rows \cup Others)
      BY <3>3, ItemsAreSequences
    <3>6. ToSet(list) \cap Rows \subseteq ToSet(ParseRows(t))
      <4> HIDE DEF list
      <4> QED
        BY <3>4, <3>5, AmongKeeps
    <3>7. \E key \in DOMAIN t.fields :
            /\ t.fields[key] # Scalar
            /\ ToSet(t.fields[key]) \cap Rows \subseteq ToSet(ParseRows(t))
      <4> HIDE DEF first
      <4> QED
        BY <3>3, <3>6
    <3> QED
      BY <2>1, <3>7 DEF Contributes
  <2> QED
    BY <2>3, <2>4
<1>3. CASE t \in Lines
  <2>1. t.form = "lines"
    BY <1>3 DEF Lines
  <2>2. ParseRows(t) = t.items
    BY <2>1 DEF ParseRows, ParseLines
  <2> QED
    BY <2>1, <2>2 DEF Contributes
<1>4. CASE t \in {Empty, Blank, Plain}
  <2>1. t.form \notin {"list", "object", "lines"}
    BY <1>4 DEF Empty, Blank, Plain
  <2> QED
    BY <2>1 DEF ParseRows
<1> QED
  BY <1>1, <1>2, <1>3, <1>4 DEF Texts

(* Of several blocks every one is a row, if there are rows at all.         *)
LEMMA BlocksContribute ==
  ASSUME NEW bs \in SeveralBlocks, ParseRows(Joined(bs)) # <<>>,
         NEW i \in DOMAIN bs
  PROVE  Contributes(ToSet(ParseRows(Joined(bs))), bs[i])
<1> DEFINE items == [k \in DOMAIN bs |-> Line(bs[k])]
<1>1. Len(bs) > 1 /\ bs \in Seq({Plain} \cup Lists \cup Bare)
  BY ReplyAssumption DEF SeveralBlocks, BoundedSeq, SeqOf
<1>2. Joined(bs) = [form |-> "lines", items |-> items]
  BY <1>1 DEF Joined
<1>3. ParseRows(Joined(bs)) = ParseLines(items)
  BY <1>2 DEF ParseRows
<1>4. ParseRows(Joined(bs)) = items /\ \A k \in DOMAIN items : items[k] \in Rows
  BY <1>3 DEF ParseLines, IsRow
<1>5. Line(bs[i]) \in Rows /\ items[i] = Line(bs[i]) /\ i \in DOMAIN items
  BY <1>4
<1>6. bs[i].form = "object" /\ bs[i].row = Line(bs[i])
  BY <1>5, ReplyAssumption DEF Line
<1>7. bs[i].row \in ToSet(ParseRows(Joined(bs)))
  BY <1>4, <1>5, <1>6 DEF ToSet
<1> QED
  BY <1>6, <1>7 DEF Contributes

(* However many blocks a reply has, and whatever each is, none gets lost:  *)
(* the model reads the whole text, or rows that hold all of every block.   *)
THEOREM BlocksArrive == Spec => []NoBlockIsLost
<1>1. StageInv => NoBlockIsLost
  <2> SUFFICES ASSUME StageInv, Observed, result.success,
                      observation.text # Stripped(text), NEW i \in DOMAIN blocks
               PROVE  Contributes(ToSet(observation.rows), blocks[i])
    BY DEF NoBlockIsLost
  <2>1. observation.rows = ParseRows(Joined(blocks)) /\ ParseRows(Joined(blocks)) # <<>>
    BY ObservedSuccess DEF text
  <2>2. CASE blocks \in SeveralBlocks
    BY <2>1, <2>2, BlocksContribute
  <2>3. ASSUME NEW t \in Texts, blocks = <<t>>
        PROVE  Contributes(ToSet(observation.rows), blocks[i])
    <3>1. Joined(blocks) = t /\ blocks[i] = t
      BY <2>3 DEF Joined
    <3> QED
      BY <2>1, <3>1, BlockContributes
  <2> QED
    BY <2>2, <2>3 DEF StageInv, Blocks
<1> QED
  BY <1>1, StageInvariant, PTL

(* Whatever the server answers, the model is given something to read.      *)
THEOREM ModelAlwaysReads == Spec => []NeverSilent
<1>1. StageInv => NeverSilent
  <2> SUFFICES ASSUME StageInv, Observed
               PROVE  \/ observation.rows # <<>>
                      \/ observation.text # Empty \/ observation.error # Empty
                      \/ observation.note # "none"
    BY DEF NeverSilent
  <2>1. PICK repeated \in BOOLEAN :
          /\ observation = Render(result, repeated)
          /\ result \in {Failed(Empty), Failed(text), Succeeded(text)}
    BY DEF StageInv, Observed
  <2>2. CASE result \in {Failed(Empty), Failed(text)}
    <3>1. ~result.success /\ result.error # Empty
      BY <2>2, FormsDiffer DEF Failed
    <3>2. observation.error = result.error
      BY <2>1, <3>1 DEF Render, NoObservation
    <3> QED
      BY <3>1, <3>2
  <2>3. CASE result = Succeeded(text)
    <3>1. /\ result.success /\ result.rows = ParseRows(text)
          /\ result.count = Count(ParseRows(text), text)
          /\ result.rows = <<>> => result.text = Stripped(text)
      BY <2>3 DEF Succeeded
    <3>2. /\ observation.rows = result.rows /\ observation.text = result.text
          /\ observation.note = IF repeated THEN "repeated"
                                ELSE IF result.count = 0 THEN "zero" ELSE "none"
      BY <2>1, <3>1 DEF Render
    <3>3. result.rows = <<>> /\ result.text = Empty => result.count = 0
      BY <3>1 DEF Count
    <3> QED
      BY <3>2, <3>3
  <2> QED
    BY <2>1, <2>2, <2>3
<1> QED
  BY <1>1, StageInvariant, PTL

(* "0 rows" is said of nothing but a successful reply without a record.    *)
THEOREM ZeroIsTrue == Spec => []NoFalseZero
<1>1. StageInv => NoFalseZero
  <2> SUFFICES ASSUME StageInv, Observed, observation.note = "zero"
               PROVE  result.success /\ HoldsNothing /\ observation.rows = <<>>
    BY DEF NoFalseZero
  <2>1. PICK repeated \in BOOLEAN : observation = Render(result, repeated)
    BY DEF StageInv, Observed
  <2>2. result.success /\ result.count = 0
    BY <2>1 DEF Render, NoObservation
  <2>3. result = Succeeded(text) /\ observation.rows = ParseRows(text)
    BY <2>2, ObservedSuccess
  <2>4. Count(ParseRows(text), text) = 0
    BY <2>2, <2>3 DEF Succeeded
  <2>5. text \in JoinedTexts
    BY JoinedText DEF StageInv, text
  <2>6. ParseRows(text) = <<>> /\ text \in {Empty, Blank}
    BY <2>4, <2>5, ZeroMeansNothing
  <2> QED
    BY <2>2, <2>3, <2>6 DEF HoldsNothing
<1> QED
  BY <1>1, StageInvariant, PTL
===============================================================================
