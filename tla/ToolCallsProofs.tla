----------------------------- MODULE ToolCallsProofs ---------------------------
(***************************************************************************)
(* Theorems about ToolCalls for SQL texts of every length, turns with any  *)
(* number of calls, conversations of any number of turns, and any tools,   *)
(* listings and allowlists.                                                *)
(***************************************************************************)
EXTENDS ToolCalls, SequenceLemmas

-------------------------------------------------------------------------------
(* Stripping.                                                              *)

(* rstrip keeps a beginning of the text, up to the last token that stays.  *)
LEMMA RStripKeepsBeginning ==
  ASSUME NEW sql \in Seq(Tokens), NEW token
  PROVE  \E m \in 0..Len(sql) :
           /\ RStrip(sql, token) = [i \in 1..m |-> sql[i]]
           /\ m > 0 => sql[m] # token
           /\ \A i \in m + 1..Len(sql) : sql[i] = token
<1> DEFINE Kept == {i \in DOMAIN sql : sql[i] # token}
           m == Max({0} \cup Kept)
<1>1. DOMAIN sql = 1..Len(sql) /\ Len(sql) \in Nat
  OBVIOUS
<1>2. {0} \cup Kept \subseteq 0..Len(sql)
  BY <1>1
<1>3. m \in {0} \cup Kept /\ \A y \in {0} \cup Kept : m >= y
  <2> HIDE DEF Kept
  <2> QED
    BY <1>1, <1>2, LastPosition
<1>4. m \in 0..Len(sql)
  BY <1>2, <1>3
<1>5. m > 0 => sql[m] # token
  <2> SUFFICES ASSUME m > 0 PROVE m \in Kept
    OBVIOUS
  <2> HIDE DEF m, Kept
  <2> QED
    BY <1>3, <1>4
<1>6. \A i \in m + 1..Len(sql) : sql[i] = token
  <2> SUFFICES ASSUME NEW i \in m + 1..Len(sql), sql[i] # token PROVE FALSE
    OBVIOUS
  <2>1. i \in DOMAIN sql
    <3> HIDE DEF m
    <3> QED
      BY <1>1, <1>4
  <2>2. i \in Kept
    BY <2>1
  <2> HIDE DEF m, Kept
  <2> QED
    BY <2>2, <1>3, <1>4, <1>1
<1>7. RStrip(sql, token) = [i \in 1..m |-> sql[i]]
  <2>1. RStrip(sql, token) = SubSeq(sql, 1, m)
    BY DEF RStrip
  <2> HIDE DEF m
  <2> QED
    BY <2>1, <1>4, <1>1
<1> HIDE DEF m
<1> QED
  BY <1>4, <1>5, <1>6, <1>7

(* strip cuts a window out of the text: blanks only are outside, and no    *)
(* blank is at its ends.                                                   *)
LEMMA StripIsAWindow ==
  ASSUME NEW sql \in Seq(Tokens)
  PROVE  \E o \in Nat, n \in Nat :
           /\ o + n <= Len(sql)
           /\ Strip(sql) = [i \in 1..n |-> sql[o + i]]
           /\ n > 0 => sql[o + 1] # "blank" /\ sql[o + n] # "blank"
           /\ \A i \in DOMAIN sql : (i <= o \/ i > o + n) => sql[i] = "blank"
<1>1. PICK m \in 0..Len(sql) :
        /\ RStrip(sql, "blank") = [i \in 1..m |-> sql[i]]
        /\ m > 0 => sql[m] # "blank"
        /\ \A i \in m + 1..Len(sql) : sql[i] = "blank"
  BY RStripKeepsBeginning
<1> DEFINE a == [i \in 1..m |-> sql[i]]
           b == [i \in 1..m |-> sql[m - i + 1]]
<1>2. a \in Seq(Tokens) /\ Len(a) = m /\ m \in Nat
  OBVIOUS
<1>3. b = Reverse(a) /\ b \in Seq(Tokens) /\ Len(b) = m
  <2>1. \A i \in 1..m : m - i + 1 \in 1..m /\ m - i + 1 \in 1..Len(sql)
    BY <1>2
  <2>2. b = Reverse(a)
    <3>1. Reverse(a) = [i \in 1..m |-> a[m - i + 1]]
      <4> HIDE DEF a
      <4> QED
        BY <1>2 DEF Reverse
    <3> QED
      BY <3>1, <2>1
  <2>3. b \in [1..m -> Tokens]
    BY <2>1
  <2> QED
    BY <2>2, <2>3, <1>2
<1>4. PICK n \in 0..Len(b) :
        /\ RStrip(b, "blank") = [i \in 1..n |-> b[i]]
        /\ n > 0 => b[n] # "blank"
        /\ \A i \in n + 1..Len(b) : b[i] = "blank"
  <2> HIDE DEF b
  <2>1. b \in Seq(Tokens)
    BY <1>3
  <2> QED
    BY <2>1, RStripKeepsBeginning
<1> DEFINE c == [i \in 1..n |-> b[i]]
           o == m - n
<1>5. o \in Nat /\ n \in Nat /\ o + n = m
  <2>1. n \in 0..m
    <3> HIDE DEF b
    <3> QED
      BY <1>3
  <2> QED
    BY <2>1, <1>2
<1>6. Strip(sql) = [i \in 1..n |-> sql[o + i]]
  <2>1. Strip(sql) = Reverse(c)
    <3>1. Strip(sql) = Reverse(RStrip(b, "blank"))
      BY <1>1, <1>3 DEF Strip
    <3> QED
      BY <3>1, <1>4
  <2>2. Len(c) = n
    BY <1>5
  <2>3. Reverse(c) = [i \in 1..n |-> c[n - i + 1]]
    <3> HIDE DEF c
    <3> QED
      BY <2>2 DEF Reverse
  <2>4. \A i \in 1..n : /\ n - i + 1 \in 1..n /\ n - i + 1 \in 1..m
                        /\ m - (n - i + 1) + 1 = o + i
    BY <1>5, <1>2
  <2>5. \A i \in 1..n : c[n - i + 1] = sql[o + i]
    BY <2>4
  <2> QED
    BY <2>1, <2>3, <2>5
<1>7. n > 0 => sql[o + 1] # "blank" /\ sql[o + n] # "blank"
  <2> SUFFICES ASSUME n > 0 PROVE sql[o + 1] # "blank" /\ sql[o + n] # "blank"
    OBVIOUS
  <2>1. n \in 1..m /\ m - n + 1 = o + 1 /\ m > 0
    BY <1>5
  <2>2. b[n] = sql[o + 1]
    BY <2>1
  <2> QED
    BY <2>1, <2>2, <1>1, <1>4, <1>5
<1>8. \A i \in DOMAIN sql : (i <= o \/ i > o + n) => sql[i] = "blank"
  <2> SUFFICES ASSUME NEW i \in DOMAIN sql, i <= o \/ i > o + n
               PROVE  sql[i] = "blank"
    OBVIOUS
  <2>0. i \in 1..Len(sql) /\ Len(sql) \in Nat
    OBVIOUS
  <2>1. CASE i > o + n
    <3>1. i \in m + 1..Len(sql)
      BY <2>0, <2>1, <1>5, <1>2
    <3> QED
      BY <3>1, <1>1
  <2>2. CASE i <= o
    <3>1. m - i + 1 \in n + 1..m /\ m - i + 1 \in 1..m /\ m - (m - i + 1) + 1 = i
      BY <2>0, <2>2, <1>5
    <3>2. b[m - i + 1] = sql[i]
      BY <3>1
    <3>3. m - i + 1 \in n + 1..Len(b)
      <4> HIDE DEF b
      <4> QED
        BY <3>1, <1>3
    <3> QED
      BY <3>2, <3>3, <1>4
  <2> QED
    BY <2>1, <2>2
<1>9. o + n <= Len(sql)
  BY <1>5
<1> HIDE DEF o
<1> QED
  BY <1>5, <1>6, <1>7, <1>8, <1>9

-------------------------------------------------------------------------------
(* The guard, by position.                                                 *)

Window(sql, s, o, n) ==
  /\ o + n <= Len(sql)
  /\ s = [i \in 1..n |-> sql[o + i]]
  /\ n > 0 => sql[o + 1] # "blank" /\ sql[o + n] # "blank"
  /\ \A i \in DOMAIN sql : (i <= o \/ i > o + n) => sql[i] = "blank"

(* Of a stripped text, the guard looks at the semicolons up to position m, *)
(* behind which there are only semicolons.                                 *)
LooksUpTo(m, sql, s, o, n) ==
  /\ m > 0 => sql[o + m] # "semi"
  /\ \A i \in m + 1..n : sql[o + i] = "semi"
  /\ ReadOnly(s) <=> /\ sql[o + 1] = "read"
                     /\ \A i \in 1..n : sql[o + i] \notin {"write", "quoted"}
                     /\ \A i \in 1..m : sql[o + i] # "semi"

LEMMA ReadOnlyByPosition ==
  ASSUME NEW sql \in Seq(Tokens), NEW o \in Nat, NEW n \in Nat \ {0}, NEW s,
         Window(sql, s, o, n)
  PROVE  \E m \in 0..n : LooksUpTo(m, sql, s, o, n)
<1>1. \A i \in 1..n : o + i \in 1..Len(sql)
  BY DEF Window
<1>2. s \in Seq(Tokens) /\ Len(s) = n /\ DOMAIN s = 1..n
      /\ \A i \in 1..n : s[i] = sql[o + i]
  BY <1>1 DEF Window
<1>3. RStrip(s, "blank") = s
  <2>1. PICK k \in 0..Len(s) :
          /\ RStrip(s, "blank") = [i \in 1..k |-> s[i]]
          /\ k > 0 => s[k] # "blank"
          /\ \A i \in k + 1..Len(s) : s[i] = "blank"
    BY <1>2, RStripKeepsBeginning
  <2>2. s[n] # "blank"
    BY <1>2 DEF Window
  <2>3. k = n
    <3> SUFFICES ASSUME k # n PROVE FALSE
      OBVIOUS
    <3>1. n \in k + 1..Len(s)
      BY <1>2
    <3> QED
      BY <3>1, <2>1, <2>2
  <2>4. s = [i \in 1..n |-> s[i]]
    BY <1>2
  <2> QED
    BY <2>1, <2>3, <2>4
<1>4. PICK m \in 0..Len(s) :
        /\ RStrip(s, "semi") = [i \in 1..m |-> s[i]]
        /\ m > 0 => s[m] # "semi"
        /\ \A i \in m + 1..Len(s) : s[i] = "semi"
  BY <1>2, RStripKeepsBeginning
<1>5. m \in 0..n /\ m \in Nat
  BY <1>2
<1>6. (m > 0 => sql[o + m] # "semi") /\ \A i \in m + 1..n : sql[o + i] = "semi"
  <2>1. m > 0 => m \in 1..n
    BY <1>5
  <2>2. \A i \in m + 1..n : i \in 1..n
    BY <1>5
  <2> QED
    BY <2>1, <2>2, <1>2, <1>4
<1>7. "semi" \notin ToSet(RStrip(RStrip(s, "blank"), "semi")) <=> \A i \in 1..m : sql[o + i] # "semi"
  <2>1. ToSet([i \in 1..m |-> s[i]]) = {s[i] : i \in 1..m}
    BY DEF ToSet
  <2>2. \A i \in 1..m : s[i] = sql[o + i]
    BY <1>2, <1>5
  <2> QED
    BY <1>3, <1>4, <2>1, <2>2
<1>8. ToSet(s) \cap {"write", "quoted"} = {}
        <=> \A i \in 1..n : sql[o + i] \notin {"write", "quoted"}
  BY <1>2 DEF ToSet
<1>9. s[1] = sql[o + 1]
  BY <1>2
<1> QED
  BY <1>5, <1>6, <1>7, <1>8, <1>9 DEF ReadOnly, LooksUpTo

(* The part of a text that is neither blank nor semicolon, if it begins    *)
(* at the window.                                                          *)
LEMMA BodyBegins ==
  ASSUME NEW sql \in Seq(Tokens), NEW o \in Nat, NEW n \in Nat \ {0}, NEW s,
         Window(sql, s, o, n), sql[o + 1] # "semi", NEW body,
         body = {i \in DOMAIN sql : sql[i] \notin {"blank", "semi"}}
  PROVE  /\ body # {} /\ Min(body) = o + 1
         /\ Max(body) \in body /\ \A i \in body : i <= Max(body)
         /\ \A i \in body : i \in o + 1..o + n
<1>1. DOMAIN sql = 1..Len(sql) /\ Len(sql) \in Nat /\ o + 1 \in DOMAIN sql
  BY DEF Window
<1>2. o + 1 \in body /\ body \subseteq 0..Len(sql)
  BY <1>1 DEF Window
<1>3. \A i \in body : i \in o + 1..o + n
  BY <1>1 DEF Window
<1>4. Min(body) \in body /\ \A i \in body : Min(body) <= i
  BY <1>1, <1>2, FirstPosition
<1>5. Max(body) \in body /\ \A i \in body : Max(body) >= i
  BY <1>1, <1>2, LastPosition
<1>6. Min(body) = o + 1
  <2>1. Min(body) <= o + 1 /\ Min(body) >= o + 1 /\ Min(body) \in Int
    BY <1>2, <1>3, <1>4
  <2> QED
    BY <2>1
<1>7. \A i \in body : i <= Max(body)
  BY <1>2, <1>5
<1> QED
  BY <1>2, <1>3, <1>5, <1>6, <1>7

(* What the guard lets through reads, in a single statement.               *)
LEMMA PassedTextsRead ==
  ASSUME NEW sql \in Seq(Tokens), Strip(sql) = <<>> \/ ReadOnly(Strip(sql))
  PROVE  ReadsOnly(sql)
<1> DEFINE s == Strip(sql)
           body == {i \in DOMAIN sql : sql[i] \notin {"blank", "semi"}}
<1>1. PICK o \in Nat, n \in Nat : Window(sql, s, o, n)
  BY StripIsAWindow DEF Window
<1>2. DOMAIN sql = 1..Len(sql) /\ Len(sql) \in Nat
  OBVIOUS
<1>3. CASE n = 0
  <2>1. \A i \in DOMAIN sql : sql[i] = "blank"
    BY <1>1, <1>2, <1>3 DEF Window
  <2>2. body = {}
    BY <2>1
  <2> QED
    BY <2>2 DEF ReadsOnly
<1>4. CASE n # 0
  <2>0. n \in Nat \ {0}
    BY <1>4
  <2>1. s # <<>>
    <3>1. 1 \in DOMAIN s
      BY <1>1, <2>0 DEF Window
    <3> HIDE DEF s
    <3> QED
      BY <3>1
  <2>2. ReadOnly(s)
    BY <2>1
  <2> HIDE DEF s
  <2>3. PICK m \in 0..n : LooksUpTo(m, sql, s, o, n)
    BY <1>1, <2>0, ReadOnlyByPosition
  <2>4. /\ sql[o + 1] = "read"
        /\ \A i \in 1..n : sql[o + i] \notin {"write", "quoted"}
        /\ \A i \in 1..m : sql[o + i] # "semi"
    BY <2>2, <2>3 DEF LooksUpTo
  <2>5. /\ body # {} /\ Min(body) = o + 1
        /\ Max(body) \in body /\ \A i \in body : i <= Max(body)
        /\ \A i \in body : i \in o + 1..o + n
    BY <1>1, <2>0, <2>4, BodyBegins
  <2>6. Max(body) \in o + 1..o + m
    <3>1. Max(body) \in o + 1..o + n /\ sql[Max(body)] # "semi"
      BY <2>5
    <3> DEFINE top == Max(body)
    <3> HIDE DEF top
    <3>2. top \in o + 1..o + n /\ sql[top] # "semi"
      BY <3>1 DEF top
    <3>3. top - o \in 1..n /\ o + (top - o) = top
      BY <3>2
    <3>4. top - o \notin m + 1..n
      BY <2>3, <3>2, <3>3 DEF LooksUpTo
    <3>5. top \in o + 1..o + m
      BY <3>3, <3>4, <3>2
    <3> QED
      BY <3>5 DEF top
  <2>7. \A i \in Min(body)..Max(body) : sql[i] \notin {"write", "semi"}
    <3> SUFFICES ASSUME NEW i \in Min(body)..Max(body)
                 PROVE  sql[i] \notin {"write", "semi"}
      OBVIOUS
    <3> HIDE DEF body
    <3>1. i - o \in 1..m /\ i - o \in 1..n /\ o + (i - o) = i
      BY <2>5, <2>6
    <3> QED
      BY <3>1, <2>4
  <2> QED
    BY <2>4, <2>5, <2>7 DEF ReadsOnly
<1> QED
  BY <1>3, <1>4

(* What the guard refuses is not a plain read.                             *)
LEMMA PlainTextsPass ==
  ASSUME NEW sql \in Seq(Tokens), Strip(sql) # <<>>, ~ReadOnly(Strip(sql))
  PROVE  ~Plain(sql)
<1> DEFINE s == Strip(sql)
           body == {i \in DOMAIN sql : sql[i] \notin {"blank", "semi"}}
<1> SUFFICES ASSUME Plain(sql) PROVE FALSE
  OBVIOUS
<1>1. PICK o \in Nat, n \in Nat : Window(sql, s, o, n)
  BY StripIsAWindow DEF Window
<1>2. DOMAIN sql = 1..Len(sql) /\ Len(sql) \in Nat
  OBVIOUS
<1>3. n \in Nat \ {0}
  <2> SUFFICES ASSUME n = 0 PROVE s = <<>>
    OBVIOUS
  <2> HIDE DEF s
  <2>1. s = [i \in 1..0 |-> sql[o + i]]
    BY <1>1 DEF Window
  <2> QED
    BY <2>1
<1>4. ~ReadOnly(s)
  OBVIOUS
<1> HIDE DEF s
<1>5. PICK m \in 0..n : LooksUpTo(m, sql, s, o, n)
  BY <1>1, <1>3, ReadOnlyByPosition
<1>6. \A i \in 1..n : o + i \in DOMAIN sql
  BY <1>1, <1>2 DEF Window
<1>7. /\ \A i \in DOMAIN sql : sql[i] # "quoted"
      /\ \A i \in DOMAIN sql \ {1} : sql[i] = "semi" => sql[i - 1] # "blank"
      /\ sql[1] # "semi"
  <2>1. sql # <<>>
    BY <1>3, <1>6
  <2>2. \A i \in DOMAIN sql : sql[i] \in ToSet(sql)
    BY DEF ToSet
  <2> QED
    BY <2>1, <2>2 DEF Plain
<1>8. sql[o + 1] # "semi"
  <2> SUFFICES ASSUME sql[o + 1] = "semi" PROVE FALSE
    OBVIOUS
  <2>1. o + 1 \in DOMAIN sql
    BY <1>3, <1>6
  <2>2. o # 0
    BY <1>7
  <2>3. o \in DOMAIN sql /\ sql[o] = "blank"
    BY <1>1, <1>2, <2>1, <2>2 DEF Window
  <2>4. o + 1 \in DOMAIN sql \ {1} /\ (o + 1) - 1 = o
    BY <2>1, <2>2
  <2> QED
    BY <1>7, <2>3, <2>4
<1>9. /\ body # {} /\ Min(body) = o + 1
      /\ Max(body) \in body /\ \A i \in body : i <= Max(body)
      /\ \A i \in body : i \in o + 1..o + n
  BY <1>1, <1>3, <1>8, BodyBegins
<1>10. /\ sql[Min(body)] = "read"
       /\ \A i \in Min(body)..Max(body) : sql[i] \notin {"write", "semi"}
  BY <1>9 DEF Plain, ReadsOnly
<1>11. sql[o + 1] = "read"
  BY <1>9, <1>10
<1>12. \A i \in body : sql[i] # "write"
  <2> SUFFICES ASSUME NEW i \in body PROVE i \in Min(body)..Max(body)
    BY <1>10
  <2>1. Max(body) \in Int /\ i \in Int
    BY <1>9
  <2> HIDE DEF body
  <2> QED
    BY <1>9, <2>1
<1>13. \A i \in 1..n : sql[o + i] \notin {"write", "quoted"}
  BY <1>6, <1>7, <1>12
<1>14. PICK k \in 1..m : sql[o + k] = "semi"
  BY <1>4, <1>5, <1>11, <1>13 DEF LooksUpTo
<1>15. m \in 1..n /\ k < m
  <2>1. m \in 1..n /\ k <= m /\ m > 0
    BY <1>14
  <2>2. k # m
    BY <2>1, <1>5, <1>14 DEF LooksUpTo
  <2> QED
    BY <2>1, <2>2
<1>16. CASE sql[o + m] = "blank"
  <2>1. m # n
    BY <1>1, <1>3, <1>16 DEF Window
  <2>2. m + 1 \in m + 1..n /\ m + 1 \in 1..n
    BY <1>15, <2>1
  <2>3. sql[o + (m + 1)] = "semi" /\ o + (m + 1) \in DOMAIN sql
    BY <2>2, <1>5, <1>6 DEF LooksUpTo
  <2>4. o + (m + 1) # 1 /\ (o + (m + 1)) - 1 = o + m
    BY <1>15
  <2> QED
    BY <2>3, <2>4, <1>7, <1>16
<1>17. CASE sql[o + m] # "blank"
  <2>1. sql[o + m] # "semi"
    BY <1>5, <1>15 DEF LooksUpTo
  <2>2. o + m \in body
    BY <1>6, <1>15, <1>17, <2>1
  <2>3. o + k \in Min(body)..Max(body)
    <3>1. Max(body) \in Int
      BY <1>9
    <3>2. o + m <= Max(body)
      BY <1>9, <2>2
    <3> HIDE DEF body
    <3> QED
      BY <1>9, <1>14, <1>15, <3>1, <3>2
  <2> QED
    BY <2>3, <1>10, <1>14
<1> QED
  BY <1>16, <1>17

-------------------------------------------------------------------------------
(* The SQL tool.                                                           *)

(* Among the names under which a tool takes SQL, ParamOf finds one.        *)
LEMMA ParamIsTaken ==
  ASSUME NEW t \in DOMAIN Tools, Tools[t].takes # {}
  PROVE  ParamOf(t) \in Tools[t].takes
<1> DEFINE S == {i \in DOMAIN SqlParamNames : SqlParamNames[i] \in Tools[t].takes}
<1>1. Tools[t].takes \subseteq {"sql", "query", "statement"}
  BY CallAssumption DEF SqlNames
<1>2. /\ DOMAIN SqlParamNames = 1..3
      /\ SqlParamNames[1] = "sql" /\ SqlParamNames[2] = "query"
      /\ SqlParamNames[3] = "statement"
  BY DEF SqlParamNames
<1>3. S \subseteq 0..3 /\ S # {}
  BY <1>1, <1>2
<1>4. Min(S) \in S
  <2> HIDE DEF S
  <2> QED
    BY <1>3, FirstPosition
<1> QED
  BY <1>4 DEF ParamOf

(* What _find_sql_tool promises of any listing.                            *)
LEMMA FoundToolExecutes ==
  ASSUME listing \in Listings
  PROVE  LET takers == {t \in ToSet(listing) : Tools[t].takes # {}
                                               /\ "inspect" \notin Tools[t].words}
             executors == {t \in takers : "execute" \in Tools[t].words}
         IN IF takers = {} THEN FindSqlTool = None
            ELSE /\ FindSqlTool # None
                 /\ FindSqlTool.param \in Tools[FindSqlTool.name].takes
                 /\ FindSqlTool.name \in (IF executors = {} THEN takers ELSE executors)
<1> DEFINE takers == {t \in ToSet(listing) : Tools[t].takes # {}
                                             /\ "inspect" \notin Tools[t].words}
           executors == {t \in takers : "execute" \in Tools[t].words}
           rank(i) == Rank(listing[i])
           best == {i \in Candidates : Rank(listing[i]) # 2 /\
                      \A j \in Candidates : Rank(listing[i]) <= Rank(listing[j])}
           t == listing[Min(best)]
           found == [name |-> t, param |-> ParamOf(t)]
<1>1. /\ DOMAIN listing = 1..Len(listing) /\ Len(listing) \in Nat
      /\ \A i \in DOMAIN listing : listing[i] \in DOMAIN Tools
  BY CallAssumption
<1>2. ToSet(listing) = {listing[i] : i \in DOMAIN listing}
  BY DEF ToSet
<1>3. \A i \in Candidates : i \in DOMAIN listing /\ Tools[listing[i]].takes # {}
  BY DEF Candidates
<1>4. \A i \in Candidates : Rank(listing[i]) # 2 => listing[i] \in takers
  BY <1>2, <1>3 DEF Rank
<1>5. \A x \in takers : \E i \in Candidates : listing[i] = x
  BY <1>2 DEF Candidates
<1>6. FindSqlTool = IF best = {} THEN None ELSE found
  BY DEF FindSqlTool
<1>7. CASE takers = {}
  <2>1. best = {}
    BY <1>4, <1>7
  <2> QED
    BY <1>6, <1>7, <2>1
<1>8. CASE takers # {}
  <2>1. \A x : Rank(x) \in {0, 1, 2}
    BY DEF Rank
  <2>2. \A x \in takers : Rank(x) = IF x \in executors THEN 0 ELSE 1
    BY DEF Rank
  <2>3. \A i \in Candidates : Rank(listing[i]) = 0 => listing[i] \in executors
    BY <1>4 DEF Rank
  <2>4. \A i \in Candidates : Rank(listing[i]) = 1 => listing[i] \in takers
    BY <1>4
  <2>5. PICK x \in takers : executors = {} \/ x \in executors
    BY <1>8
  <2>6. PICK i \in Candidates : listing[i] = x
    BY <1>5
  <2>7. Rank(listing[i]) # 2
        /\ \A j \in Candidates : Rank(listing[i]) <= Rank(listing[j])
    <3>0. Rank(listing[i]) = IF x \in executors THEN 0 ELSE 1
      BY <2>2, <2>6
    <3>1. CASE x \in executors
      BY <3>0, <3>1, <2>1
    <3>2. CASE executors = {}
      <4>1. Rank(listing[i]) = 1
        BY <3>0, <3>2
      <4>2. \A j \in Candidates : Rank(listing[j]) # 0
        BY <2>3, <3>2
      <4> QED
        BY <4>1, <4>2, <2>1
    <3> QED
      BY <3>1, <3>2, <2>5
  <2>8. i \in best
    BY <2>7
  <2>9. best \subseteq 0..Len(listing) /\ best # {}
    BY <1>1, <1>3, <2>8
  <2>10. Min(best) \in best
    <3> HIDE DEF best
    <3> QED
      BY <1>1, <2>9, FirstPosition
  <2>11. /\ Min(best) \in Candidates /\ Rank(t) # 2 /\ Rank(t) <= Rank(x)
    BY <2>10, <2>6
  <2>12. t \in takers
    BY <1>4, <2>11
  <2>13. executors # {} => t \in executors
    <3> SUFFICES ASSUME executors # {} PROVE t \in executors
      OBVIOUS
    <3>1. Rank(x) = 0
      BY <2>2, <2>5
    <3>2. Rank(t) = 0
      <4> HIDE DEF t
      <4> QED
        BY <3>1, <2>1, <2>11
    <3> QED
      BY <3>2, <2>3, <2>11
  <2>14. t \in DOMAIN Tools /\ Tools[t].takes # {}
    BY <1>1, <1>3, <2>11
  <2>15. ParamOf(t) \in Tools[t].takes
    <3> HIDE DEF t
    <3> QED
      BY <2>14, ParamIsTaken
  <2>16. found # None
    <3>1. ParamOf(t) \in SqlNames
      BY <2>14, <2>15, CallAssumption
    <3>2. found \in [name : DOMAIN Tools, param : SqlNames]
      BY <2>14, <3>1
    <3> QED
      BY <3>2, CallAssumption
  <2>17. FindSqlTool = found /\ found.name = t /\ found.param = ParamOf(t)
    BY <1>6, <2>9
  <2> HIDE DEF found, t, takers, executors, best
  <2>18. /\ FindSqlTool # None
         /\ FindSqlTool.param \in Tools[FindSqlTool.name].takes
         /\ FindSqlTool.name \in (IF executors = {} THEN takers ELSE executors)
    BY <2>12, <2>13, <2>15, <2>16, <2>17
  <2> QED
    BY <1>8, <2>18 DEF takers, executors
<1> QED
  BY <1>7, <1>8

-------------------------------------------------------------------------------
(* What holds of a conversation: each tool reply stands at its call's place *)
(* after the turn, as it was decided on by the belt of this query, and the *)
(* turn whose calls are being executed is the last.                        *)
Replied(p) == messages[p].role = "tool"
Turned(q)  == messages[q].role = "assistant"
Ending(q)  == q + Len(messages[q].calls)
Open       == Len(messages) - answered

ConnectInv ==
  /\ pc \in {"connect", "query", "chat", "calls", "done"}
  /\ listing \in Listings
  /\ pc # "connect" => sqlTool = FindSqlTool
  /\ pc \in {"chat", "calls", "done"} => catalog = Offered
  /\ pc \in {"connect", "query"} => messages = <<>>

MessageInv ==
  /\ messages \in Seq(ToSet(messages))
  /\ \A p \in DOMAIN messages : Replied(p) =>
       \E q \in DOMAIN messages : /\ Turned(q)
                                 /\ p - q \in DOMAIN messages[q].calls
  /\ \A q \in DOMAIN messages : Turned(q) =>
       /\ \E reply \in AnyReply : messages[q].calls = Decoded(reply)
       /\ \A j \in DOMAIN messages[q].calls : q + j \in DOMAIN messages =>
            messages[q + j] = [role |-> "tool", id |-> messages[q].calls[j].id,
                               content |-> Executed(messages[q].calls[j])]

OpenInv ==
  /\ pc = "calls" =>
       /\ answered \in Nat /\ answered < Len(turn) /\ Open \in DOMAIN messages
       /\ Turned(Open) /\ messages[Open].calls = turn
  /\ \A q \in DOMAIN messages :
       Turned(q) /\ ~(pc = "calls" /\ q = Open) => Ending(q) <= Len(messages)

(* A request is the beginning of the conversation up to the end of a turn. *)
RequestInv ==
  \E m \in 0..Len(messages) :
    /\ request = [p \in 1..m |-> Encoded(messages[p])]
    /\ \A q \in 1..m : Turned(q) => Ending(q) <= m

CallInv == ConnectInv /\ MessageInv /\ OpenInv /\ RequestInv

(* A decoded call has an id of its own, and its texts are SQL texts.       *)
LEMMA DecodedCalls ==
  ASSUME NEW reply \in AnyReply
  PROVE  LET calls == Decoded(reply) IN
           /\ DOMAIN calls = 1..Len(reply) /\ Len(calls) = Len(reply)
           /\ Len(reply) \in Nat \ {0} /\ DOMAIN reply = 1..Len(reply)
           /\ \A i \in DOMAIN calls : \A key \in DOMAIN calls[i].arguments :
                calls[i].arguments[key] # None => calls[i].arguments[key] \in Seq(Tokens)
           /\ \A i, j \in DOMAIN calls : calls[i].id = calls[j].id => i = j
<1> DEFINE calls == Decoded(reply)
<1>1. Len(reply) \in Nat \ {0} /\ DOMAIN reply = 1..Len(reply)
  BY CallAssumption
<1>2. calls = [i \in 1..Len(reply) |->
                 [id |-> CallId(reply[i], i), name |-> reply[i].name,
                  arguments |-> Parsed(reply[i])]]
  BY <1>1 DEF Decoded
<1>3. /\ DOMAIN calls = 1..Len(reply) /\ Len(calls) = Len(reply)
      /\ \A i \in 1..Len(reply) : /\ calls[i].id = CallId(reply[i], i)
                                  /\ calls[i].arguments = Parsed(reply[i])
  <2> HIDE DEF calls
  <2> QED
    BY <1>1, <1>2
<1>4. ASSUME NEW i \in 1..Len(reply), NEW key \in DOMAIN Parsed(reply[i]),
             Parsed(reply[i])[key] # None
      PROVE  Parsed(reply[i])[key] \in Seq(Tokens)
  <2>1. reply[i].form # "unreadable"
    BY <1>4 DEF Parsed
  <2>2. Parsed(reply[i]) = reply[i].arguments
    BY <2>1 DEF Parsed
  <2> QED
    BY <1>1, <1>4, <2>2, CallAssumption
<1>5. ASSUME NEW i \in 1..Len(reply), NEW j \in 1..Len(reply),
             CallId(reply[i], i) = CallId(reply[j], j)
      PROVE  i = j
  <2>1. i # j => /\ reply[i].id # None =>
                      reply[i].id # reply[j].id /\ reply[i].id # <<"call", j>>
                 /\ reply[j].id # None =>
                      reply[j].id # reply[i].id /\ reply[j].id # <<"call", i>>
    BY <1>1, CallAssumption
  <2>2. CASE reply[i].id = None /\ reply[j].id = None
    BY <1>5, <2>2 DEF CallId
  <2>3. CASE ~(reply[i].id = None /\ reply[j].id = None)
    BY <1>5, <2>1, <2>3 DEF CallId
  <2> QED
    BY <2>2, <2>3
<1> HIDE DEF calls
<1>6. \A i \in DOMAIN calls : \A key \in DOMAIN calls[i].arguments :
        calls[i].arguments[key] # None => calls[i].arguments[key] \in Seq(Tokens)
  BY <1>3, <1>4
<1>7. \A i, j \in DOMAIN calls : calls[i].id = calls[j].id => i = j
  BY <1>3, <1>5
<1> QED
  BY <1>1, <1>3, <1>6, <1>7 DEF calls

(* Appending to a sequence of whatever kind.                               *)
LEMMA Appended ==
  ASSUME NEW s, s \in Seq(ToSet(s)), NEW e
  PROVE  LET t == Append(s, e) IN
           /\ t \in Seq(ToSet(t)) /\ Len(t) = Len(s) + 1 /\ Len(s) \in Nat
           /\ DOMAIN s = 1..Len(s) /\ DOMAIN t = 1..(Len(s) + 1)
           /\ \A i \in DOMAIN s : t[i] = s[i]
           /\ t[Len(s) + 1] = e
<1> DEFINE t == Append(s, e)
           S == ToSet(s) \cup {e}
<1>1. s \in Seq(S)
  <2>1. ToSet(s) \subseteq S
    OBVIOUS
  <2> HIDE DEF S
  <2> QED
    BY <2>1
<1>2. e \in S
  OBVIOUS
<1> HIDE DEF S
<1>3. /\ t \in Seq(S) /\ Len(t) = Len(s) + 1 /\ Len(s) \in Nat
      /\ DOMAIN s = 1..Len(s) /\ DOMAIN t = 1..(Len(s) + 1)
      /\ \A i \in DOMAIN s : t[i] = s[i]
      /\ t[Len(s) + 1] = e
  BY <1>1, <1>2
<1>4. t \in Seq(ToSet(t))
  BY <1>3 DEF ToSet
<1> QED
  BY <1>3, <1>4

LEMMA CallInvInit == Init => CallInv
<1> SUFFICES ASSUME Init PROVE CallInv
  OBVIOUS
<1>1. messages = <<>> /\ request = <<>> /\ pc = "connect" /\ listing \in Listings
  BY DEF Init
<1>2. MessageInv /\ OpenInv /\ ConnectInv
  BY <1>1 DEF MessageInv, OpenInv, ConnectInv
<1>3. request = [p \in 1..0 |-> Encoded(messages[p])] /\ 0 \in 0..Len(messages)
  BY <1>1
<1> QED
  BY <1>2, <1>3 DEF CallInv, RequestInv

(* Steps that leave the conversation alone.                                *)
LEMMA QuietSteps ==
  ASSUME CallInv, UNCHANGED <<provider, messages, turn, answered, request>>,
         pc' = "calls" <=> pc = "calls",
         catalog' = catalog \/ messages = <<>>
  PROVE  MessageInv' /\ OpenInv' /\ RequestInv'
<1>1. \A p : Encoded(messages[p])' = Encoded(messages[p])
  BY DEF Encoded
<1>2. RequestInv' /\ OpenInv'
  BY <1>1 DEF CallInv, RequestInv, OpenInv, Turned, Ending, Open
<1>3. MessageInv'
  <2>1. CASE catalog' = catalog
    <3>1. \A call : Executed(call)' = Executed(call)
      BY <2>1 DEF Executed, Verdict
    <3> QED
      BY <3>1 DEF CallInv, MessageInv, Turned, Replied
  <2>2. CASE messages = <<>>
    BY <2>2 DEF MessageInv
  <2> QED
    BY <2>1, <2>2
<1> QED
  BY <1>2, <1>3

LEMMA ConnectKeepsInv == CallInv /\ (Connect \/ NewBelt) => CallInv'
<1> SUFFICES ASSUME CallInv, Connect \/ NewBelt PROVE CallInv'
  OBVIOUS
<1>1. messages = <<>>
  BY DEF CallInv, ConnectInv, Connect, NewBelt
<1>2. MessageInv' /\ OpenInv' /\ RequestInv'
  <2>1. UNCHANGED <<provider, messages, turn, answered, request>>
    BY DEF Connect, NewBelt, server
  <2>2. pc' = "calls" <=> pc = "calls"
    BY DEF Connect, NewBelt
  <2> QED
    BY <1>1, <2>1, <2>2, QuietSteps
<1>3. FindSqlTool' = FindSqlTool /\ Offered' = Offered
  BY DEF Connect, NewBelt, server, FindSqlTool, Candidates, Offered
<1>4. ConnectInv'
  BY <1>3 DEF Connect, NewBelt, server, CallInv, ConnectInv
<1> QED
  BY <1>2, <1>4 DEF CallInv

(* All of the conversation is sent when every call has its reply.          *)
LEMMA SentWhole ==
  ASSUME CallInv, pc = "chat", SendMessages, provider' = provider,
         messages' \in Seq(ToSet(messages')), Len(messages) <= Len(messages'),
         \A p \in DOMAIN messages : messages'[p] = messages[p]
  PROVE  RequestInv'
<1> DEFINE m == Len(messages)
<1>1. m \in Nat /\ DOMAIN messages = 1..m /\ m \in 0..Len(messages')
  BY DEF CallInv, MessageInv
<1>2. \A p \in 1..m : Encoded(messages[p])' = Encoded(messages[p])
  BY <1>1 DEF Encoded
<1>3. request' = [p \in 1..m |-> Encoded(messages[p])']
  BY <1>1, <1>2 DEF SendMessages
<1>4. \A q \in 1..m : Turned(q)' => Ending(q)' <= m
  BY <1>1 DEF CallInv, OpenInv, Turned, Ending
<1> HIDE DEF m
<1> QED
  BY <1>1, <1>3, <1>4 DEF RequestInv

LEMMA ChatKeepsInv ==
  ASSUME CallInv, NEW reply \in AnyReply, Chat(reply) PROVE CallInv'
<1>0. PICK n \in Nat : n = Len(messages)
  BY DEF CallInv, MessageInv
<1> DEFINE said == [role |-> "assistant", calls |-> Decoded(reply)]
<1>1. /\ messages' = Append(messages, said) /\ turn' = Decoded(reply)
      /\ pc = "chat" /\ pc' = "calls" /\ answered' = 0
      /\ UNCHANGED <<server, catalog, sqlTool>> /\ SendMessages
  BY DEF Chat
<1>2. messages \in Seq(ToSet(messages))
  BY DEF CallInv, MessageInv
<1> HIDE DEF said
<1>3. /\ messages' \in Seq(ToSet(messages')) /\ Len(messages') = n + 1 /\ n \in Nat
      /\ DOMAIN messages = 1..n /\ DOMAIN messages' = 1..(n + 1)
      /\ \A p \in 1..n : messages'[p] = messages[p]
      /\ messages'[n + 1] = said
  BY <1>0, <1>1, <1>2, Appended
<1>4. FindSqlTool' = FindSqlTool /\ Offered' = Offered
  BY <1>1 DEF server, FindSqlTool, Candidates, Offered
<1>5. ConnectInv'
  BY <1>1, <1>4 DEF CallInv, ConnectInv, server
<1>6. said.role = "assistant" /\ said.calls = Decoded(reply)
  BY DEF said
<1>7. /\ Len(Decoded(reply)) \in Nat \ {0}
      /\ DOMAIN Decoded(reply) = 1..Len(Decoded(reply))
  BY DecodedCalls
<1>8. \A call : Executed(call)' = Executed(call)
  BY <1>1 DEF Executed, Verdict
<1>9. MessageInv'
  <2>1. ASSUME NEW p \in 1..(n + 1), Replied(p)'
        PROVE  \E q \in 1..(n + 1) : /\ Turned(q)'
                                     /\ p - q \in DOMAIN messages'[q].calls
    <3>1. p \in 1..n /\ Replied(p)
      BY <1>3, <1>6, <2>1 DEF Replied
    <3>2. PICK q \in 1..n : Turned(q) /\ p - q \in DOMAIN messages[q].calls
      BY <1>3, <3>1 DEF CallInv, MessageInv
    <3> QED
      BY <1>3, <3>2 DEF Turned
  <2>2. ASSUME NEW q \in 1..(n + 1), Turned(q)'
        PROVE  /\ \E r \in AnyReply : messages'[q].calls = Decoded(r)
               /\ \A j \in DOMAIN messages'[q].calls : q + j \in 1..(n + 1) =>
                    messages'[q + j] = [role |-> "tool",
                                        id |-> messages'[q].calls[j].id,
                                        content |-> Executed(messages'[q].calls[j])]
    <3>1. CASE q = n + 1
      BY <1>3, <1>6, <1>7, <3>1
    <3>2. CASE q \in 1..n
      <4>1. Turned(q) /\ messages'[q] = messages[q]
        BY <1>3, <2>2, <3>2 DEF Turned
      <4>2. PICK r \in AnyReply : messages[q].calls = Decoded(r)
        BY <1>3, <3>2, <4>1 DEF CallInv, MessageInv
      <4>3. /\ Len(messages[q].calls) \in Nat
            /\ DOMAIN messages[q].calls = 1..Len(messages[q].calls)
        BY <4>2, DecodedCalls
      <4>4. q + Len(messages[q].calls) <= n
        BY <1>0, <1>1, <1>3, <3>2, <4>1 DEF CallInv, OpenInv, Ending
      <4>5. ASSUME NEW j \in DOMAIN messages[q].calls
            PROVE  /\ q + j \in 1..n
                   /\ messages[q + j] = [role |-> "tool",
                                         id |-> messages[q].calls[j].id,
                                         content |-> Executed(messages[q].calls[j])]
        <5>1. q + j \in 1..n
          BY <1>3, <3>2, <4>3, <4>4
        <5> QED
          BY <1>3, <3>2, <4>1, <5>1 DEF CallInv, MessageInv
      <4> QED
        BY <1>3, <4>1, <4>2, <4>5
    <3> QED
      BY <3>1, <3>2
  <2> QED
    BY <1>3, <1>8, <2>1, <2>2 DEF MessageInv
<1>10. OpenInv'
  <2>1. Open' = n + 1
    BY <1>1, <1>3 DEF Open
  <2>2. /\ 0 < Len(turn') /\ n + 1 \in DOMAIN messages'
        /\ Turned(n + 1)' /\ messages'[n + 1].calls = turn'
    BY <1>1, <1>3, <1>6, <1>7 DEF Turned
  <2>3. ASSUME NEW q \in 1..(n + 1), Turned(q)', q # n + 1
        PROVE  Ending(q)' <= n + 1
    <3>1. q \in 1..n /\ Turned(q) /\ messages'[q] = messages[q]
      BY <1>3, <2>3 DEF Turned
    <3>2. PICK r \in AnyReply : messages[q].calls = Decoded(r)
      BY <1>3, <3>1 DEF CallInv, MessageInv
    <3>3. Len(messages[q].calls) \in Nat
      BY <3>2, DecodedCalls
    <3>4. q + Len(messages[q].calls) <= n
      BY <1>0, <1>1, <1>3, <3>1 DEF CallInv, OpenInv, Ending
    <3> QED
      BY <1>3, <3>1, <3>3, <3>4 DEF Ending
  <2> QED
    BY <1>1, <1>3, <2>1, <2>2, <2>3 DEF OpenInv
<1>11. RequestInv'
  BY <1>0, <1>1, <1>3, SentWhole DEF server
<1> QED
  BY <1>5, <1>9, <1>10, <1>11 DEF CallInv

LEMMA FinishKeepsInv == CallInv /\ Finish => CallInv'
<1> SUFFICES ASSUME CallInv, Finish PROVE CallInv'
  OBVIOUS
<1>1. /\ UNCHANGED <<server, sqlTool, catalog, turn, answered, messages>>
      /\ pc = "chat" /\ pc' = "done" /\ SendMessages
  BY DEF Finish
<1>2. messages \in Seq(ToSet(messages)) /\ Len(messages) \in Nat
  BY DEF CallInv, MessageInv
<1>3. RequestInv'
  BY <1>1, <1>2, SentWhole DEF server
<1>4. \A call : Executed(call)' = Executed(call)
  BY <1>1 DEF Executed, Verdict
<1>5. MessageInv' /\ OpenInv'
  BY <1>1, <1>4 DEF CallInv, MessageInv, OpenInv, Turned, Replied, Ending, Open
<1>6. FindSqlTool' = FindSqlTool /\ Offered' = Offered
  BY <1>1 DEF server, FindSqlTool, Candidates, Offered
<1>7. ConnectInv'
  BY <1>1, <1>6 DEF CallInv, ConnectInv, server
<1> QED
  BY <1>3, <1>5, <1>7 DEF CallInv

LEMMA ExecuteKeepsInv == CallInv /\ ExecuteCall => CallInv'
<1> SUFFICES ASSUME CallInv, ExecuteCall PROVE CallInv'
  OBVIOUS
<1>0. PICK n \in Nat : n = Len(messages)
  BY DEF CallInv, MessageInv
<1> DEFINE k == answered + 1
           reply == [role |-> "tool", id |-> turn[k].id, content |-> Executed(turn[k])]
<1>1. /\ messages' = Append(messages, reply) /\ answered' = k /\ pc = "calls"
      /\ pc' = IF k = Len(turn) THEN "chat" ELSE "calls"
      /\ UNCHANGED <<server, sqlTool, catalog, turn, request>>
  BY DEF ExecuteCall
<1>2. messages \in Seq(ToSet(messages))
  BY DEF CallInv, MessageInv
<1>3. reply.role = "tool"
  OBVIOUS
<1> HIDE DEF reply
<1>4. /\ messages' \in Seq(ToSet(messages')) /\ Len(messages') = n + 1 /\ n \in Nat
      /\ DOMAIN messages = 1..n /\ DOMAIN messages' = 1..(n + 1)
      /\ \A p \in 1..n : messages'[p] = messages[p]
      /\ messages'[n + 1] = reply
  BY <1>0, <1>1, <1>2, Appended
<1>5. /\ answered \in Nat /\ answered < Len(turn)
      /\ Open \in 1..n /\ Turned(Open) /\ messages[Open].calls = turn
      /\ \A q \in 1..n : Turned(q) /\ q # Open => q + Len(messages[q].calls) <= n
  BY <1>0, <1>1, <1>4 DEF CallInv, OpenInv, Ending
<1>6. Open + k = n + 1 /\ Open' = Open
  BY <1>0, <1>1, <1>4, <1>5 DEF Open
<1>7. ASSUME NEW q \in 1..n, Turned(q)
      PROVE  /\ Len(messages[q].calls) \in Nat
             /\ DOMAIN messages[q].calls = 1..Len(messages[q].calls)
             /\ \E r \in AnyReply : messages[q].calls = Decoded(r)
  <2>1. PICK r \in AnyReply : messages[q].calls = Decoded(r)
    BY <1>4, <1>7 DEF CallInv, MessageInv
  <2> QED
    BY <2>1, DecodedCalls
<1>8. \A call : Executed(call)' = Executed(call)
  BY <1>1 DEF Executed, Verdict
<1>9. \A q \in 1..(n + 1) : Turned(q)' => /\ q \in 1..n /\ Turned(q)
                                          /\ messages'[q] = messages[q]
  BY <1>3, <1>4 DEF Turned
<1>10. MessageInv'
  <2>1. ASSUME NEW p \in 1..(n + 1), Replied(p)'
        PROVE  \E q \in 1..(n + 1) : /\ Turned(q)'
                                     /\ p - q \in DOMAIN messages'[q].calls
    <3>1. CASE p = n + 1
      <4>1. PICK q \in 1..n : q = Open
        BY <1>5
      <4>2. /\ Turned(q)' /\ q \in 1..(n + 1) /\ messages'[q].calls = turn
        BY <1>4, <1>5, <4>1 DEF Turned
      <4>3. p - q = k /\ k \in 1..Len(turn)
        <5>1. Len(turn) \in Nat /\ q + k = n + 1
          BY <1>5, <1>6, <1>7, <4>1
        <5> QED
          BY <1>4, <1>5, <3>1, <5>1
      <4>4. DOMAIN turn = 1..Len(turn)
        BY <1>5, <1>7
      <4> QED
        BY <4>2, <4>3, <4>4
    <3>2. CASE p \in 1..n
      <4>1. Replied(p)
        BY <1>4, <2>1, <3>2 DEF Replied
      <4>2. PICK q \in 1..n : Turned(q) /\ p - q \in DOMAIN messages[q].calls
        BY <1>4, <3>2, <4>1 DEF CallInv, MessageInv
      <4> QED
        BY <1>4, <4>2 DEF Turned
    <3> QED
      BY <1>4, <3>1, <3>2
  <2>2. ASSUME NEW q \in 1..(n + 1), Turned(q)'
        PROVE  /\ \E r \in AnyReply : messages'[q].calls = Decoded(r)
               /\ \A j \in DOMAIN messages'[q].calls : q + j \in 1..(n + 1) =>
                    messages'[q + j] = [role |-> "tool",
                                        id |-> messages'[q].calls[j].id,
                                        content |-> Executed(messages'[q].calls[j])]
    <3>1. q \in 1..n /\ Turned(q) /\ messages'[q] = messages[q]
      BY <1>9, <2>2
    <3>2. ASSUME NEW j \in DOMAIN messages[q].calls, q + j \in 1..(n + 1)
          PROVE  messages'[q + j] = [role |-> "tool", id |-> messages[q].calls[j].id,
                                     content |-> Executed(messages[q].calls[j])]
      <4>1. CASE q + j \in 1..n
        BY <1>4, <3>1, <4>1 DEF CallInv, MessageInv
      <4>2. CASE q + j = n + 1
        <5>1. j \in 1..Len(messages[q].calls) /\ Len(messages[q].calls) \in Nat
          BY <1>7, <3>1
        <5>2. q = Open
          BY <1>4, <1>5, <3>1, <4>2, <5>1
        <5>3. j = k
          BY <1>4, <1>5, <1>6, <4>2, <5>1, <5>2
        <5> QED
          BY <1>4, <1>5, <4>2, <5>2, <5>3 DEF reply
      <4> QED
        BY <1>4, <3>2, <4>1, <4>2
    <3> QED
      BY <1>7, <3>1, <3>2
  <2> QED
    BY <1>4, <1>8, <2>1, <2>2 DEF MessageInv
<1>11. OpenInv'
  <2>1. Len(turn) \in Nat
    BY <1>5, <1>7
  <2>2. ASSUME pc' = "calls"
        PROVE  /\ k \in Nat /\ k < Len(turn) /\ Open' \in DOMAIN messages'
               /\ Turned(Open)' /\ messages'[Open'].calls = turn'
    <3>1. k # Len(turn)
      BY <1>1, <2>2
    <3>2. k \in Nat /\ k < Len(turn)
      BY <1>5, <2>1, <3>1
    <3>3. Open' \in DOMAIN messages' /\ messages'[Open'] = messages[Open]
      BY <1>4, <1>5, <1>6
    <3> QED
      BY <1>1, <1>5, <1>6, <3>2, <3>3 DEF Turned
  <2>3. ASSUME NEW q \in 1..(n + 1), Turned(q)', ~(pc' = "calls" /\ q = Open')
        PROVE  Ending(q)' <= n + 1
    <3>1. q \in 1..n /\ Turned(q) /\ messages'[q] = messages[q]
      BY <1>9, <2>3
    <3>2. CASE q # Open
      BY <1>4, <1>5, <1>7, <3>1, <3>2 DEF Ending
    <3>3. CASE q = Open
      <4>1. k = Len(turn)
        BY <1>1, <1>6, <2>3, <3>3
      <4> QED
        BY <1>4, <1>5, <1>6, <3>1, <3>3, <4>1 DEF Ending
    <3> QED
      BY <3>2, <3>3
  <2> QED
    BY <1>1, <1>4, <2>2, <2>3 DEF OpenInv
<1>12. RequestInv'
  <2>1. PICK m \in 0..n : /\ request = [p \in 1..m |-> Encoded(messages[p])]
                          /\ \A q \in 1..m : Turned(q) => Ending(q) <= m
    BY <1>0 DEF CallInv, RequestInv
  <2>2. m \in 0..Len(messages') /\ 1..m \subseteq 1..n
    BY <1>4, <2>1
  <2>3. \A p \in 1..m : Encoded(messages[p])' = Encoded(messages[p])
    BY <1>1, <1>4, <2>2 DEF Encoded, server
  <2>4. request' = [p \in 1..m |-> Encoded(messages[p])']
    BY <1>1, <2>1, <2>3
  <2>5. \A q \in 1..m : Turned(q)' => Ending(q)' <= m
    BY <1>4, <2>1, <2>2 DEF Turned, Ending
  <2> QED
    BY <2>2, <2>4, <2>5 DEF RequestInv
<1>13. ConnectInv'
  <2>1. FindSqlTool' = FindSqlTool /\ Offered' = Offered
    BY <1>1 DEF server, FindSqlTool, Candidates, Offered
  <2> QED
    BY <1>1, <2>1 DEF CallInv, ConnectInv, server
<1> QED
  BY <1>10, <1>11, <1>12, <1>13 DEF CallInv

THEOREM CallInvariant == Spec => []CallInv
<1>1. CallInv /\ [Next]_vars => CallInv'
  <2> SUFFICES ASSUME CallInv, [Next]_vars PROVE CallInv'
    OBVIOUS
  <2>1. CASE UNCHANGED vars
    <3>1. FindSqlTool' = FindSqlTool /\ Offered' = Offered
      BY <2>1 DEF vars, server, FindSqlTool, Candidates, Offered
    <3>2. MessageInv' /\ OpenInv' /\ RequestInv'
      BY <2>1, QuietSteps DEF vars, server
    <3>3. ConnectInv'
      BY <2>1, <3>1 DEF vars, server, CallInv, ConnectInv
    <3> QED
      BY <3>2, <3>3 DEF CallInv
  <2>2. Said \subseteq AnyReply
    BY DEF Said, AnyReply
  <2> QED
    BY <2>1, <2>2, ConnectKeepsInv, ChatKeepsInv, FinishKeepsInv, ExecuteKeepsInv DEF Next
<1> QED
  BY CallInvInit, <1>1, PTL DEF Spec

-------------------------------------------------------------------------------
(* What a call was judged by.                                              *)
LEMMA JudgedCalls ==
  ASSUME CallInv, NEW p \in DOMAIN messages, Replied(p)
  PROVE  LET call == messages[p].content IN
           /\ call.verdict = Verdict(call) /\ catalog = Offered
           /\ \A key \in DOMAIN call.arguments :
                call.arguments[key] # None => call.arguments[key] \in Seq(Tokens)
<1>1. PICK q \in DOMAIN messages : Turned(q) /\ p - q \in DOMAIN messages[q].calls
  BY DEF CallInv, MessageInv
<1> DEFINE j == p - q
           call == messages[q].calls[j]
<1>2. q \in Int /\ p \in Int
  BY DEF CallInv, MessageInv
<1>3. q + j = p
  BY <1>2
<1>4. messages[p].content = Executed(call)
  <2> HIDE DEF j
  <2>1. messages[q + j] = [role |-> "tool", id |-> call.id, content |-> Executed(call)]
    <3>1. q + j \in DOMAIN messages /\ j \in DOMAIN messages[q].calls
      BY <1>1, <1>3 DEF j
    <3> QED
      BY <1>1, <3>1 DEF CallInv, MessageInv
  <2> QED
    BY <1>3, <2>1
<1>5. PICK reply \in AnyReply : messages[q].calls = Decoded(reply)
  BY <1>1 DEF CallInv, MessageInv
<1>6. \A key \in DOMAIN call.arguments :
        call.arguments[key] # None => call.arguments[key] \in Seq(Tokens)
  BY <1>1, <1>5, DecodedCalls
<1>7. catalog = Offered
  BY DEF CallInv, ConnectInv
<1> HIDE DEF call
<1> QED
  BY <1>4, <1>6, <1>7 DEF Executed, Verdict

(* Nothing but single reading statements, under whatever name a tool may   *)
(* take SQL, reaches the server, and nothing but the tools it lists and    *)
(* the allowlist admits; and no plain read is refused.                     *)
THEOREM GuardIsExact == Spec => []OnlyReadsAreSent
<1>1. CallInv => OnlyReadsAreSent
  <2> SUFFICES ASSUME CallInv, NEW p \in DOMAIN messages, Replied(p)
               PROVE  LET call  == messages[p].content
                          sqlOf == {key \in DOMAIN call.arguments :
                                      Lower(key) \in SqlNames
                                      /\ call.arguments[key] # None}
                      IN /\ call.verdict = "sent" =>
                              /\ call.name \in ToSet(listing)
                              /\ \/ call.name \in allowlist
                                 \/ allowlist \cap ToSet(listing) = {}
                              /\ \A key \in sqlOf : ReadsOnly(call.arguments[key])
                         /\ call.verdict = "rejected" =>
                              \E key \in sqlOf : ~Plain(call.arguments[key])
    BY DEF OnlyReadsAreSent, Replied
  <2> DEFINE call == messages[p].content
             args == call.arguments
             sqlOf == {key \in DOMAIN args : Lower(key) \in SqlNames /\ args[key] # None}
  <2>1. /\ call.verdict = Verdict(call) /\ catalog = Offered
        /\ \A key \in DOMAIN args : args[key] # None => args[key] \in Seq(Tokens)
    BY JudgedCalls
  <2>2. SqlNames = SqlArgNames
    BY DEF SqlNames, SqlArgNames
  <2>3. ASSUME call.verdict = "sent"
        PROVE  /\ call.name \in ToSet(listing)
               /\ call.name \in allowlist \/ allowlist \cap ToSet(listing) = {}
               /\ \A key \in sqlOf : ReadsOnly(args[key])
    <3>1. call.name \in Offered /\ ~Blocked(args)
      BY <2>1, <2>3 DEF Verdict
    <3>2. \A key \in sqlOf : Strip(args[key]) = <<>> \/ ReadOnly(Strip(args[key]))
      <4> HIDE DEF args
      <4> QED
        BY <2>2, <3>1 DEF Blocked
    <3>3. \A key \in sqlOf : ReadsOnly(args[key])
      <4> HIDE DEF args
      <4> QED
        BY <2>1, <3>2, PassedTextsRead
    <3> QED
      BY <3>1, <3>3 DEF Offered
  <2>4. ASSUME call.verdict = "rejected"
        PROVE  \E key \in sqlOf : ~Plain(args[key])
    <3>1. Blocked(args)
      BY <2>1, <2>4 DEF Verdict
    <3> HIDE DEF args
    <3>2. PICK key \in DOMAIN args :
            /\ Lower(key) \in SqlArgNames /\ args[key] # None
            /\ Strip(args[key]) # <<>> /\ ~ReadOnly(Strip(args[key]))
      BY <3>1 DEF Blocked
    <3>3. key \in sqlOf /\ args[key] \in Seq(Tokens)
      BY <2>1, <2>2, <3>2
    <3>4. ~Plain(args[key])
      BY <3>2, <3>3, PlainTextsPass
    <3> QED
      BY <3>3, <3>4
  <2> QED
    BY <2>3, <2>4
<1> QED
  BY <1>1, CallInvariant, PTL

(* Introspection asks a tool that executes SQL, under a parameter this     *)
(* tool takes, whenever the server lists one, whatever else it lists and   *)
(* in whatever order.                                                      *)
THEOREM IntrospectionExecutes == Spec => []SqlToolExecutes
<1>1. CallInv => SqlToolExecutes
  <2> SUFFICES ASSUME CallInv, pc # "connect" PROVE SqlToolExecutes
    BY DEF SqlToolExecutes
  <2>1. listing \in Listings /\ sqlTool = FindSqlTool
    BY DEF CallInv, ConnectInv
  <2> QED
    BY <2>1, FoundToolExecutes DEF SqlToolExecutes
<1> QED
  BY <1>1, CallInvariant, PTL

(* What is said of a turn of a request holds of the turn it encodes.       *)
LEMMA EncodedTurn ==
  ASSUME CallInv, NEW m \in 0..Len(messages),
         request = [p \in 1..m |-> Encoded(messages[p])],
         NEW q \in 1..m
  PROVE  /\ q \in DOMAIN messages /\ q \in DOMAIN request
         /\ Turned(q) <=> q \in Turns
         /\ ~Turned(q) => request[q] = messages[q]
         /\ Turned(q) =>
              /\ Len(messages[q].calls) \in Nat
              /\ DOMAIN messages[q].calls = 1..Len(messages[q].calls)
              /\ DOMAIN request[q].calls = DOMAIN messages[q].calls
              /\ \A i, j \in DOMAIN messages[q].calls :
                   messages[q].calls[i].id = messages[q].calls[j].id => i = j
              /\ \A j \in DOMAIN messages[q].calls :
                   LET call == messages[q].calls[j]
                       sent == request[q].calls[j]
                   IN /\ sent.name = call.name /\ Parsed(sent) = call.arguments
                      /\ provider = "openai" => sent.id = call.id
                      /\ sent.form = IF provider = "openai" THEN "json" ELSE "dict"
                      /\ q + j \in DOMAIN messages =>
                           messages[q + j] = [role |-> "tool", id |-> call.id,
                                              content |-> Executed(call)]
<1>1. q \in DOMAIN messages /\ q \in DOMAIN request
  BY DEF CallInv, MessageInv
<1>2. request[q] = Encoded(messages[q])
  OBVIOUS
<1>3. Turned(q) <=> q \in Turns
  BY <1>1, <1>2 DEF Turned, Turns, Encoded
<1>4. ~Turned(q) => request[q] = messages[q]
  BY <1>2 DEF Turned, Encoded
<1>5. ASSUME Turned(q)
      PROVE  /\ Len(messages[q].calls) \in Nat
             /\ DOMAIN messages[q].calls = 1..Len(messages[q].calls)
             /\ \A i, j \in DOMAIN messages[q].calls :
                  messages[q].calls[i].id = messages[q].calls[j].id => i = j
  <2>1. PICK reply \in AnyReply : messages[q].calls = Decoded(reply)
    BY <1>1, <1>5 DEF CallInv, MessageInv
  <2> QED
    BY <2>1, DecodedCalls
<1>6. ASSUME Turned(q)
      PROVE  request[q].calls = [i \in DOMAIN messages[q].calls |->
                                   IF provider = "openai"
                                   THEN ForOpenAI(messages[q].calls[i])
                                   ELSE ForOllama(messages[q].calls[i])]
  BY <1>2, <1>6 DEF Turned, Encoded
<1>7. ASSUME Turned(q), NEW j \in DOMAIN messages[q].calls
      PROVE  LET call == messages[q].calls[j]
                 sent == request[q].calls[j]
             IN /\ sent.name = call.name /\ Parsed(sent) = call.arguments
                /\ provider = "openai" => sent.id = call.id
                /\ sent.form = IF provider = "openai" THEN "json" ELSE "dict"
                /\ q + j \in DOMAIN messages =>
                     messages[q + j] = [role |-> "tool", id |-> call.id,
                                        content |-> Executed(call)]
  <2>1. request[q].calls[j] = IF provider = "openai"
                              THEN ForOpenAI(messages[q].calls[j])
                              ELSE ForOllama(messages[q].calls[j])
    BY <1>6, <1>7
  <2>2. q + j \in DOMAIN messages =>
          messages[q + j] = [role |-> "tool", id |-> messages[q].calls[j].id,
                             content |-> Executed(messages[q].calls[j])]
    BY <1>1, <1>7 DEF CallInv, MessageInv
  <2> QED
    BY <2>1, <2>2 DEF ForOpenAI, ForOllama, Parsed
<1>8. Turned(q) => DOMAIN request[q].calls = DOMAIN messages[q].calls
  BY <1>6
<1> QED
  BY <1>1, <1>3, <1>4, <1>5, <1>7, <1>8

(* However long the conversation, whichever calls of it came without an    *)
(* id, and however often an id recurs in it: a model server takes each     *)
(* tool reply for the call it is about.                                    *)
THEOREM RepliesFindTheirCalls == Spec => []RepliesMatchCalls
<1>1. CallInv => RepliesMatchCalls
  <2> SUFFICES ASSUME CallInv PROVE RepliesMatchCalls
    OBVIOUS
  <2>1. PICK m \in 0..Len(messages) :
          /\ request = [p \in 1..m |-> Encoded(messages[p])]
          /\ \A q \in 1..m : Turned(q) => Ending(q) <= m
    BY DEF CallInv, RequestInv
  <2>2. DOMAIN request = 1..m /\ DOMAIN messages = 1..Len(messages)
        /\ m \in Nat /\ Len(messages) \in Nat /\ m <= Len(messages)
    BY <2>1 DEF CallInv, MessageInv
  <2>3. ASSUME NEW q \in Turns, NEW j \in DOMAIN request[q].calls
        PROVE  /\ q \in 1..m /\ j \in Nat \ {0} /\ q + j \in 1..m /\ q < q + j
               /\ q + j \notin Turns /\ request[q + j].role = "tool"
               /\ request[q + j].content.name = request[q].calls[j].name
               /\ request[q + j].content.arguments = Parsed(request[q].calls[j])
               /\ request[q].calls[j].form
                    = IF provider = "openai" THEN "json" ELSE "dict"
               /\ provider = "openai" => request[q + j].id = request[q].calls[j].id
               /\ \A i \in DOMAIN request[q].calls : provider = "openai" =>
                    (request[q].calls[i].id = request[q].calls[j].id => i = j)
    <3>1. q \in 1..m /\ Turned(q)
      BY <2>1, <2>2, EncodedTurn DEF Turns
    <3>2. /\ Len(messages[q].calls) \in Nat
          /\ DOMAIN messages[q].calls = 1..Len(messages[q].calls)
          /\ j \in DOMAIN messages[q].calls
      BY <2>1, <2>3, <3>1, EncodedTurn
    <3>3. q + Len(messages[q].calls) <= m
      BY <2>1, <3>1 DEF Ending
    <3>4. q + j \in 1..m /\ j \in Nat \ {0} /\ q < q + j /\ q + j \in DOMAIN messages
      BY <2>2, <3>1, <3>2, <3>3
    <3>5. messages[q + j] = [role |-> "tool", id |-> messages[q].calls[j].id,
                             content |-> Executed(messages[q].calls[j])]
      BY <2>1, <3>1, <3>2, <3>4, EncodedTurn
    <3>6. ~Turned(q + j)
      BY <3>5 DEF Turned
    <3>7. request[q + j] = messages[q + j] /\ q + j \notin Turns
      BY <2>1, <3>4, <3>6, EncodedTurn
    <3>8. /\ request[q].calls[j].name = messages[q].calls[j].name
          /\ Parsed(request[q].calls[j]) = messages[q].calls[j].arguments
          /\ request[q].calls[j].form = IF provider = "openai" THEN "json" ELSE "dict"
      BY <2>1, <3>1, <3>2, EncodedTurn
    <3>9. /\ DOMAIN request[q].calls = DOMAIN messages[q].calls
          /\ provider = "openai" =>
              /\ request[q].calls[j].id = messages[q].calls[j].id
              /\ \A i \in DOMAIN messages[q].calls :
                   request[q].calls[i].id = messages[q].calls[i].id
          /\ \A i \in DOMAIN messages[q].calls :
               messages[q].calls[i].id = messages[q].calls[j].id => i = j
      BY <2>1, <3>1, <3>2, EncodedTurn
    <3> QED
      BY <3>1, <3>4, <3>5, <3>7, <3>8, <3>9 DEF Executed
  <2>4. ASSUME NEW q \in Turns, NEW j \in DOMAIN request[q].calls,
               NEW r \in Turns, q < r, r < q + j
        PROVE  FALSE
    <3>1. /\ q \in 1..m /\ r \in 1..m /\ j \in Nat \ {0}
          /\ DOMAIN request[q].calls = 1..Len(messages[q].calls)
          /\ Len(messages[q].calls) \in Nat
      <4>1. q \in 1..m /\ r \in 1..m /\ Turned(q)
        BY <2>1, <2>2, EncodedTurn DEF Turns
      <4>2. j \in Nat \ {0}
        BY <2>3, <2>4
      <4> QED
        BY <2>1, <4>1, <4>2, EncodedTurn
    <3>2. r - q \in DOMAIN request[q].calls
      BY <2>4, <3>1
    <3>3. q + (r - q) = r
      BY <3>1
    <3> QED
      BY <2>3, <2>4, <3>2, <3>3
  <2>5. ASSUME NEW q \in Turns, NEW j \in DOMAIN request[q].calls
        PROVE  TakenFor(q + j, q, j)
    <3>1. \A r \in Turns : ~(q < r /\ r < q + j)
      BY <2>4, <2>5
    <3> QED
      BY <2>3, <2>5, <3>1 DEF TakenFor
  <2>6. ASSUME NEW q \in Turns, NEW j \in DOMAIN request[q].calls,
               NEW r \in Turns, NEW i \in DOMAIN request[r].calls,
               r < q + j, TakenFor(q + j, r, i)
        PROVE  r = q /\ i = j
    <3>1. q \in 1..m /\ r \in 1..m /\ q < q + j /\ j \in Nat /\ i \in Nat
      BY <2>3, <2>6
    <3>2. ~(r < q)
      <4> SUFFICES ASSUME r < q PROVE FALSE
        OBVIOUS
      <4>1. provider = "openai" => HasId(q, request[q + j].id)
        BY <2>3, <2>6 DEF HasId
      <4> QED
        BY <2>6, <3>1, <4>1 DEF TakenFor
    <3>3. ~(q < r)
      BY <2>4, <2>6
    <3>4. r = q
      BY <3>1, <3>2, <3>3
    <3>5. CASE provider = "openai"
      <4>1. request[q].calls[i].id = request[q].calls[j].id
        BY <2>3, <2>6, <3>4, <3>5 DEF TakenFor
      <4> QED
        BY <2>3, <2>6, <3>4, <3>5, <4>1
    <3>6. CASE provider # "openai"
      <4>1. q + i = q + j
        BY <2>6, <3>4, <3>6 DEF TakenFor
      <4> QED
        BY <3>1, <3>4, <4>1
    <3> QED
      BY <3>5, <3>6
  <2>7. ASSUME NEW p \in DOMAIN request, request[p].role = "tool"
        PROVE  \E q \in Turns : \E j \in DOMAIN request[q].calls : p = q + j
    <3>1. p \in 1..m /\ p \in DOMAIN messages /\ p \notin Turns
      BY <2>2, <2>7 DEF Turns
    <3>2. ~Turned(p) /\ request[p] = messages[p]
      BY <2>1, <3>1, EncodedTurn
    <3>3. Replied(p)
      BY <2>7, <3>2 DEF Replied
    <3>4. PICK q \in DOMAIN messages :
            Turned(q) /\ p - q \in DOMAIN messages[q].calls
      BY <3>1, <3>3 DEF CallInv, MessageInv
    <3>5. PICK reply \in AnyReply : messages[q].calls = Decoded(reply)
      BY <3>4 DEF CallInv, MessageInv
    <3>6. p - q \in Nat \ {0}
      BY <3>4, <3>5, DecodedCalls
    <3>7. q \in 1..m /\ q + (p - q) = p
      BY <2>2, <3>1, <3>6
    <3>8. q \in Turns /\ p - q \in DOMAIN request[q].calls
      BY <2>1, <3>4, <3>7, EncodedTurn
    <3> QED
      BY <3>7, <3>8
  <2>8. ASSUME NEW p \in DOMAIN request, request[p].role = "tool"
        PROVE  \E q \in Turns : \E j \in DOMAIN request[q].calls :
                 LET call == request[q].calls[j]
                     told == request[p].content
                 IN /\ q < p /\ TakenFor(p, q, j)
                    /\ \A r \in Turns : \A i \in DOMAIN request[r].calls :
                         r < p /\ TakenFor(p, r, i) => r = q /\ i = j
                    /\ call.name = told.name /\ Parsed(call) = told.arguments
                    /\ call.form = IF provider = "openai" THEN "json" ELSE "dict"
    <3>1. PICK q \in Turns : \E j \in DOMAIN request[q].calls : p = q + j
      BY <2>7, <2>8
    <3>2. PICK j \in DOMAIN request[q].calls : p = q + j
      BY <3>1
    <3>3. \A r \in Turns : \A i \in DOMAIN request[r].calls :
            r < p /\ TakenFor(p, r, i) => r = q /\ i = j
      BY <2>6, <3>2
    <3>4. TakenFor(p, q, j)
      BY <2>5, <3>2
    <3>5. /\ q < p
          /\ request[q].calls[j].name = request[p].content.name
          /\ Parsed(request[q].calls[j]) = request[p].content.arguments
          /\ request[q].calls[j].form = IF provider = "openai" THEN "json" ELSE "dict"
      BY <2>3, <3>2
    <3> QED
      BY <3>3, <3>4, <3>5
  <2>9. ASSUME NEW q \in Turns, NEW j \in DOMAIN request[q].calls
        PROVE  \E p \in DOMAIN request : /\ q < p /\ request[p].role = "tool"
                                         /\ TakenFor(p, q, j)
    BY <2>2, <2>3, <2>5, <2>9
  <2> QED
    BY <2>8, <2>9 DEF RepliesMatchCalls
<1> QED
  BY <1>1, CallInvariant, PTL
===============================================================================
