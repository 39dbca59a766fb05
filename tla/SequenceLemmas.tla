----------------------------- MODULE SequenceLemmas ----------------------------
(***************************************************************************)
(* Lemmas about positions in sequences and about the filter Among, for     *)
(* sequences of every length.  The library's principles of induction are   *)
(* about operators; these proofs look for a smallest counterexample among  *)
(* the sets of positions instead.                                          *)
(***************************************************************************)
EXTENDS Filter, FiniteSetTheorems, SequenceTheorems, WellFoundedInduction, TLAPS

-------------------------------------------------------------------------------
(* First and last positions.                                               *)

(* A nonempty set of positions has a first one: walk towards the beginning *)
(* as long as something is left before the position, a set that shrinks.   *)
LEMMA FirstPosition ==
  ASSUME NEW n \in Nat, NEW S, S \subseteq 0..n, S # {}
  PROVE  Min(S) \in S /\ \A y \in S : Min(S) <= y
<1> DEFINE Before(x) == {y \in S : y < x}
           Rests == {Before(x) : x \in S}
           Smaller == StrictSubsetOrdering(S)
<1>1. IsFiniteSet(S)
  <2>1. S \in SUBSET Nat /\ \A x \in S : x <= n
    OBVIOUS
  <2> QED
    BY <2>1, FS_BoundedSetOfNaturals
<1>2. IsWellFoundedOn(Smaller, SUBSET S)
  BY <1>1, FS_StrictSubsetOrderingWellFounded, FS_FiniteSubsetsOfFinite
<1>3. Rests \subseteq SUBSET S /\ Rests # {}
  OBVIOUS
<1>4. PICK first \in Rests : \A r \in Rests : ~ (<<r, first>> \in Smaller)
  <2> HIDE DEF Rests, Smaller
  <2> QED
    BY <1>2, <1>3, WFMin
<1>5. PICK x \in S : first = Before(x)
  BY <1>4
<1>6. \A y \in S : x <= y
  <2> SUFFICES ASSUME NEW y \in S, y < x PROVE FALSE
    OBVIOUS
  <2>0. x \in Int /\ y \in Int /\ S \subseteq Int
    OBVIOUS
  <2>1. /\ \A z \in S : z < y => z < x
        /\ y < x /\ ~(y < y)
    BY <2>0
  <2>2. <<Before(y), Before(x)>> \in Smaller
    <3>1. /\ Before(y) \subseteq Before(x)
          /\ y \in Before(x) /\ y \notin Before(y)
      BY <2>1
    <3> QED
      BY <3>1 DEF StrictSubsetOrdering
  <2> QED
    BY <1>4, <1>5, <2>2
<1> QED
  BY <1>6 DEF Min

(* The last position of a set is the first of its upper bounds.            *)
LEMMA LastPosition ==
  ASSUME NEW n \in Nat, NEW S, S \subseteq 0..n, S # {}
  PROVE  Max(S) \in S /\ \A y \in S : Max(S) >= y
<1> DEFINE Bounds == {b \in 0..n : \A y \in S : y <= b}
<1>1. Bounds \subseteq 0..n /\ n \in Bounds
  OBVIOUS
<1>2. Min(Bounds) \in Bounds /\ \A b \in Bounds : Min(Bounds) <= b
  <2> HIDE DEF Bounds
  <2> QED
    BY <1>1, FirstPosition
<1>3. PICK x \in Bounds : \A b \in Bounds : x <= b
  BY <1>2
<1>4. x \in S
  <2> SUFFICES ASSUME x \notin S PROVE FALSE
    OBVIOUS
  <2>1. PICK y \in S : y <= x
    OBVIOUS
  <2>2. x - 1 \in 0..n
    BY <2>1
  <2>3. \A z \in S : z <= x - 1
    OBVIOUS
  <2> QED
    BY <2>2, <2>3, <1>3
<1> QED
  BY <1>4 DEF Max

(* The last of some positions is the last of each part that holds it.      *)
LEMMA LastOfPositions ==
  ASSUME NEW n \in Nat, NEW s \in SUBSET (1..n), s # {}
  PROVE  /\ Max(s) \in s
         /\ \A u \in SUBSET s : Max(s) \in u => Max(u) = Max(s)
<1>0. s \subseteq Int
  OBVIOUS
<1>1. Max(s) \in s /\ \A y \in s : Max(s) >= y
  <2>1. s \subseteq 0..n
    OBVIOUS
  <2> QED
    BY <2>1, LastPosition
<1>2. ASSUME NEW u \in SUBSET s, Max(s) \in u PROVE Max(u) = Max(s)
  <2>1. Max(u) \in u /\ \A y \in u : Max(u) >= y
    <3>1. u \subseteq 0..n /\ u # {}
      BY <1>2
    <3> QED
      BY <3>1, LastPosition
  <2>2. Max(u) \in Int /\ Max(s) \in Int
    BY <1>0, <1>1, <1>2, <2>1
  <2> QED
    BY <1>1, <1>2, <2>1, <2>2
<1> QED
  BY <1>1, <1>2

(* The last position of all.                                               *)
LEMMA LastOfInterval == ASSUME NEW k \in Nat, k # 0 PROVE Max(1..k) = k
<1>1. k \in 1..k /\ 1..k # {}
  OBVIOUS
<1>2. Max(1..k) \in 1..k /\ \A y \in 1..k : Max(1..k) >= y
  BY <1>1, LastPosition
<1> QED
  BY <1>1, <1>2

(* Of some sets of positions, one has no proper subset among them.         *)
LEMMA PositionsWellFounded ==
  ASSUME NEW n \in Nat, NEW Bad, Bad \subseteq SUBSET (1..n), Bad # {}
  PROVE  \E s \in Bad : \A t \in SUBSET s : t # s => t \notin Bad
<1> DEFINE D == 1..n
<1>1. IsFiniteSet(D)
  <2>1. D \in SUBSET Nat /\ \A i \in D : i <= n
    OBVIOUS
  <2> HIDE DEF D
  <2> QED
    BY <2>1, FS_BoundedSetOfNaturals
<1>2. Bad \subseteq SUBSET D
  OBVIOUS
<1> HIDE DEF D
<1>3. IsWellFoundedOn(StrictSubsetOrdering(D), SUBSET D)
  BY <1>1, FS_StrictSubsetOrderingWellFounded, FS_FiniteSubsetsOfFinite
<1>4. PICK s \in Bad : \A t \in Bad : ~(<<t, s>> \in StrictSubsetOrdering(D))
  BY <1>2, <1>3, WFMin
<1>5. ASSUME NEW t \in SUBSET s, t # s PROVE t \notin Bad
  <2>1. <<t, s>> \in StrictSubsetOrdering(D)
    BY <1>2, <1>5 DEF StrictSubsetOrdering
  <2> QED
    BY <1>4, <2>1
<1> QED
  BY <1>5

-------------------------------------------------------------------------------
(* Filtering a sequence.  Among folds from the left: it is the value, for  *)
(* all positions of the sequence, of a function that recurs on them.       *)
Keep(set, kept, x) == IF x \in set THEN Append(kept, x) ELSE kept

Filters(f, set, seq, s) ==
  f = [u \in SUBSET s |-> IF u = {} THEN <<>>
                          ELSE Keep(set, f[u \ {Max(u)}], seq[Max(u)])]

LEMMA AmongUnfolds ==
  ASSUME NEW set, NEW seq
  PROVE  Among(set, seq) = (CHOOSE f : Filters(f, set, seq, DOMAIN seq))[DOMAIN seq]
<1>1. LET kept[u \in SUBSET DOMAIN seq] ==
            IF u = {} THEN <<>>
            ELSE IF seq[Max(u)] \in set THEN Append(kept[u \ {Max(u)}], seq[Max(u)])
                                        ELSE kept[u \ {Max(u)}]
      IN Among(set, seq) = kept[DOMAIN seq]
  BY DEF Among, FoldLeft, MapThenFoldSet
<1> QED
  BY <1>1 DEF Filters, Keep

(* There is such a function: one for the positions before the last extends *)
(* to one for all.                                                         *)
LEMMA FilterExists ==
  ASSUME NEW n \in Nat, NEW set, NEW seq
  PROVE  \A s \in SUBSET (1..n) : \E f : Filters(f, set, seq, s)
<1> DEFINE Bad == {s \in SUBSET (1..n) : ~ \E f : Filters(f, set, seq, s)}
<1> SUFFICES ASSUME Bad # {} PROVE FALSE
  OBVIOUS
<1>1. PICK s \in Bad : \A t \in SUBSET s : t # s => t \notin Bad
  <2>1. Bad \subseteq SUBSET (1..n)
    OBVIOUS
  <2> HIDE DEF Bad
  <2> QED
    BY <2>1, PositionsWellFounded
<1>2. s \in SUBSET (1..n) /\ ~ \E f : Filters(f, set, seq, s)
  OBVIOUS
<1>3. CASE s = {}
  <2> DEFINE f == [u \in SUBSET {} |-> <<>>]
  <2>1. f = [u \in SUBSET {} |-> IF u = {} THEN <<>>
                               ELSE Keep(set, f[u \ {Max(u)}], seq[Max(u)])]
    OBVIOUS
  <2>2. Filters(f, set, seq, {})
    BY <2>1 DEF Filters
  <2> QED
    BY <1>2, <1>3, <2>2
<1>4. CASE s # {}
  <2> DEFINE m == Max(s)
             t == s \ {m}
  <2>1. m \in s /\ \A u \in SUBSET s : m \in u => Max(u) = m
    BY <1>2, <1>4, LastOfPositions
  <2> HIDE DEF m
  <2>2. t \in SUBSET (1..n) /\ t \notin Bad
    BY <1>1, <1>2, <2>1
  <2>3. PICK g : Filters(g, set, seq, t)
    BY <2>2
  <2> DEFINE f == [u \in SUBSET s |-> IF m \in u THEN Keep(set, g[u \ {m}], seq[m])
                                              ELSE g[u]]
  <2>4. ASSUME NEW u \in SUBSET s
        PROVE  f[u] = IF u = {} THEN <<>>
                      ELSE Keep(set, f[u \ {Max(u)}], seq[Max(u)])
    <3>1. CASE m \in u
      <4>1. Max(u) = m /\ u \ {m} \in SUBSET s /\ u # {} /\ m \notin u \ {m}
        BY <2>1, <3>1
      <4>2. f[u \ {m}] = g[u \ {m}] /\ f[u] = Keep(set, g[u \ {m}], seq[m])
        BY <3>1, <4>1
      <4> HIDE DEF f
      <4> QED
        BY <4>1, <4>2
    <3>2. CASE m \notin u /\ u # {}
      <4>1. u \in SUBSET t /\ u \in SUBSET (1..n)
        BY <1>2, <3>2
      <4>2. Max(u) \in u
        BY <3>2, <4>1, LastOfPositions
      <4>3. g[u] = Keep(set, g[u \ {Max(u)}], seq[Max(u)])
        BY <2>3, <3>2, <4>1 DEF Filters
      <4>4. f[u] = g[u] /\ f[u \ {Max(u)}] = g[u \ {Max(u)}]
        BY <3>2
      <4> HIDE DEF f
      <4> QED
        BY <3>2, <4>3, <4>4
    <3>3. CASE u = {}
      <4>1. {} \in SUBSET t /\ {} \in SUBSET s
        OBVIOUS
      <4>2. g[{}] = <<>>
        BY <2>3, <4>1 DEF Filters
      <4> QED
        BY <3>3, <4>1, <4>2
    <3> QED
      BY <3>1, <3>2, <3>3
  <2>5. Filters(f, set, seq, s)
    <3>1. f = [u \in SUBSET s |-> f[u]]
      OBVIOUS
    <3> HIDE DEF f
    <3> QED
      BY <2>4, <3>1 DEF Filters
  <2> QED
    BY <1>2, <2>5
<1> QED
  BY <1>3, <1>4

(* And only one, whatever else the sequence goes on with.                  *)
LEMMA FilterIsUnique ==
  ASSUME NEW n \in Nat, NEW set, NEW seq, NEW other,
         \A i \in 1..n : seq[i] = other[i],
         NEW f, Filters(f, set, seq, 1..n),
         NEW g, Filters(g, set, other, 1..(n + 1))
  PROVE  f[1..n] = g[1..n]
<1> DEFINE s == 1..n
           all == 1..(n + 1)
<1>0. s \subseteq all /\ s \in SUBSET s
  OBVIOUS
<1> SUFFICES \A u \in SUBSET s : f[u] = g[u]
  BY <1>0
<1> DEFINE Bad == {u \in SUBSET s : f[u] # g[u]}
<1> SUFFICES ASSUME Bad # {} PROVE FALSE
  OBVIOUS
<1>1. PICK u \in Bad : \A t \in SUBSET u : t # u => t \notin Bad
  <2>1. Bad \subseteq SUBSET (1..n)
    OBVIOUS
  <2> HIDE DEF Bad
  <2> QED
    BY <2>1, PositionsWellFounded
<1>2. u \in SUBSET s /\ u \in SUBSET all /\ u \in SUBSET (1..n) /\ f[u] # g[u]
  OBVIOUS
<1>3. /\ f[u] = IF u = {} THEN <<>> ELSE Keep(set, f[u \ {Max(u)}], seq[Max(u)])
      /\ g[u] = IF u = {} THEN <<>> ELSE Keep(set, g[u \ {Max(u)}], other[Max(u)])
  <2> HIDE DEF Bad
  <2> QED
    BY <1>2 DEF Filters
<1>4. CASE u = {}
  BY <1>2, <1>3, <1>4
<1>5. CASE u # {}
  <2>1. Max(u) \in u
    BY <1>2, <1>5, LastOfPositions
  <2>2. u \ {Max(u)} \in SUBSET u /\ u \ {Max(u)} # u
    BY <2>1
  <2>3. f[u \ {Max(u)}] = g[u \ {Max(u)}]
    BY <1>1, <1>2, <2>2
  <2>4. seq[Max(u)] = other[Max(u)]
    BY <1>2, <2>1
  <2> QED
    BY <1>2, <1>3, <1>5, <2>3, <2>4
<1> QED
  BY <1>4, <1>5

LEMMA AmongNothing == ASSUME NEW set PROVE Among(set, <<>>) = <<>>
<1> DEFINE f == CHOOSE f : Filters(f, set, <<>>, {})
<1>1. \E g : Filters(g, set, <<>>, {})
  <2>1. {} \in SUBSET (1..0) /\ 0 \in Nat
    OBVIOUS
  <2> QED
    BY <2>1, FilterExists
<1>2. Filters(f, set, <<>>, {})
  BY <1>1
<1>3. DOMAIN <<>> = {}
  OBVIOUS
<1>4. Among(set, <<>>) = f[{}]
  BY <1>3, AmongUnfolds
<1> HIDE DEF f
<1> QED
  BY <1>2, <1>4 DEF Filters

(* What is appended is appended to what is kept, or left out.              *)
LEMMA AmongAppend ==
  ASSUME NEW T, NEW seq \in Seq(T), NEW x \in T, NEW set
  PROVE  Among(set, Append(seq, x)) = Keep(set, Among(set, seq), x)
<1> DEFINE n == Len(seq)
           longer == Append(seq, x)
           f == CHOOSE f : Filters(f, set, seq, 1..n)
           g == CHOOSE g : Filters(g, set, longer, 1..(n + 1))
<1>1. /\ n \in Nat /\ DOMAIN seq = 1..n /\ DOMAIN longer = 1..(n + 1)
      /\ \A i \in 1..n : seq[i] = longer[i]
      /\ longer[n + 1] = x
  OBVIOUS
<1> HIDE DEF n, longer
<1>2. Among(set, seq) = f[1..n] /\ Among(set, longer) = g[1..(n + 1)]
  BY <1>1, AmongUnfolds
<1>3. Filters(f, set, seq, 1..n)
  <2>1. \E h : Filters(h, set, seq, 1..n)
    BY <1>1, FilterExists
  <2> QED
    BY <2>1
<1>4. Filters(g, set, longer, 1..(n + 1))
  <2>1. n + 1 \in Nat
    BY <1>1
  <2>2. \E h : Filters(h, set, longer, 1..(n + 1))
    BY <2>1, FilterExists
  <2> QED
    BY <2>2
<1> HIDE DEF f, g
<1>5. f[1..n] = g[1..n]
  <2>1. n \in Nat /\ \A i \in 1..n : seq[i] = longer[i]
    BY <1>1
  <2> QED
    BY <1>3, <1>4, <2>1, FilterIsUnique
<1>6. Max(1..(n + 1)) = n + 1
  <2> DEFINE k == n + 1
  <2>1. k \in Nat /\ k # 0
    BY <1>1
  <2> HIDE DEF k
  <2>2. Max(1..k) = k
    BY <2>1, LastOfInterval
  <2> QED
    BY <2>2 DEF k
<1>7. g[1..(n + 1)] = Keep(set, g[(1..(n + 1)) \ {n + 1}], x)
  <2>1. n + 1 \in 1..(n + 1)
    <3>1. n \in Nat
      BY <1>1
    <3> QED
      BY <3>1
  <2> QED
    BY <1>1, <1>4, <1>6, <2>1 DEF Filters
<1>8. (1..(n + 1)) \ {n + 1} = 1..n
  BY <1>1
<1> QED
  BY <1>2, <1>5, <1>7, <1>8 DEF longer

(* What is kept is a sequence of members of the set, and all of them are.  *)
LEMMA AmongKeeps ==
  ASSUME NEW T, NEW seq \in Seq(T), NEW set
  PROVE  /\ Among(set, seq) \in Seq(set)
         /\ ToSet(seq) \cap set \subseteq ToSet(Among(set, seq))
<1> DEFINE n == Len(seq)
           f == CHOOSE f : Filters(f, set, seq, 1..n)
           Kept(u) == \A i \in u : seq[i] \in set => seq[i] \in ToSet(f[u])
           Bad == {u \in SUBSET (1..n) : ~(f[u] \in Seq(set) /\ Kept(u))}
<1>1. n \in Nat /\ DOMAIN seq = 1..n
  OBVIOUS
<1> HIDE DEF n
<1>2. Filters(f, set, seq, 1..n)
  <2>1. \E h : Filters(h, set, seq, 1..n)
    BY <1>1, FilterExists
  <2> QED
    BY <2>1
<1>3. Among(set, seq) = f[1..n]
  BY <1>1, AmongUnfolds
<1> HIDE DEF f
<1>4. Bad = {}
  <2> SUFFICES ASSUME Bad # {} PROVE FALSE
    OBVIOUS
  <2>1. PICK u \in Bad : \A t \in SUBSET u : t # u => t \notin Bad
    <3>1. Bad \subseteq SUBSET (1..n)
      OBVIOUS
    <3> HIDE DEF Bad
    <3> QED
      BY <1>1, <3>1, PositionsWellFounded
  <2>2. u \in SUBSET (1..n) /\ ~(f[u] \in Seq(set) /\ Kept(u))
    OBVIOUS
  <2>3. f[u] = IF u = {} THEN <<>> ELSE Keep(set, f[u \ {Max(u)}], seq[Max(u)])
    <3> HIDE DEF Bad
    <3> QED
      BY <1>2, <2>2 DEF Filters
  <2>4. CASE u = {}
    BY <2>2, <2>3, <2>4
  <2>5. CASE u # {}
    <3>1. Max(u) \in u
      BY <1>1, <2>2, <2>5, LastOfPositions
    <3>2. u \ {Max(u)} \in SUBSET u /\ u \ {Max(u)} # u
      BY <3>1
    <3>3. f[u \ {Max(u)}] \in Seq(set) /\ Kept(u \ {Max(u)})
      BY <2>1, <2>2, <3>2
    <3> DEFINE rest == f[u \ {Max(u)}]
               x    == seq[Max(u)]
    <3>4. f[u] = IF x \in set THEN Append(rest, x) ELSE rest
      BY <2>3, <2>5 DEF Keep
    <3>5. rest \in Seq(set) /\ \A i \in u : i = Max(u) \/ i \in u \ {Max(u)}
      BY <3>3
    <3>6. \A i \in u : seq[i] \in set =>
            (i = Max(u) /\ seq[i] = x) \/ seq[i] \in ToSet(rest)
      BY <3>3, <3>5
    <3> HIDE DEF rest, x
    <3>7. CASE x \in set
      <4>1. f[u] = Append(rest, x) /\ f[u] \in Seq(set)
        BY <3>4, <3>5, <3>7
      <4>2. ToSet(f[u]) = ToSet(rest) \cup {x}
        <5>1. /\ DOMAIN Append(rest, x) = DOMAIN rest \cup {Len(rest) + 1}
              /\ \A i \in DOMAIN rest : Append(rest, x)[i] = rest[i]
              /\ Append(rest, x)[Len(rest) + 1] = x
          BY <3>5
        <5> QED
          BY <4>1, <5>1 DEF ToSet
      <4> QED
        BY <2>2, <3>6, <4>1, <4>2
    <3>8. CASE x \notin set
      <4>1. f[u] = rest
        BY <3>4, <3>8
      <4>2. \A i \in u : seq[i] \in set => seq[i] \in ToSet(f[u])
        BY <3>6, <3>8, <4>1
      <4> QED
        BY <2>2, <3>5, <4>1, <4>2
    <3> QED
      BY <3>7, <3>8
  <2> QED
    BY <2>4, <2>5
<1>5. 1..n \in SUBSET (1..n)
  OBVIOUS
<1>6. f[1..n] \in Seq(set) /\ \A i \in 1..n : seq[i] \in set => seq[i] \in ToSet(f[1..n])
  BY <1>4, <1>5
<1> QED
  BY <1>1, <1>3, <1>6 DEF ToSet

LEMMA AmongIsSequence ==
  ASSUME NEW T, NEW seq \in Seq(T), NEW set
  PROVE  Among(set, seq) \in Seq(set)
  BY AmongKeeps
===============================================================================
