---------------------------- MODULE AgentLoopProofs ---------------------------
(***************************************************************************)
(* Theorems about AgentLoop that hold for every set of calls and replies,  *)
(* every budget and every deadline.                                        *)
(***************************************************************************)
EXTENDS AgentLoop, SequenceLemmas

-------------------------------------------------------------------------------
(* The filing of rows, for replies of any length.                          *)

(* Every row is of one of the three kinds and is filed by it.              *)
LEMMA EveryRowIsFiled ==
  ASSUME NEW rows \in Seq(Row), rows # <<>>,
         NEW P, NEW S, NEW R
  PROVE  AnyData(AbsorbProducts(P, rows),
                 AbsorbSuppliers(S, rows),
                 AbsorbRecords(R, rows))
<1>1. 1 \in DOMAIN rows /\ rows[1] \in Row
  OBVIOUS
<1>2. CASE IsProductRow(rows[1])
  <2>1. rows[1].product_id \in ProductsIn(rows)
    BY <1>1, <1>2 DEF ProductsIn, ProductRowsOf, IsProductRow, Row
  <2> QED
    BY <2>1 DEF AnyData, AbsorbProducts
<1>3. CASE IsSupplierRow(rows[1])
  <2>1. rows[1].supplier_id \in SuppliersIn(rows)
    BY <1>1, <1>3 DEF SuppliersIn, SupplierRowsOf, IsSupplierRow, Row
  <2> QED
    BY <2>1 DEF AnyData, AbsorbSuppliers
<1>4. CASE IsOtherRow(rows[1])
  BY <1>1, <1>4 DEF AnyData, AbsorbRecords
<1> QED
  BY <1>2, <1>3, <1>4 DEF IsProductRow, IsSupplierRow, IsOtherRow

(* Filing nothing changes no bucket's keys.                                *)
LEMMA NothingToFile ==
  ASSUME NEW P, NEW S, NEW R
  PROVE  /\ DOMAIN AbsorbProducts(P, <<>>) = DOMAIN P
         /\ DOMAIN AbsorbSuppliers(S, <<>>) = DOMAIN S
         /\ AbsorbRecords(R, <<>>) = R
<1>1. DOMAIN <<>> = {}
  OBVIOUS
<1>2. /\ \A p : ProductRowsOf(<<>>, p) = {}
      /\ \A s : SupplierRowsOf(<<>>, s) = {} /\ NamingRowsOf(<<>>, s) = {}
  BY <1>1 DEF ProductRowsOf, SupplierRowsOf, NamingRowsOf
<1>3. ProductsIn(<<>>) = {} /\ SuppliersIn(<<>>) = {}
  BY <1>2 DEF ProductsIn, SuppliersIn
<1> QED
  BY <1>1, <1>3 DEF AbsorbProducts, AbsorbSuppliers, AbsorbRecords

(* The rows are represented in the buckets by their keys.                  *)
FiledIn(P, S, R, rows) ==
  /\ ProductsIn(rows) \subseteq DOMAIN P
  /\ SuppliersIn(rows) \subseteq DOMAIN S
  /\ \A i \in DOMAIN rows : IsOtherRow(rows[i]) => rows[i] \in R

(* What was filed stays filed, whatever is filed next, and what was just   *)
(* filed is filed.                                                         *)
LEMMA FilingIsLasting ==
  ASSUME NEW P, NEW S, NEW R, NEW rows
  PROVE  LET p == AbsorbProducts(P, rows)
             s == AbsorbSuppliers(S, rows)
             r == AbsorbRecords(R, rows)
         IN /\ FiledIn(p, s, r, rows)
            /\ \A other : FiledIn(P, S, R, other)
                            => FiledIn(p, s, r, other)
  BY DEF FiledIn, AbsorbProducts, AbsorbSuppliers, AbsorbRecords

(* Filing again what is filed adds no key and no record.                   *)
LEMMA FilingAgainAddsNothing ==
  ASSUME NEW P, NEW S, NEW R, NEW rows,
         FiledIn(P, S, R, rows)
  PROVE  /\ DOMAIN AbsorbProducts(P, rows) = DOMAIN P
         /\ DOMAIN AbsorbSuppliers(S, rows) = DOMAIN S
         /\ AbsorbRecords(R, rows) = R
  BY DEF FiledIn, AbsorbProducts, AbsorbSuppliers, AbsorbRecords

-------------------------------------------------------------------------------
(* Types.                                                                  *)

(* The sequences that appear in a turn.                                    *)
LEMMA TurnsAreSequences ==
  ASSUME NEW calls \in Turns
  PROVE  /\ calls \in Seq(Calls) /\ calls # <<>>
         /\ Len(calls) \in 1..MaxCalls
<1>1. PICK n \in 1..MaxCalls : calls \in [1..n -> Calls]
  BY DEF Turns
<1>2. n \in Nat /\ n >= 1
  BY <1>1, LoopAssumption
<1>3. calls \in Seq(Calls) /\ Len(calls) = n
  BY <1>1, <1>2
<1> QED
  BY <1>1, <1>2, <1>3

LEMMA FailureIsResult == Failure \in Result
  BY DEF Failure, Result

LEMMA OutcomesAreResults ==
  ASSUME NEW c \in Calls
  PROVE  Outcomes(c) \subseteq Result
<1>1. \A rows \in Replies : [success |-> TRUE, rows |-> rows] \in Result
  BY LoopAssumption DEF Result
<1> QED
  BY <1>1, FailureIsResult DEF Outcomes

LEMMA TimeOfBounded ==
  ASSUME NEW c \in Calls
  PROVE  TimeOf(c) \subseteq 0..CallTime
  BY LoopAssumption DEF TimeOf

(* What executing or replaying a call does to the typed part of the state. *)
LEMMA ObserveKeepsTypes ==
  ASSUME TypeOK, pc = "execute", NEW call, call = Head(pending),
         NEW result \in Result, Observe(call, result)
  PROVE  /\ pc' \in {"loop", "calls"}
         /\ pending' \in Seq(Calls) /\ Len(pending') = Len(pending) - 1
         /\ pc' = "calls" => pending' # <<>>
         /\ messages' \in Seq(Message)
         /\ events' \in Seq(Event)
         /\ toolCalls' \in Seq([call : Calls, success : BOOLEAN])
<1>1. pending \in Seq(Calls) /\ pending # <<>> /\ call \in Calls
  BY DEF TypeOK
<1>2. Reply(call) \in Message
  BY <1>1 DEF Reply, Message
<1>3. pending' = Tail(pending) /\ Len(Tail(pending)) = Len(pending) - 1
      /\ Tail(pending) \in Seq(Calls)
  BY <1>1 DEF Observe, Remaining, Recorded
<1>4. messages' \in Seq(Message)
  BY <1>2 DEF Observe, Remaining, Recorded, TypeOK
<1>5. events' \in Seq(Event)
  BY DEF Observe, Remaining, Recorded, TypeOK, Event
<1>6. toolCalls' \in Seq([call : Calls, success : BOOLEAN])
  BY <1>1 DEF Observe, Remaining, Recorded, TypeOK, Result
<1> QED
  BY <1>3, <1>4, <1>5, <1>6 DEF Observe, Remaining, Recorded

LEMMA MessageTypes ==
  /\ Say("system") \in Message /\ Say("user") \in Message
  /\ \A calls \in Seq(Calls) : Ask(calls) \in Message
  BY DEF Say, Ask, Message

(* The type invariant is inductive: no step of the run leaves it.          *)
LEMMA TypeInductive == TypeOK /\ [Next]_vars => TypeOK'
<1> SUFFICES ASSUME TypeOK, [Next]_vars PROVE TypeOK'
  OBVIOUS
<1> USE LoopAssumption
<1>0. Reason => /\ pc = "loop" /\ step' \in 0..MaxSteps
                /\ chats' \in Nat /\ chatAt' \in Nat /\ elapsed' \in Nat
                /\ idle' = idle
  BY DEF Reason, Chat, TypeOK, BudgetSpent
<1>1. CASE Exhaust
  BY <1>1 DEF Exhaust, TypeOK, Event, Waiting, vars, buckets, outcome, clock
<1>2. CASE Expire
  BY <1>2 DEF Expire, TypeOK, Event, Waiting, BudgetSpent, buckets, outcome, clock
<1>3. CASE ModelFails
  BY <1>0, <1>3 DEF ModelFails, TypeOK, Event, Waiting, Terminal
<1>4. CASE ModelRaises
  BY <1>0, <1>4 DEF ModelRaises, TypeOK, Waiting, Terminal, outcome
<1>5. CASE EmptyReply
  BY <1>0, <1>5, MessageTypes DEF EmptyReply, TypeOK, Event, outcome
<1>6. CASE \E text \in {"text", "blank"} : FinishTurn(text)
  BY <1>0, <1>6 DEF FinishTurn, Verdict, TypeOK, Event, Waiting
<1>7. CASE \E calls \in Turns : CallTurn(calls)
  <2>1. PICK calls \in Turns : CallTurn(calls)
    BY <1>7
  <2>2. calls \in Seq(Calls) /\ calls # <<>> /\ Len(calls) <= MaxCalls
        /\ Ask(calls) \in Message
    BY TurnsAreSequences, MessageTypes
  <2> QED
    BY <1>0, <2>1, <2>2 DEF CallTurn, TypeOK, Event, Waiting, outcome
<1>8. CASE StartCall
  BY <1>8 DEF StartCall, TypeOK, Event, Waiting, outcome, clock
<1>9. CASE ReplayCall
  <2> DEFINE call == Head(pending)
             result == seen[call]
  <2>1. result \in Result /\ Observe(call, result)
    BY <1>9 DEF ReplayCall, Repeated, TypeOK
  <2>2. /\ pc' \in {"loop", "calls"}
        /\ pending' \in Seq(Calls) /\ Len(pending') = Len(pending) - 1
        /\ pc' = "calls" => pending' # <<>>
        /\ messages' \in Seq(Message)
        /\ events' \in Seq(Event)
        /\ toolCalls' \in Seq([call : Calls, success : BOOLEAN])
    <3> HIDE DEF call, result
    <3>1. call = Head(pending) /\ pc = "execute"
      BY <1>9 DEF ReplayCall, call
    <3> QED
      BY <2>1, <3>1, ObserveKeepsTypes
  <2>3. UNCHANGED <<step, nudged, trace, status, answer, error, idle, chats,
                    chatAt, seen, elapsed, sent>>
    BY <1>9, <2>1 DEF ReplayCall, Observe, Remaining, Recorded, outcome
  <2>4. Len(pending') <= MaxCalls
    BY <2>2 DEF TypeOK
  <2> HIDE DEF call, result
  <2> QED
    BY <2>2, <2>3, <2>4 DEF TypeOK, Waiting
<1>10. CASE ExecuteCall
  <2> DEFINE call == Head(pending)
  <2>1. pc = "execute" /\ call \in Calls
    BY <1>10 DEF ExecuteCall, TypeOK
  <2>2. PICK result \in Outcomes(call), d \in TimeOf(call) :
          /\ seen' = [c \in DOMAIN seen \cup {call} |->
                        IF c = call THEN result ELSE seen[c]]
          /\ elapsed' = elapsed + d
          /\ Observe(call, result)
    BY <1>10 DEF ExecuteCall
  <2>3. result \in Result /\ d \in Nat
    BY <2>1, <2>2, OutcomesAreResults, TimeOfBounded
  <2>4. /\ pc' \in {"loop", "calls"}
        /\ pending' \in Seq(Calls) /\ Len(pending') = Len(pending) - 1
        /\ pc' = "calls" => pending' # <<>>
        /\ messages' \in Seq(Message)
        /\ events' \in Seq(Event)
        /\ toolCalls' \in Seq([call : Calls, success : BOOLEAN])
    <3> HIDE DEF call
    <3>1. call = Head(pending)
      BY DEF call
    <3> QED
      BY <2>1, <2>2, <2>3, <3>1, ObserveKeepsTypes
  <2>5. DOMAIN seen' \subseteq Calls /\ \A c \in DOMAIN seen' : seen'[c] \in Result
    <3> HIDE DEF call
    <3> QED
      BY <2>1, <2>2, <2>3 DEF TypeOK
  <2>6. sent' \in [Calls -> Nat]
    BY <1>10, <2>1 DEF ExecuteCall, TypeOK
  <2>7. elapsed' \in Nat
    BY <2>2, <2>3 DEF TypeOK
  <2>8. UNCHANGED <<step, nudged, trace, status, answer, error, idle, chats,
                    chatAt>>
    BY <2>2 DEF Observe, Remaining, Recorded, outcome
  <2>9. Len(pending') <= MaxCalls
    BY <2>4 DEF TypeOK
  <2> HIDE DEF call
  <2> QED
    BY <2>4, <2>5, <2>6, <2>7, <2>8, <2>9 DEF TypeOK, Waiting
<1>11. CASE CallRaises
  <2>1. Head(pending) \in Calls
    BY <1>11 DEF CallRaises, TypeOK
  <2>2. sent' \in [Calls -> Nat] /\ elapsed' \in Nat
    <3>1. PICK d \in TimeOf(Head(pending)) : elapsed' = elapsed + d
      BY <1>11 DEF CallRaises
    <3>2. d \in Nat
      BY <2>1, <3>1, TimeOfBounded
    <3>3. sent' \in [Calls -> Nat]
      BY <1>11, <2>1 DEF CallRaises, TypeOK
    <3> QED
      BY <3>1, <3>2, <3>3 DEF TypeOK
  <2> QED
    BY <1>11, <2>2 DEF CallRaises, TypeOK, Terminal, outcome
<1>12. CASE Summarize
  <2>1. messages' \in Seq(Message)
    BY <1>12, MessageTypes DEF Summarize, TypeOK
  <2>2. chats' \in Nat /\ chatAt' \in Nat /\ elapsed' \in Nat /\ idle' = idle
    BY <1>12 DEF Summarize, Chat, TypeOK
  <2>3. /\ pc' \in Waiting \cup Terminal /\ pc' \notin {"calls", "execute"}
        /\ UNCHANGED <<step, nudged, pending, toolCalls, seen, status, error,
                       sent>>
    BY <1>12 DEF Summarize, Waiting, Terminal
  <2>4. /\ answer' \in {"none", "text", "blank"}
        /\ trace' \in Seq({"call_tool", "finish", "forced_finish"})
        /\ events' \in Seq(Event)
    <3>1. \/ /\ answer' = "text"
             /\ trace' = Append(trace, "forced_finish")
             /\ events' = Append(events, "finished")
          \/ UNCHANGED <<answer, trace, events>>
      BY <1>12 DEF Summarize
    <3>2. "finished" \in Event
      BY DEF Event
    <3>3. CASE UNCHANGED <<answer, trace, events>>
      BY <3>3 DEF TypeOK
    <3>4. CASE ~ UNCHANGED <<answer, trace, events>>
      <4>1. events \in Seq(Event)
            /\ trace \in Seq({"call_tool", "finish", "forced_finish"})
        BY DEF TypeOK
      <4>2. Append(events, "finished") \in Seq(Event)
        BY <3>2, <4>1
      <4>3. Append(trace, "forced_finish")
              \in Seq({"call_tool", "finish", "forced_finish"})
        BY <4>1
      <4> QED
        BY <3>1, <3>4, <4>2, <4>3
    <3> QED
      BY <3>3, <3>4
  <2> QED
    BY <2>1, <2>2, <2>3, <2>4 DEF TypeOK
<1>13. CASE YieldFinal
  BY <1>13 DEF YieldFinal, Delivers, TypeOK, Terminal, outcome, clock
<1>14. CASE Idle
  BY <1>14 DEF Idle, TypeOK, outcome
<1>15. CASE Abandon
  BY <1>15 DEF Abandon, TypeOK, Terminal, outcome, clock
<1>16. CASE Ended \/ UNCHANGED vars
  BY <1>16 DEF Ended, TypeOK, vars, outcome, clock
<1> QED
  BY <1>1, <1>2, <1>3, <1>4, <1>5, <1>6, <1>7, <1>8, <1>9, <1>10, <1>11,
     <1>12, <1>13, <1>14, <1>15, <1>16 DEF Next, Agent, Turn, Tool

(* Every reachable state of a run has the declared types; in particular    *)
(* the step counter never passes the budget and a tool call is only ever   *)
(* started while one is pending.                                           *)
THEOREM TypeCorrect == Spec => []TypeOK
<1>1. Init => TypeOK
  <2> SUFFICES ASSUME Init PROVE TypeOK
    OBVIOUS
  <2>1. messages \in Seq(Message) /\ events \in Seq(Event)
    BY MessageTypes DEF Init, Event
  <2>2. DOMAIN seen \subseteq Calls /\ \A c \in DOMAIN seen : seen[c] \in Result
    BY DEF Init, NoRows
  <2>3. pending \in Seq(Calls) /\ Len(pending) <= MaxCalls
    BY LoopAssumption DEF Init
  <2>4. /\ trace \in Seq({"call_tool", "finish", "forced_finish"})
        /\ toolCalls \in Seq([call : Calls, success : BOOLEAN])
    BY DEF Init
  <2>5. step \in 0..MaxSteps /\ idle \in 0..IdleTime
    BY LoopAssumption DEF Init
  <2> QED
    BY <2>1, <2>2, <2>3, <2>4, <2>5 DEF Init, TypeOK, Waiting
<1> QED
  BY <1>1, TypeInductive, PTL DEF Spec

-------------------------------------------------------------------------------
(* The outcome fields, at every point of a run: undecided while the loop   *)
(* runs, cut off with a reason, or decided in line with what was found.    *)
OutcomeInv ==
  /\ pc \in {"loop", "calls", "execute"} =>
       status = "incomplete" /\ answer = "none" /\ error = "none"
  /\ pc = "cut" => /\ status = "incomplete" /\ answer = "none"
                   /\ error \in {"budget", "deadline"}
  /\ pc \in {"finish", "done"} =>
       \/ status = "complete" /\ HasData /\ error = "none" /\ answer # "none"
       \/ status = "no_results" /\ ~HasData /\ error = "none" /\ answer # "none"
       \/ status = "error" /\ error = "model" /\ answer = "none"
       \/ /\ status = "incomplete" /\ error \in {"budget", "deadline"}
          /\ answer # "none" => HasData

(* OutcomeInv is inductive by itself.                                      *)
LEMMA OutcomeInductive == OutcomeInv /\ [Next]_vars => OutcomeInv'
<1> SUFFICES ASSUME OutcomeInv, [Next]_vars PROVE OutcomeInv'
  OBVIOUS
<1>0. UNCHANGED buckets => (HasData' <=> HasData)
  BY DEF buckets, HasData, AnyData
<1>1. CASE Exhaust
  BY <1>1 DEF Exhaust, OutcomeInv
<1>2. CASE Expire
  BY <1>2 DEF Expire, OutcomeInv
<1>3. CASE ModelFails
  BY <1>3 DEF ModelFails, Reason, OutcomeInv
<1>4. CASE ModelRaises
  BY <1>4 DEF ModelRaises, OutcomeInv
<1>5. CASE EmptyReply
  BY <1>5 DEF EmptyReply, Reason, OutcomeInv, outcome
<1>6. CASE \E text \in {"text", "blank"} : FinishTurn(text)
  BY <1>0, <1>6 DEF FinishTurn, Verdict, Reason, OutcomeInv
<1>7. CASE \E calls \in Turns : CallTurn(calls)
  BY <1>7 DEF CallTurn, Reason, OutcomeInv, outcome
<1>8. CASE StartCall
  BY <1>8 DEF StartCall, OutcomeInv, outcome
<1>9. CASE ReplayCall \/ ExecuteCall
  <2>1. /\ pc = "execute" /\ pc' \in {"loop", "calls"}
        /\ UNCHANGED outcome
    BY <1>9 DEF ReplayCall, ExecuteCall, Observe, Remaining, Recorded
  <2> QED
    BY <2>1 DEF OutcomeInv, outcome
<1>10. CASE CallRaises
  BY <1>10 DEF CallRaises, OutcomeInv
<1>11. CASE Summarize
  <2>1. UNCHANGED <<buckets, status, error>> /\ pc = "cut" /\ HasData
        /\ pc' \in {"finish", "done", "raised"}
    BY <1>11 DEF Summarize, WantsSummary
  <2> QED
    BY <1>0, <2>1 DEF OutcomeInv
<1>12. CASE YieldFinal
  <2>1. UNCHANGED <<buckets, status, answer, error>> /\ pc' = "done"
        /\ pc \in {"finish", "cut"}
    BY <1>12 DEF YieldFinal, Delivers, outcome
  <2> QED
    BY <1>0, <2>1 DEF OutcomeInv
<1>13. CASE Idle
  BY <1>0, <1>13 DEF Idle, OutcomeInv, outcome
<1>14. CASE Abandon
  BY <1>14 DEF Abandon, OutcomeInv
<1>15. CASE Ended \/ UNCHANGED vars
  BY <1>0, <1>15 DEF Ended, OutcomeInv, vars, outcome
<1> QED
  BY <1>1, <1>2, <1>3, <1>4, <1>5, <1>6, <1>7, <1>8, <1>9, <1>10, <1>11,
     <1>12, <1>13, <1>14, <1>15 DEF Next, Agent, Turn, Tool

LEMMA OutcomeInitially == Init => OutcomeInv
  BY DEF Init, OutcomeInv

(* The final result never contradicts itself: status, answer, error and    *)
(* the presence of data fit together in every run that delivers one.       *)
THEOREM OutcomeIsConsistent == Spec => []OutcomeConsistent
<1>1. OutcomeInv => OutcomeConsistent
  BY DEF OutcomeInv, OutcomeConsistent
<1> QED
  BY <1>1, OutcomeInitially, OutcomeInductive, PTL DEF Spec

-------------------------------------------------------------------------------
(* Model calls: at most one per step begun, and one more only to summarize *)
(* data after a cut.                                                       *)
BudgetInv ==
  /\ pc \in {"loop", "calls", "execute", "cut"} => chats <= step
  /\ BudgetBound

(* BudgetInv is inductive relative to the types and the outcome.           *)
LEMMA BudgetInductive ==
  TypeOK /\ OutcomeInv /\ BudgetInv /\ [Next]_vars => BudgetInv'
<1> SUFFICES ASSUME TypeOK, OutcomeInv, BudgetInv, [Next]_vars PROVE BudgetInv'
  OBVIOUS
<1> USE DEF BudgetInv, BudgetBound
<1>0. UNCHANGED buckets => (HasData' <=> HasData)
  BY DEF buckets, HasData, AnyData
<1>1. CASE Exhaust \/ Expire
  <2>1. /\ pc = "loop" /\ chats' = chats
        /\ step' = step \/ step' = step + 1
    BY <1>1 DEF Exhaust, Expire
  <2>2. step \in Int /\ chats \in Int /\ chats <= step
    BY <2>1, LoopAssumption DEF TypeOK
  <2>3. chats' <= step'
    BY <2>1, <2>2
  <2>4. chats' <= step' + 1 /\ ~(chats' > step')
    BY <2>1, <2>2
  <2> QED
    BY <2>3, <2>4
<1>2. CASE Turn
  <2>1. pc = "loop" /\ chats' = chats + 1 /\ step' = step + 1
    BY <1>2 DEF Turn, ModelFails, ModelRaises, EmptyReply, FinishTurn, Verdict, CallTurn,
                Reason, Chat
  <2> QED
    BY <2>1 DEF TypeOK
<1>3. CASE Tool
  <2>1. /\ pc \in {"calls", "execute"}
        /\ chats' = chats /\ step' = step
    BY <1>3 DEF Tool, StartCall, ReplayCall, ExecuteCall, CallRaises, Observe, Remaining, Recorded
  <2> QED
    BY <2>1 DEF TypeOK
<1>4. CASE Summarize
  <2>1. /\ pc = "cut" /\ pc' \in {"finish", "done", "raised"} /\ HasData
        /\ chats' = chats + 1 /\ UNCHANGED <<step, buckets, status>>
    BY <1>4 DEF Summarize, WantsSummary, Chat
  <2> QED
    BY <1>0, <2>1 DEF TypeOK, OutcomeInv
<1>5. CASE YieldFinal \/ Idle \/ Abandon \/ Ended \/ UNCHANGED vars
  <2>1. /\ UNCHANGED <<chats, step, status, buckets>>
        /\ pc' \in {pc, "done", "abandoned"}
    BY <1>5 DEF YieldFinal, Delivers, Idle, Abandon, Ended, vars, outcome
  <2> QED
    BY <1>0, <2>1
<1> QED
  BY <1>1, <1>2, <1>3, <1>4, <1>5 DEF Next, Agent

(* The step budget bounds the model calls of every run: one per step, and  *)
(* one summary only if the run was cut off with data in hand.              *)
THEOREM BudgetIsBounded == Spec => []BudgetBound
<1>1. Init => BudgetInv
  BY DEF Init, BudgetInv, BudgetBound
<1>2. BudgetInv => BudgetBound
  BY DEF BudgetInv
<1> QED
  BY <1>1, <1>2, BudgetInductive, OutcomeInitially, OutcomeInductive,
     TypeCorrect, PTL DEF Spec

-------------------------------------------------------------------------------
(* Multiplication the solver does not do by itself.                        *)
LEMMA TimesSucc ==
  ASSUME NEW n \in Nat, NEW k \in Nat, n >= 1
  PROVE  (n - 1) * k \in Nat /\ n * k = (n - 1) * k + k
  OBVIOUS

LEMMA TimesMono ==
  ASSUME NEW m \in Nat, NEW n \in Nat, NEW k \in Nat, m <= n
  PROVE  m * k <= n * k /\ m * k \in Nat /\ n * k \in Nat
<1>1. n = m + (n - m) /\ n - m \in Nat
  OBVIOUS
<1>2. n * k = m * k + (n - m) * k
  BY <1>1
<1>3. (n - m) * k \in Nat /\ m * k \in Nat
  BY <1>1
<1> QED
  BY <1>2, <1>3

(* The clock at every point of a run: the calls of a turn that are still   *)
(* pending have their time set aside.                                      *)
OneTurn == Deadline + idle + ChatTime + MaxCalls * CallTime

ClockInv ==
  /\ pc \in {"loop", "cut"} => elapsed <= OneTurn
  /\ pc \in {"calls", "execute"} =>
       elapsed + Len(pending) * CallTime <= OneTurn
  /\ WallClockBound

(* ClockInv is inductive relative to the types.                            *)
LEMMA ClockInductive == TypeOK /\ ClockInv /\ [Next]_vars => ClockInv'
<1> SUFFICES ASSUME TypeOK, ClockInv, [Next]_vars PROVE ClockInv'
  OBVIOUS
<1> DEFINE Most == MaxCalls * CallTime
<1>c. /\ Deadline \in Nat /\ ChatTime \in Nat /\ CallTime \in Nat
      /\ MaxCalls \in Nat /\ Most \in Nat
  BY LoopAssumption
<1>t. elapsed \in Nat /\ idle \in Nat
  BY LoopAssumption DEF TypeOK
<1>b. elapsed <= Deadline + idle + 2 * ChatTime + Most
  BY DEF ClockInv, WallClockBound
<1>g. ASSUME UNCHANGED idle, elapsed' <= OneTurn, elapsed' \in Nat,
             pc' \notin {"calls", "execute"}
      PROVE  ClockInv'
  BY <1>g, <1>c, <1>t DEF ClockInv, OneTurn, WallClockBound
<1>1. CASE Exhaust \/ Expire
  <2>1. pc = "loop" /\ UNCHANGED <<elapsed, idle>> /\ pc' = "cut"
    BY <1>1 DEF Exhaust, Expire, clock
  <2> QED
    BY <1>g, <1>t, <2>1 DEF ClockInv
<1>2. CASE Turn
  <2>1. Reason
    BY <1>2 DEF Turn, ModelFails, ModelRaises, EmptyReply, FinishTurn, Verdict, CallTurn
  <2>2. /\ elapsed' \in Nat /\ elapsed' <= Deadline + ChatTime
        /\ UNCHANGED idle
    BY <2>1, <1>c, <1>t DEF Reason, Chat, DeadlineGone
  <2>3. elapsed' <= OneTurn
    BY <2>2, <1>c, <1>t DEF OneTurn
  <2>4. CASE \E calls \in Turns : CallTurn(calls)
    <3>1. PICK calls \in Turns : CallTurn(calls)
      BY <2>4
    <3>2. Len(calls) \in Nat /\ Len(calls) <= MaxCalls
      BY TurnsAreSequences, <1>c
    <3>3. Len(calls) * CallTime <= Most /\ Len(calls) * CallTime \in Nat
      BY <3>2, <1>c, TimesMono
    <3>4. pc' = "calls" /\ pending' = calls
      BY <3>1 DEF CallTurn
    <3> DEFINE Cost == Len(calls) * CallTime
    <3>5. Cost = Len(pending') * CallTime
      BY <3>4
    <3> HIDE DEF Cost, Most
    <3> QED
      BY <2>2, <3>3, <3>4, <3>5, <1>c, <1>t
         DEF ClockInv, OneTurn, WallClockBound, Cost, Most
  <2>5. CASE ~ \E calls \in Turns : CallTurn(calls)
    <3>1. pc' \notin {"calls", "execute"}
      BY <1>2, <2>1, <2>5 DEF Turn, ModelFails, ModelRaises, EmptyReply,
                              FinishTurn, Verdict, Reason
    <3> QED
      BY <1>g, <2>2, <2>3, <3>1
  <2> QED
    BY <2>4, <2>5
<1>3. CASE StartCall
  <2>1. pc = "calls" /\ pc' = "execute" /\ UNCHANGED <<elapsed, idle, pending>>
    BY <1>3 DEF StartCall, clock
  <2> QED
    BY <2>1 DEF ClockInv, OneTurn, WallClockBound
<1>4. CASE ReplayCall \/ ExecuteCall \/ CallRaises
  <2> DEFINE Before == Len(pending) * CallTime
             Rest == (Len(pending) - 1) * CallTime
  <2>1. pending \in Seq(Calls) /\ pending # <<>> /\ Head(pending) \in Calls
    BY <1>4 DEF ReplayCall, ExecuteCall, CallRaises, TypeOK
  <2>2. Len(pending) \in Nat /\ Len(pending) >= 1
    BY <2>1
  <2>3. Rest \in Nat /\ Before = Rest + CallTime
    BY <2>2, <1>c, TimesSucc
  <2>4. \E d \in 0..CallTime : elapsed' = elapsed + d
    <3>1. CASE ReplayCall
      BY <3>1, <1>c, <1>t DEF ReplayCall
    <3>2. CASE ExecuteCall \/ CallRaises
      <4>1. \E d \in TimeOf(Head(pending)) : elapsed' = elapsed + d
        BY <3>2 DEF ExecuteCall, CallRaises
      <4> QED
        BY <4>1, <2>1, TimeOfBounded
    <3> QED
      BY <1>4, <3>1, <3>2
  <2>5. /\ UNCHANGED idle /\ pc = "execute"
        /\ \/ pc' = "raised"
           \/ /\ pc' \in {"loop", "calls"} /\ pending' = Tail(pending)
    BY <1>4 DEF ReplayCall, ExecuteCall, CallRaises, Observe, Remaining, Recorded
  <2>6. elapsed + Before <= Deadline + idle + ChatTime + Most
    BY <2>5 DEF ClockInv, OneTurn
  <2>7. elapsed' \in Nat /\ elapsed' + Rest <= Deadline + idle + ChatTime + Most
    <3> HIDE DEF Before, Rest, Most
    <3> QED
      BY <2>3, <2>4, <2>6, <1>c, <1>t
  <2>8. elapsed' <= OneTurn
    <3>1. elapsed' <= Deadline + idle + ChatTime + Most
      <4>1. \A a, r, x \in Nat : a + r <= x => a <= x
        OBVIOUS
      <4>2. Deadline + idle + ChatTime + Most \in Nat
        <5> HIDE DEF Most
        <5> QED
          BY <1>c, <1>t
      <4> HIDE DEF Before, Rest, Most
      <4> QED
        BY <2>3, <2>7, <4>1, <4>2
    <3> QED
      BY <3>1 DEF OneTurn
  <2>9. CASE pc' = "calls"
    <3>1. Len(pending') = Len(pending) - 1
      BY <2>1, <2>5, <2>9
    <3>2. Len(pending') * CallTime = Rest
      BY <3>1
    <3>3. elapsed' + Len(pending') * CallTime <= OneTurn'
      BY <2>5, <2>7, <3>2 DEF OneTurn
    <3>4. WallClockBound'
      BY <2>5, <2>7, <2>8, <1>c, <1>t DEF OneTurn, WallClockBound
    <3> QED
      BY <2>9, <3>3, <3>4 DEF ClockInv
  <2> QED
    BY <1>g, <2>5, <2>7, <2>8, <2>9
<1>5. CASE Summarize
  <2>1. /\ pc = "cut" /\ pc' \in {"finish", "done", "raised"} /\ UNCHANGED idle
        /\ \E d \in 0..ChatTime : elapsed' = elapsed + d
    BY <1>5 DEF Summarize, Chat
  <2> HIDE DEF Most
  <2> QED
    BY <2>1, <1>c, <1>t DEF ClockInv, OneTurn, WallClockBound, Most
<1>6. CASE Idle
  <2>1. /\ elapsed' = elapsed + 1 /\ idle' = idle + 1
        /\ UNCHANGED <<pc, pending>>
    BY <1>6 DEF Idle
  <2> DEFINE Cost == Len(pending) * CallTime
  <2>2. pc \in {"calls", "execute"} => Cost \in Nat
    <3>1. Len(pending) \in Nat
      BY DEF TypeOK
    <3> QED
      BY <3>1, <1>c
  <2>3. Cost' = Cost
    BY <2>1
  <2> HIDE DEF Cost, Most
  <2> QED
    BY <2>1, <2>2, <2>3, <1>c, <1>t
       DEF ClockInv, OneTurn, WallClockBound, Cost, Most
<1>7. CASE YieldFinal \/ Abandon \/ Ended \/ UNCHANGED vars
  <2>1. /\ UNCHANGED <<elapsed, idle>>
        /\ \/ pc' \in {"done", "abandoned"}
           \/ UNCHANGED <<pc, pending>>
    BY <1>7 DEF YieldFinal, Delivers, Abandon, Ended, vars, clock
  <2> QED
    BY <2>1 DEF ClockInv, OneTurn, WallClockBound
<1> QED
  BY <1>1, <1>2, <1>3, <1>4, <1>5, <1>6, <1>7 DEF Next, Agent, Tool

(* However slow the model and the tools are within their timeouts, a run   *)
(* overshoots its deadline by at most one full turn, one summary and what  *)
(* its consumer idled.                                                     *)
THEOREM WallClockIsBounded == Spec => []WallClockBound
<1>1. Init => ClockInv
  <2>1. MaxCalls * CallTime \in Nat
    BY LoopAssumption
  <2> QED
    BY <2>1, LoopAssumption DEF Init, ClockInv, OneTurn, WallClockBound
<1>2. ClockInv => WallClockBound
  BY DEF ClockInv
<1> QED
  BY <1>1, <1>2, ClockInductive, TypeCorrect, PTL DEF Spec

-------------------------------------------------------------------------------
(* A call that was sent is remembered, unless sending it ended the run.    *)
SentInv ==
  /\ OncePerCall
  /\ pc # "raised" => \A c \in Calls : sent[c] > 0 => c \in DOMAIN seen

(* SentInv is inductive relative to the types.                             *)
LEMMA SentInductive == TypeOK /\ SentInv /\ [Next]_vars => SentInv'
<1> SUFFICES ASSUME TypeOK, SentInv, [Next]_vars PROVE SentInv'
  OBVIOUS
<1> USE DEF SentInv, OncePerCall
<1>1. CASE Exhaust \/ Expire \/ StartCall \/ Summarize \/ YieldFinal \/ Idle
           \/ Abandon \/ Ended \/ UNCHANGED vars
  <2>1. UNCHANGED <<sent, seen>> /\ (pc = "raised" => pc' = "raised")
    BY <1>1 DEF Exhaust, Expire, StartCall, Summarize, YieldFinal, Delivers, Idle, Abandon,
                Ended, vars, Waiting
  <2> QED
    BY <2>1
<1>2. CASE Turn
  <2>1. UNCHANGED <<sent, seen>> /\ pc # "raised"
    BY <1>2 DEF Turn, ModelFails, ModelRaises, EmptyReply, FinishTurn, Verdict, CallTurn,
                Reason
  <2> QED
    BY <2>1
<1>3. CASE ReplayCall
  <2>1. UNCHANGED <<sent, seen>> /\ pc # "raised"
    BY <1>3 DEF ReplayCall
  <2> QED
    BY <2>1
<1>4. CASE ExecuteCall
  <2> DEFINE call == Head(pending)
  <2>1. /\ pc = "execute" /\ call \in Calls /\ call \notin DOMAIN seen
        /\ DOMAIN seen' = DOMAIN seen \cup {call}
        /\ sent' = [sent EXCEPT ![call] = IF call \in Refused THEN @ ELSE @ + 1]
    BY <1>4 DEF ExecuteCall, Repeated, TypeOK
  <2>2. sent \in [Calls -> Nat]
    BY DEF TypeOK
  <2>3. sent[call] = 0
    BY <2>1, <2>2
  <2> HIDE DEF call
  <2> QED
    BY <2>1, <2>2, <2>3
<1>5. CASE CallRaises
  <2> DEFINE call == Head(pending)
  <2>1. /\ pc = "execute" /\ pc' = "raised"
        /\ call \in Calls /\ call \notin DOMAIN seen /\ call \notin Refused
        /\ sent' = [sent EXCEPT ![call] = @ + 1]
    BY <1>5 DEF CallRaises, Repeated, TypeOK
  <2>2. sent \in [Calls -> Nat]
    BY DEF TypeOK
  <2>3. sent[call] = 0
    BY <2>1, <2>2
  <2> HIDE DEF call
  <2> QED
    BY <2>1, <2>2, <2>3
<1> QED
  BY <1>1, <1>2, <1>3, <1>4, <1>5 DEF Next, Agent, Tool

(* However often the model repeats a call, the MCP server sees it at most  *)
(* once in a run, and it never sees a call the tool belt refuses.          *)
THEOREM CallsAreSentOnce == Spec => []OncePerCall
<1>1. Init => SentInv
  BY DEF Init, SentInv, OncePerCall
<1>2. SentInv => OncePerCall
  BY DEF SentInv
<1> QED
  BY <1>1, <1>2, SentInductive, TypeCorrect, PTL DEF Spec

-------------------------------------------------------------------------------
(* Data is never lost: the buckets only grow.                              *)
LEMMA DataOnlyGrows ==
  ASSUME NEW call, NEW result, Observe(call, result), HasData
  PROVE  HasData'
<1>1. DOMAIN products \subseteq DOMAIN products'
  BY DEF Observe, Remaining, Recorded, AbsorbProducts, buckets
<1>2. DOMAIN suppliers \subseteq DOMAIN suppliers'
  BY DEF Observe, Remaining, Recorded, AbsorbSuppliers, buckets
<1>3. records \subseteq records'
  BY DEF Observe, Remaining, Recorded, AbsorbRecords, buckets
<1> QED
  BY <1>1, <1>2, <1>3 DEF HasData, AnyData

LEMMA FoundIsBoolean == HasData \in BOOLEAN /\ HasData' \in BOOLEAN
  BY DEF HasData, AnyData

(* Every step of the loop is a step of AgentRun or invisible to it.        *)
LEMMA StepsAreRunSteps ==
  TypeOK /\ OutcomeInv /\ BudgetInv /\ [Next]_vars => [Run!Next]_(Run!vars)
<1> SUFFICES ASSUME TypeOK, OutcomeInv, BudgetInv, [Next]_vars
             PROVE  [Run!Next]_(Run!vars)
  OBVIOUS
<1> USE DEF Phase
<1>0. UNCHANGED buckets => HasData' = HasData
  BY DEF buckets, HasData, AnyData
<1>1. CASE Exhaust \/ Expire
  <2>1. /\ pc = "loop" /\ pc' = "cut" /\ UNCHANGED <<chats, status, buckets>>
    BY <1>1 DEF Exhaust, Expire
  <2>2. Run!Cut
    BY <1>0, <2>1 DEF Run!Cut
  <2> QED
    BY <2>2 DEF Run!Next, Run!Progress
<1>2. CASE Turn
  <2>1. /\ pc = "loop" /\ chats' = chats + 1 /\ UNCHANGED buckets
        /\ step < MaxSteps
    <3>1. pc = "loop" /\ chats' = chats + 1 /\ ~(step >= MaxSteps)
          /\ UNCHANGED buckets
      BY <1>2 DEF Turn, ModelFails, ModelRaises, EmptyReply, FinishTurn, Verdict,
                  CallTurn, Reason, Chat, BudgetSpent
    <3> QED
      BY <3>1, LoopAssumption DEF TypeOK
  <2>2. chats \in Int /\ step \in Int /\ MaxSteps \in Int /\ chats <= step
    BY <2>1, LoopAssumption DEF TypeOK, BudgetInv
  <2>3. chats < MaxSteps /\ chats' <= MaxSteps
    BY <2>1, <2>2
  <2>4. status = "incomplete"
    BY <2>1 DEF OutcomeInv
  <2>5. CASE ModelFails
    <3>1. Run!Decide
      BY <1>0, <2>1, <2>3, <2>5 DEF ModelFails, Run!Decide
    <3> QED
      BY <3>1 DEF Run!Next, Run!Progress
  <2>6. CASE ModelRaises
    <3>1. Run!Raise
      BY <1>0, <2>1, <2>3, <2>6 DEF ModelRaises, Run!Raise, outcome
    <3> QED
      BY <3>1 DEF Run!Next, Run!Progress
  <2>7. CASE EmptyReply \/ \E calls \in Turns : CallTurn(calls)
    <3>1. pc' \in {"loop", "calls"} /\ status' = status
      BY <2>1, <2>7 DEF EmptyReply, CallTurn, outcome
    <3>2. Run!Ask
      BY <1>0, <2>1, <2>3, <3>1 DEF Run!Ask
    <3> QED
      BY <3>2 DEF Run!Next, Run!Progress
  <2>8. CASE \E text \in {"text", "blank"} : FinishTurn(text)
    <3>1. /\ pc' = "finish"
          /\ status' = IF HasData THEN "complete" ELSE "no_results"
      BY <2>8 DEF FinishTurn, Verdict
    <3>2. Run!Decide
      BY <1>0, <2>1, <2>3, <3>1 DEF Run!Decide
    <3> QED
      BY <3>2 DEF Run!Next, Run!Progress
  <2> QED
    BY <1>2, <2>5, <2>6, <2>7, <2>8 DEF Turn
<1>3. CASE StartCall \/ Idle \/ Ended \/ UNCHANGED vars
  <2>1. /\ UNCHANGED <<chats, status, buckets>>
        /\ pc' = pc \/ (pc = "calls" /\ pc' = "execute")
    BY <1>3 DEF StartCall, Idle, Ended, vars, outcome
  <2>2. UNCHANGED Run!vars
    BY <1>0, <2>1 DEF Run!vars
  <2> QED
    BY <2>2
<1>4. CASE ReplayCall \/ ExecuteCall
  <2>1. PICK call, result : Observe(call, result)
    BY <1>4 DEF ReplayCall, ExecuteCall
  <2>2. /\ pc = "execute" /\ pc' \in {"loop", "calls"}
        /\ UNCHANGED <<chats, status>>
    BY <1>4, <2>1 DEF ReplayCall, ExecuteCall, Observe, Remaining, Recorded, outcome
  <2>3. CASE HasData
    <3>1. HasData' = HasData
      BY <2>1, <2>3, DataOnlyGrows, FoundIsBoolean
    <3>2. UNCHANGED Run!vars
      BY <2>2, <3>1 DEF Run!vars
    <3> QED
      BY <3>2
  <2>4. CASE ~HasData /\ HasData'
    <3>1. HasData' = TRUE
      BY <2>4, FoundIsBoolean
    <3>2. Run!Find
      BY <2>2, <2>4, <3>1 DEF Run!Find
    <3> QED
      BY <3>2 DEF Run!Next, Run!Progress
  <2>5. CASE ~HasData /\ ~HasData'
    <3>1. HasData' = HasData
      BY <2>5, FoundIsBoolean
    <3>2. UNCHANGED Run!vars
      BY <2>2, <3>1 DEF Run!vars
    <3> QED
      BY <3>2
  <2> QED
    BY <2>3, <2>4, <2>5
<1>5. CASE CallRaises
  <2>1. /\ pc = "execute" /\ pc' = "raised"
        /\ UNCHANGED <<chats, status, buckets>>
    BY <1>5 DEF CallRaises, outcome
  <2>2. chats \in Int /\ step \in Int /\ MaxSteps \in Int /\ chats <= step
        /\ step <= MaxSteps
    BY <2>1, LoopAssumption DEF TypeOK, BudgetInv
  <2>3. chats' <= MaxSteps
    BY <2>1, <2>2
  <2>4. Run!Raise
    BY <1>0, <2>1, <2>3 DEF Run!Raise
  <2> QED
    BY <2>4 DEF Run!Next, Run!Progress
<1>6. CASE Summarize
  <2>1. /\ pc = "cut" /\ HasData /\ chats' = chats + 1
        /\ pc' \in {"finish", "done", "raised"}
        /\ UNCHANGED <<status, buckets>>
    BY <1>6 DEF Summarize, WantsSummary, Chat
  <2>2. Run!Summarize
    BY <1>0, <2>1 DEF Run!Summarize
  <2> QED
    BY <2>2 DEF Run!Next, Run!Progress
<1>7. CASE YieldFinal
  <2>1. /\ pc = "finish" \/ (pc = "cut" /\ ~HasData)
        /\ pc' = "done" /\ UNCHANGED <<chats, status, buckets>>
    BY <1>7 DEF YieldFinal, Delivers, WantsSummary, OutcomeInv, outcome
  <2>2. Run!Deliver
    BY <1>0, <2>1 DEF Run!Deliver
  <2> QED
    BY <2>2 DEF Run!Next, Run!Progress
<1>8. CASE Abandon
  <2>1. /\ pc \in Waiting /\ pc' = "abandoned"
        /\ UNCHANGED <<chats, status, buckets>>
    BY <1>8 DEF Abandon, outcome
  <2>2. Run!Abandon
    BY <1>0, <2>1 DEF Run!Abandon, Run!Over, Waiting
  <2> QED
    BY <2>2 DEF Run!Next
<1> QED
  BY <1>1, <1>2, <1>3, <1>4, <1>5, <1>6, <1>7, <1>8 DEF Next, Agent, Tool

(* AgentLoop implements the safety part of AgentRun: the verdict is given  *)
(* once, fits the data found, is not revised, and the model calls stay     *)
(* within the budget plus one summary.                                     *)
THEOREM ImplementsRunSafety == Spec => Run!Spec
<1>1. Init => Run!Init
  BY DEF Init, Run!Init, Phase, HasData, AnyData, NoRows
<1>2. Init => BudgetInv
  BY DEF Init, BudgetInv, BudgetBound
<1> QED
  BY <1>1, <1>2, StepsAreRunSteps, BudgetInductive, OutcomeInitially,
     OutcomeInductive, TypeCorrect, PTL DEF Spec, Run!Spec

-------------------------------------------------------------------------------
(* The rows of every call that is remembered as a success are in the       *)
(* buckets, and data is there only because of such rows.                   *)
GroundInv ==
  /\ \A c \in DOMAIN seen : seen[c].success =>
       FiledIn(products, suppliers, records, seen[c].rows)
  /\ DataIsGrounded

(* What a replayed call files is filed already.                            *)
LEMMA ReplayFilesNothing ==
  ASSUME TypeOK, GroundInv, NEW call \in DOMAIN seen, Observe(call, seen[call])
  PROVE  /\ DOMAIN products' = DOMAIN products
         /\ DOMAIN suppliers' = DOMAIN suppliers
         /\ records' = records
<1>1. CASE seen[call].success
  <2>1. FiledIn(products, suppliers, records, seen[call].rows)
    BY <1>1 DEF GroundInv
  <2>2. /\ products'  = AbsorbProducts(products, seen[call].rows)
        /\ suppliers' = AbsorbSuppliers(suppliers, seen[call].rows)
        /\ records'   = AbsorbRecords(records, seen[call].rows)
    BY <1>1 DEF Observe
  <2> QED
    BY <2>1, <2>2, FilingAgainAddsNothing
<1>2. CASE ~seen[call].success
  BY <1>2 DEF Observe, buckets
<1> QED
  BY <1>1, <1>2

LEMMA ReplayKeepsGround ==
  ASSUME TypeOK, GroundInv, ReplayCall
  PROVE  GroundInv'
<1> DEFINE call == Head(pending)
<1>1. call \in DOMAIN seen /\ Observe(call, seen[call]) /\ seen' = seen
  BY DEF ReplayCall, Repeated
<1>2. /\ DOMAIN products' = DOMAIN products
      /\ DOMAIN suppliers' = DOMAIN suppliers
      /\ records' = records
  <2> HIDE DEF call
  <2> QED
    BY <1>1, ReplayFilesNothing
<1> QED
  BY <1>1, <1>2 DEF GroundInv, FiledIn, DataIsGrounded, HasData, AnyData

LEMMA ExecuteKeepsGround ==
  ASSUME TypeOK, GroundInv, ExecuteCall
  PROVE  GroundInv'
<1> DEFINE call == Head(pending)
<1>1. call \in Calls /\ call \notin DOMAIN seen
  BY DEF ExecuteCall, Repeated, TypeOK
<1>2. PICK result \in Outcomes(call) :
        /\ seen' = [c \in DOMAIN seen \cup {call} |->
                      IF c = call THEN result ELSE seen[c]]
        /\ Observe(call, result)
  BY DEF ExecuteCall
<1>3. result \in Result
  BY <1>1, <1>2, OutcomesAreResults
<1> HIDE DEF call
<1>4. /\ DOMAIN seen' = DOMAIN seen \cup {call} /\ seen'[call] = result
      /\ \A c \in DOMAIN seen : seen'[c] = seen[c]
  BY <1>1, <1>2
<1>5. CASE result.success
  <2>1. /\ products'  = AbsorbProducts(products, result.rows)
        /\ suppliers' = AbsorbSuppliers(suppliers, result.rows)
        /\ records'   = AbsorbRecords(records, result.rows)
    BY <1>2, <1>5 DEF Observe
  <2>2. /\ FiledIn(products', suppliers', records', result.rows)
        /\ \A other : FiledIn(products, suppliers, records, other)
                        => FiledIn(products', suppliers', records', other)
    BY <2>1, FilingIsLasting
  <2>3. ASSUME NEW c \in DOMAIN seen', seen'[c].success
        PROVE  FiledIn(products', suppliers', records', seen'[c].rows)
    BY <1>4, <2>2, <2>3 DEF GroundInv
  <2>4. DataIsGrounded'
    <3>1. CASE result.rows = <<>>
      <4>1. /\ DOMAIN products' = DOMAIN products
            /\ DOMAIN suppliers' = DOMAIN suppliers
            /\ records' = records
        BY <2>1, <3>1, NothingToFile
      <4>2. HasData' <=> HasData
        BY <4>1 DEF HasData, AnyData
      <4>3. HasData <=> \E c \in DOMAIN seen : seen[c].success /\ seen[c].rows # <<>>
        BY DEF GroundInv, DataIsGrounded
      <4> QED
        BY <1>1, <1>4, <3>1, <4>2, <4>3 DEF DataIsGrounded
    <3>2. CASE result.rows # <<>>
      <4>1. result.rows \in Seq(Row)
        BY <1>3 DEF Result
      <4>2. HasData'
        BY <2>1, <3>2, <4>1, EveryRowIsFiled DEF HasData
      <4> QED
        BY <1>4, <1>5, <3>2, <4>2 DEF DataIsGrounded
    <3> QED
      BY <3>1, <3>2
  <2> QED
    BY <2>3, <2>4 DEF GroundInv
<1>6. CASE ~result.success
  <2>1. UNCHANGED <<products, suppliers, records>>
    BY <1>2, <1>6 DEF Observe, buckets
  <2>2. HasData' <=> HasData
    BY <2>1 DEF HasData, AnyData
  <2>3. DataIsGrounded'
    BY <1>1, <1>4, <1>6, <2>2 DEF GroundInv, DataIsGrounded
  <2>4. ASSUME NEW c \in DOMAIN seen', seen'[c].success
        PROVE  FiledIn(products', suppliers', records', seen'[c].rows)
    BY <1>4, <1>6, <2>1, <2>4 DEF GroundInv
  <2> QED
    BY <2>3, <2>4 DEF GroundInv
<1> QED
  BY <1>5, <1>6

(* GroundInv is inductive relative to the types.                           *)
LEMMA GroundInductive == TypeOK /\ GroundInv /\ [Next]_vars => GroundInv'
<1> SUFFICES ASSUME TypeOK, GroundInv, [Next]_vars PROVE GroundInv'
  OBVIOUS
<1>1. ASSUME UNCHANGED <<seen, buckets>> PROVE GroundInv'
  BY <1>1 DEF GroundInv, DataIsGrounded, HasData, buckets
<1>2. CASE Exhaust \/ Expire \/ StartCall \/ CallRaises \/ Summarize
           \/ YieldFinal \/ Idle \/ Abandon \/ Ended \/ UNCHANGED vars
  BY <1>1, <1>2 DEF Exhaust, Expire, StartCall, CallRaises, Summarize,
                    YieldFinal, Idle, Abandon, Ended, vars
<1>3. CASE Turn
  BY <1>1, <1>3 DEF Turn, ModelFails, ModelRaises, EmptyReply, FinishTurn, CallTurn
<1>4. CASE ReplayCall
  BY <1>4, ReplayKeepsGround
<1>5. CASE ExecuteCall
  BY <1>5, ExecuteKeepsGround
<1> QED
  BY <1>2, <1>3, <1>4, <1>5 DEF Next, Agent, Tool

LEMMA GroundInitially == Init => GroundInv
<1> SUFFICES ASSUME Init PROVE GroundInv
  OBVIOUS
<1>1. DOMAIN seen = {} /\ DOMAIN products = {} /\ DOMAIN suppliers = {}
      /\ records = {}
  BY DEF Init, NoRows
<1> QED
  BY <1>1 DEF GroundInv, DataIsGrounded, HasData, AnyData

(* A run has data exactly if one of its calls succeeded with rows, for     *)
(* rows of every shape and however they displaced each other.              *)
THEOREM DataComesFromCalls == Spec => []DataIsGrounded
<1>1. GroundInv => DataIsGrounded
  BY DEF GroundInv
<1> QED
  BY <1>1, GroundInitially, GroundInductive, TypeCorrect, PTL DEF Spec

(* Answering a repeated call from the cache adds no product, no supplier   *)
(* and no record to the result.                                            *)
THEOREM ReplaysAddNothing == Spec => ReplayAddsNothing
<1>1. TypeOK /\ GroundInv /\ [Next]_vars =>
        [pc = "execute" /\ Head(pending) \in DOMAIN seen =>
           /\ DOMAIN products' = DOMAIN products
           /\ DOMAIN suppliers' = DOMAIN suppliers
           /\ records' = records]_vars
  <2> SUFFICES ASSUME TypeOK, GroundInv, Next, pc = "execute",
                      Head(pending) \in DOMAIN seen
               PROVE  /\ DOMAIN products' = DOMAIN products
                      /\ DOMAIN suppliers' = DOMAIN suppliers
                      /\ records' = records
    OBVIOUS
  <2>1. CASE ReplayCall
    <3> DEFINE call == Head(pending)
    <3>1. call \in DOMAIN seen /\ Observe(call, seen[call])
      BY <2>1 DEF ReplayCall, Repeated
    <3> HIDE DEF call
    <3> QED
      BY <3>1, ReplayFilesNothing
  <2>2. CASE CallRaises \/ Idle \/ Abandon
    BY <2>2 DEF CallRaises, Idle, Abandon, buckets
  <2>3. ~Exhaust /\ ~Expire /\ ~Turn /\ ~StartCall /\ ~ExecuteCall
        /\ ~Summarize /\ ~YieldFinal /\ ~Ended
    BY DEF Exhaust, Expire, Turn, ModelFails, ModelRaises, EmptyReply, FinishTurn,
           CallTurn, Reason, StartCall, ExecuteCall, Repeated, Summarize,
           YieldFinal, Delivers, Ended, Terminal
  <2> QED
    BY <2>1, <2>2, <2>3 DEF Next, Agent, Tool
<1> QED
  BY <1>1, GroundInitially, GroundInductive, TypeCorrect, PTL
     DEF Spec, ReplayAddsNothing

-------------------------------------------------------------------------------
(* The clock is looked at before every model call but the summary, which   *)
(* a cut run makes last of all.                                            *)
LEMMA LateInductive ==
  TypeOK /\ OutcomeInv /\ LateCallsOnlySummarize /\ [Next]_vars
    => LateCallsOnlySummarize'
<1> SUFFICES ASSUME TypeOK, OutcomeInv, LateCallsOnlySummarize, [Next]_vars
             PROVE  LateCallsOnlySummarize'
  OBVIOUS
<1>0. UNCHANGED buckets => (HasData' <=> HasData)
  BY DEF buckets, HasData, AnyData
<1>1. CASE Turn
  <2>1. chatAt' = elapsed /\ ~(elapsed > Deadline)
    BY <1>1 DEF Turn, ModelFails, ModelRaises, EmptyReply, FinishTurn, CallTurn,
                Reason, Chat, DeadlineGone
  <2> QED
    BY <2>1 DEF LateCallsOnlySummarize
<1>2. CASE Exhaust \/ Expire \/ Tool
  <2>1. chatAt' = chatAt /\ pc \in {"loop", "calls", "execute"}
    BY <1>2 DEF Exhaust, Expire, Tool, StartCall, ReplayCall, ExecuteCall,
                CallRaises, Observe
  <2> QED
    BY <2>1 DEF LateCallsOnlySummarize, Terminal
<1>3. CASE Summarize
  <2>1. /\ pc = "cut" /\ HasData /\ UNCHANGED <<status, buckets>>
        /\ pc' \in {"finish", "done", "raised"}
    BY <1>3 DEF Summarize, WantsSummary
  <2> QED
    BY <1>0, <2>1 DEF LateCallsOnlySummarize, OutcomeInv, Terminal
<1>4. CASE YieldFinal \/ Idle \/ Abandon \/ Ended \/ UNCHANGED vars
  <2>1. /\ UNCHANGED <<chatAt, status, buckets>>
        /\ pc' \in {pc, "done", "abandoned"}
    BY <1>4 DEF YieldFinal, Idle, Abandon, Ended, vars, outcome
  <2> QED
    BY <1>0, <2>1 DEF LateCallsOnlySummarize, Terminal
<1> QED
  BY <1>1, <1>2, <1>3, <1>4 DEF Next, Agent

(* A model call begun after the deadline is the forced summary of a run    *)
(* that was cut off with data, and nothing but its result follows.         *)
THEOREM LateCallsAreSummaries == Spec => []LateCallsOnlySummarize
<1>1. Init => LateCallsOnlySummarize
  BY LoopAssumption DEF Init, LateCallsOnlySummarize
<1> QED
  BY <1>1, LateInductive, OutcomeInitially, OutcomeInductive, TypeCorrect, PTL
     DEF Spec

-------------------------------------------------------------------------------
(* The conversation.  Answered: every call of the message at i has its     *)
(* reply, in order, directly after it.  Placed: a tool reply at i follows  *)
(* an assistant message with at least as many calls.                       *)
Answered(msgs, i) ==
  msgs[i].role = "assistant" =>
    \A k \in DOMAIN msgs[i].calls : /\ i + k \in DOMAIN msgs
                                   /\ msgs[i + k] = Reply(msgs[i].calls[k])

Placed(msgs, i) ==
  msgs[i].role = "tool" =>
    \E j \in 1..(i - 1) : msgs[j].role = "assistant" /\ i - j <= Len(msgs[j].calls)

(* The turn whose calls are being executed, with the message at j: what is *)
(* answered and what is pending are together its calls.                    *)
OpenTurn(msgs, todo, j) ==
  LET done == Len(msgs) - j IN
  /\ msgs[j].role = "assistant"
  /\ Len(msgs[j].calls) = done + Len(todo)
  /\ \A k \in 1..done : msgs[j + k] = Reply(msgs[j].calls[k])
  /\ \A k \in 1..Len(todo) : todo[k] = msgs[j].calls[done + k]
  /\ \A i \in DOMAIN msgs \ {j} : Answered(msgs, i)

TalkInv ==
  /\ \A i \in DOMAIN messages : Placed(messages, i)
  /\ pc \in {"loop", "cut"} => \A i \in DOMAIN messages : Answered(messages, i)
  /\ pc \in {"calls", "execute"} =>
       \E j \in DOMAIN messages : OpenTurn(messages, pending, j)

LEMMA AppendedMessage ==
  ASSUME NEW msgs \in Seq(Message), NEW m \in Message
  PROVE  /\ Len(Append(msgs, m)) = Len(msgs) + 1 /\ Len(msgs) \in Nat
         /\ DOMAIN msgs = 1..Len(msgs)
         /\ DOMAIN Append(msgs, m) = 1..(Len(msgs) + 1)
         /\ \A i \in DOMAIN msgs : Append(msgs, m)[i] = msgs[i]
         /\ Append(msgs, m)[Len(msgs) + 1] = m
  OBVIOUS

(* What is said later disturbs nothing that was said.                      *)
LEMMA AppendKeepsPlaced ==
  ASSUME NEW msgs \in Seq(Message), NEW m \in Message,
         NEW i \in DOMAIN msgs
  PROVE  /\ Placed(msgs, i) => Placed(Append(msgs, m), i)
         /\ Answered(msgs, i) => Answered(Append(msgs, m), i)
<1> DEFINE after == Append(msgs, m)
<1>1. /\ DOMAIN msgs = 1..Len(msgs) /\ Len(msgs) \in Nat
      /\ DOMAIN after = 1..(Len(msgs) + 1)
      /\ \A j \in DOMAIN msgs : after[j] = msgs[j]
  BY AppendedMessage
<1> HIDE DEF after
<1>2. Placed(msgs, i) => Placed(after, i)
  <2>1. \A j \in 1..(i - 1) : j \in DOMAIN msgs
    BY <1>1
  <2> QED
    BY <1>1, <2>1 DEF Placed
<1>3. Answered(msgs, i) => Answered(after, i)
  <2>1. \A j \in DOMAIN msgs : j \in DOMAIN after
    BY <1>1
  <2> QED
    BY <1>1, <2>1 DEF Answered
<1> QED
  BY <1>2, <1>3 DEF after

(* A step that says nothing to the model, or says it as system or user.    *)
LEMMA SayKeepsTalk ==
  ASSUME TypeOK, TalkInv, pc \in {"loop", "cut"},
         NEW m \in Message, m.role \notin {"assistant", "tool"},
         messages' = Append(messages, m)
  PROVE  /\ \A i \in DOMAIN messages' : Placed(messages', i)
         /\ \A i \in DOMAIN messages' : Answered(messages', i)
<1>1. messages \in Seq(Message)
  BY DEF TypeOK
<1>2. /\ \A i \in DOMAIN messages : Placed(messages, i) /\ Answered(messages, i)
  BY DEF TalkInv
<1>3. /\ DOMAIN messages' = DOMAIN messages \cup {Len(messages) + 1}
      /\ messages'[Len(messages) + 1] = m
  BY <1>1, AppendedMessage
<1>4. /\ Placed(messages', Len(messages) + 1)
      /\ Answered(messages', Len(messages) + 1)
  BY <1>3 DEF Placed, Answered
<1>5. \A i \in DOMAIN messages : Placed(messages', i) /\ Answered(messages', i)
  BY <1>1, <1>2, AppendKeepsPlaced
<1> QED
  BY <1>3, <1>4, <1>5

LEMMA AskOpensTurn ==
  ASSUME TypeOK, TalkInv, pc = "loop", NEW calls \in Turns, CallTurn(calls)
  PROVE  TalkInv'
<1> DEFINE n == Len(messages)
           m == Ask(calls)
<1>1. messages \in Seq(Message) /\ n \in Nat
  BY DEF TypeOK
<1>2. calls \in Seq(Calls) /\ m \in Message /\ Len(calls) \in Nat
  BY TurnsAreSequences, MessageTypes
<1>3. messages' = Append(messages, m) /\ pending' = calls /\ pc' = "calls"
  BY DEF CallTurn
<1>4. m.role = "assistant" /\ m.calls = calls
  BY DEF Ask
<1>5. \A i \in DOMAIN messages : Placed(messages, i) /\ Answered(messages, i)
  BY DEF TalkInv
<1> HIDE DEF m
<1>6. /\ DOMAIN messages' = DOMAIN messages \cup {n + 1}
      /\ messages'[n + 1] = m /\ Len(messages') = n + 1
  BY <1>1, <1>2, <1>3, AppendedMessage
<1>7. \A i \in DOMAIN messages : Placed(messages', i) /\ Answered(messages', i)
  BY <1>1, <1>2, <1>3, <1>5, AppendKeepsPlaced
<1>8. Placed(messages', n + 1)
  BY <1>4, <1>6 DEF Placed
<1> HIDE DEF n
<1>9. OpenTurn(messages', pending', n + 1)
  <2>1. Len(messages') - (n + 1) = 0
    BY <1>1, <1>6
  <2>2. \A k \in 1..Len(calls) : calls[k] = m.calls[0 + k]
    BY <1>2, <1>4
  <2>3. Len(m.calls) = 0 + Len(calls) /\ 1..0 = {}
    BY <1>2, <1>4
  <2>4. \A i \in DOMAIN messages' \ {n + 1} : Answered(messages', i)
    BY <1>6, <1>7
  <2> QED
    BY <1>3, <1>4, <1>6, <2>1, <2>2, <2>3, <2>4 DEF OpenTurn
<1> QED
  BY <1>3, <1>6, <1>7, <1>8, <1>9 DEF TalkInv

(* The next reply of the open turn; the last one closes it.                *)
LEMMA ReplyKeepsTalk ==
  ASSUME TypeOK, TalkInv, pc = "execute", NEW call, call = Head(pending),
         NEW result \in Result, Observe(call, result)
  PROVE  TalkInv'
<1> DEFINE n == Len(messages)
           m == Reply(call)
<1>1. /\ messages \in Seq(Message) /\ n \in Nat /\ DOMAIN messages = 1..n
      /\ pending \in Seq(Calls) /\ pending # <<>> /\ call \in Calls
  BY DEF TypeOK
<1>2. m \in Message /\ m.role = "tool"
  BY <1>1 DEF Reply, Message
<1>3. /\ messages' = Append(messages, m) /\ pending' = Tail(pending)
      /\ pc' = IF Tail(pending) = <<>> THEN "loop" ELSE "calls"
  BY DEF Observe, Remaining
<1>4. PICK j \in DOMAIN messages : OpenTurn(messages, pending, j)
  BY DEF TalkInv
<1> DEFINE calls == messages[j].calls
           done == n - j
<1>5. /\ j \in 1..n /\ done \in Nat /\ n = j + done
      /\ calls \in Seq(Calls)
  <2>1. j \in 1..n /\ messages[j] \in Message
    BY <1>1, <1>4
  <2> QED
    BY <1>1, <2>1 DEF Message
<1>6. Len(pending) >= 1 /\ Len(pending) \in Nat
      /\ Len(pending') = Len(pending) - 1 /\ pending[1] = call
      /\ \A k \in 1..(Len(pending) - 1) : pending'[k] = pending[k + 1]
  BY <1>1, <1>3
<1>7. /\ messages[j].role = "assistant"
      /\ Len(calls) = done + Len(pending)
      /\ \A k \in 1..done : messages[j + k] = Reply(calls[k])
      /\ \A k \in 1..Len(pending) : pending[k] = calls[done + k]
      /\ \A i \in DOMAIN messages \ {j} : Answered(messages, i)
  BY <1>4 DEF OpenTurn
<1> HIDE DEF m
<1>8. /\ DOMAIN messages' = DOMAIN messages \cup {n + 1}
      /\ DOMAIN messages' = 1..(n + 1)
      /\ messages'[n + 1] = m /\ Len(messages') = n + 1
      /\ \A i \in DOMAIN messages : messages'[i] = messages[i]
  BY <1>1, <1>2, <1>3, AppendedMessage
<1>9. m = Reply(calls[done + 1])
  BY <1>6, <1>7 DEF m
<1> HIDE DEF n, calls, done
<1>10. ASSUME NEW i \in DOMAIN messages' PROVE Placed(messages', i)
  <2>1. CASE i \in DOMAIN messages
    BY <1>1, <1>2, <1>3, <2>1, AppendKeepsPlaced DEF TalkInv
  <2>2. CASE i = n + 1
    <3>1. j \in 1..(i - 1) /\ messages'[j] = messages[j]
      BY <1>1, <1>4, <1>5, <1>8, <2>2
    <3>2. i - j = done + 1 /\ Len(calls) = done + Len(pending)
      BY <1>1, <1>5, <1>7, <2>2
    <3>3. i - j <= Len(messages[j].calls)
      BY <1>5, <1>6, <3>2 DEF calls
    <3> QED
      BY <1>7, <3>1, <3>3 DEF Placed
  <2> QED
    BY <1>8, <2>1, <2>2
<1>11. ASSUME NEW i \in DOMAIN messages' \ {j} PROVE Answered(messages', i)
  <2>1. CASE i \in DOMAIN messages
    BY <1>1, <1>2, <1>3, <1>7, <1>11, <2>1, AppendKeepsPlaced
  <2>2. CASE i = n + 1
    BY <1>2, <1>8, <2>2 DEF Answered
  <2> QED
    BY <1>8, <2>1, <2>2
<1>12. messages'[j] = messages[j]
  BY <1>4, <1>8
<1>13. \A k \in 1..(done + 1) : messages'[j + k] = Reply(calls[k])
  <2> TAKE k \in 1..(done + 1)
  <2>1. CASE k = done + 1
    <3>1. j + k = n + 1
      BY <1>1, <1>5, <2>1
    <3> QED
      BY <1>8, <1>9, <2>1, <3>1
  <2>2. CASE k # done + 1
    <3>1. k \in 1..done /\ j + k \in 1..n
      BY <1>1, <1>5, <2>2
    <3> QED
      BY <1>1, <1>7, <1>8, <3>1
  <2> QED
    BY <2>1, <2>2
<1>14. CASE Tail(pending) = <<>>
  <2>1. Len(calls) = done + 1
    <3>1. Len(pending') = 0
      BY <1>3, <1>14
    <3>2. Len(pending) = 1
      BY <1>6, <3>1
    <3> QED
      BY <1>5, <1>7, <3>2
  <2>2. Answered(messages', j)
    <3>1. ASSUME NEW k \in DOMAIN calls
          PROVE  j + k \in DOMAIN messages' /\ messages'[j + k] = Reply(calls[k])
      <4>1. k \in 1..(done + 1)
        BY <1>5, <2>1, <3>1
      <4>2. j + k \in 1..(n + 1)
        BY <1>1, <1>5, <4>1
      <4> QED
        BY <1>8, <1>13, <4>1, <4>2
    <3> QED
      BY <1>12, <3>1 DEF Answered, calls
  <2> QED
    BY <1>3, <1>10, <1>11, <1>14, <2>2 DEF TalkInv
<1>15. CASE Tail(pending) # <<>>
  <2>1. OpenTurn(messages', pending', j)
    <3>1. Len(messages') - j = done + 1
      BY <1>1, <1>5, <1>8
    <3>2. Len(calls) = (done + 1) + Len(pending')
      BY <1>5, <1>6, <1>7
    <3>3. ASSUME NEW k \in 1..Len(pending')
          PROVE  pending'[k] = calls[(done + 1) + k]
      <4>1. k \in 1..(Len(pending) - 1) /\ k + 1 \in 1..Len(pending)
        BY <1>6, <3>3
      <4>2. pending'[k] = calls[done + (k + 1)]
        BY <1>6, <1>7, <4>1
      <4>3. done + (k + 1) = (done + 1) + k
        BY <1>5, <4>1
      <4> QED
        BY <4>2, <4>3
    <3> QED
      BY <1>7, <1>11, <1>12, <1>13, <3>1, <3>2, <3>3 DEF OpenTurn, calls
  <2>2. j \in DOMAIN messages'
    BY <1>4, <1>8
  <2> QED
    BY <1>3, <1>10, <1>15, <2>1, <2>2 DEF TalkInv
<1> QED
  BY <1>14, <1>15

(* TalkInv is inductive relative to the types.                             *)
LEMMA TalkInductive == TypeOK /\ TalkInv /\ [Next]_vars => TalkInv'
<1> SUFFICES ASSUME TypeOK, TalkInv, [Next]_vars PROVE TalkInv'
  OBVIOUS
<1>u. Say("user") \in Message /\ Say("user").role \notin {"assistant", "tool"}
  BY DEF Say, Message
<1>1. ASSUME UNCHANGED <<messages, pending>>,
             pc' \in {pc, "finish"} \cup Terminal
             \/ (pc = "calls" /\ pc' = "execute") \/ (pc = "loop" /\ pc' = "cut")
      PROVE  TalkInv'
  BY <1>1 DEF TalkInv, Terminal
<1>2. CASE Exhaust \/ Expire \/ ModelFails \/ ModelRaises \/ StartCall
           \/ CallRaises \/ YieldFinal \/ Idle \/ Abandon \/ Ended \/ UNCHANGED vars
  BY <1>1, <1>2 DEF Exhaust, Expire, ModelFails, ModelRaises, Reason, StartCall,
                    CallRaises, YieldFinal, Idle, Abandon, Ended, vars, Terminal
<1>3. CASE EmptyReply
  <2>1. pc = "loop" /\ pc' = pc /\ messages' = Append(messages, Say("user"))
    BY <1>3 DEF EmptyReply, Reason
  <2> QED
    BY <1>u, <2>1, SayKeepsTalk DEF TalkInv
<1>4. CASE \E text \in {"text", "blank"} : FinishTurn(text)
  BY <1>1, <1>4 DEF FinishTurn, Reason
<1>5. CASE \E calls \in Turns : CallTurn(calls)
  <2>1. PICK calls \in Turns : CallTurn(calls)
    BY <1>5
  <2>2. pc = "loop"
    BY <2>1 DEF CallTurn, Reason
  <2> QED
    BY <2>1, <2>2, AskOpensTurn
<1>6. CASE ReplayCall
  <2> DEFINE call == Head(pending)
  <2>1. pc = "execute" /\ call \in DOMAIN seen /\ Observe(call, seen[call])
    BY <1>6 DEF ReplayCall, Repeated
  <2>2. seen[call] \in Result
    BY <2>1 DEF TypeOK
  <2>3. call = Head(pending)
    OBVIOUS
  <2> HIDE DEF call
  <2> QED
    BY <2>1, <2>2, <2>3, ReplyKeepsTalk
<1>7. CASE ExecuteCall
  <2> DEFINE call == Head(pending)
  <2>1. pc = "execute" /\ call \in Calls
    BY <1>7 DEF ExecuteCall, TypeOK
  <2>2. PICK result \in Outcomes(call) : Observe(call, result)
    BY <1>7 DEF ExecuteCall
  <2>3. result \in Result
    BY <2>1, <2>2, OutcomesAreResults
  <2>4. call = Head(pending)
    OBVIOUS
  <2> HIDE DEF call
  <2> QED
    BY <2>1, <2>2, <2>3, <2>4, ReplyKeepsTalk
<1>8. CASE Summarize
  <2>1. /\ pc = "cut" /\ pc' \in {"finish", "done", "raised"}
        /\ messages' = Append(messages, Say("user"))
    BY <1>8 DEF Summarize
  <2> QED
    BY <1>u, <2>1, SayKeepsTalk DEF TalkInv
<1> QED
  BY <1>2, <1>3, <1>4, <1>5, <1>6, <1>7, <1>8 DEF Next, Agent, Turn, Tool

LEMMA TalkInitially == Init => TalkInv
<1> SUFFICES ASSUME Init PROVE TalkInv
  OBVIOUS
<1>1. /\ messages = <<Say("system"), Say("user")>> /\ pc = "loop"
      /\ DOMAIN messages = {1, 2}
  BY DEF Init
<1>2. messages[1].role = "system" /\ messages[2].role = "user"
  BY <1>1 DEF Say
<1> QED
  BY <1>1, <1>2 DEF TalkInv, Placed, Answered

(* Whatever the model asks for, in turns of any length, and whatever comes *)
(* back, the conversation it is sent is well-formed.                       *)
THEOREM ConversationIsWellFormed == Spec => []ConversationWellFormed
<1>1. TypeOK /\ TalkInv => ConversationWellFormed
  BY DEF TalkInv, Placed, Answered, ConversationWellFormed
<1> QED
  BY <1>1, TalkInitially, TalkInductive, TypeCorrect, PTL DEF Spec

-------------------------------------------------------------------------------
(* The three ledgers.                                                      *)
Announced(call)  == IF call.success THEN "tool_completed" ELSE "tool_error"

(* A step outside the tool calls adds nothing to any of them.              *)
LEMMA QuietStep ==
  ASSUME TypeOK, LedgersAgree, toolCalls' = toolCalls,
         \/ events' = events
         \/ \E e \in Event : /\ e \notin {"tool_completed", "tool_error"}
                             /\ events' = Append(events, e),
         \/ messages' = messages
         \/ \E m \in Message : /\ m.role # "tool"
                               /\ messages' = Append(messages, m)
  PROVE  LedgersAgree'
<1>0. events \in Seq(Event) /\ messages \in Seq(Message)
  BY DEF TypeOK
<1>1. ToolEvents' = ToolEvents
  <2>1. CASE events' = events
    BY <2>1 DEF ToolEvents
  <2>2. CASE events' # events
    <3>1. PICK e \in Event : /\ e \notin {"tool_completed", "tool_error"}
                             /\ events' = Append(events, e)
      BY <2>2
    <3> DEFINE ends == {"tool_completed", "tool_error"}
    <3>2. e \notin ends
      BY <3>1
    <3>3. ToolEvents = Among(ends, events)
      BY DEF ToolEvents
    <3>4. ToolEvents' = Among(ends, Append(events, e))
      BY <3>1 DEF ToolEvents
    <3> HIDE DEF ends
    <3>5. Among(ends, Append(events, e)) = Keep(ends, Among(ends, events), e)
      BY <1>0, AmongAppend
    <3> QED
      BY <3>2, <3>3, <3>4, <3>5 DEF Keep
  <2> QED
    BY <2>1, <2>2
<1>2. ToolReplies' = ToolReplies
  <2>1. CASE messages' = messages
    BY <2>1 DEF ToolReplies
  <2>2. CASE messages' # messages
    <3>1. PICK m \in Message : m.role # "tool" /\ messages' = Append(messages, m)
      BY <2>2
    <3> DEFINE tools == [role : {"tool"}, calls : Seq(Calls)]
    <3>2. m \notin tools
      BY <3>1
    <3>3. ToolReplies = Among(tools, messages)
      BY DEF ToolReplies
    <3>4. ToolReplies' = Among(tools, Append(messages, m))
      BY <3>1 DEF ToolReplies
    <3> HIDE DEF tools
    <3>5. Among(tools, Append(messages, m)) = Keep(tools, Among(tools, messages), m)
      BY <1>0, AmongAppend
    <3> QED
      BY <3>2, <3>3, <3>4, <3>5 DEF Keep
  <2> QED
    BY <2>1, <2>2
<1> QED
  BY <1>1, <1>2 DEF LedgersAgree

(* A sequence made element by element grows by one element.                *)
LEMMA MadeByAppend ==
  ASSUME NEW T, NEW n \in Nat, NEW list \in [1..n -> T], NEW x \in T
  PROVE  Append(list, x) = [i \in 1..(n + 1) |-> IF i = n + 1 THEN x ELSE list[i]]
<1>1. list \in Seq(T) /\ Len(list) = n
  OBVIOUS
<1>2. /\ Append(list, x) \in Seq(T) /\ DOMAIN Append(list, x) = 1..(n + 1)
      /\ \A i \in 1..(n + 1) : Append(list, x)[i] = IF i = n + 1 THEN x ELSE list[i]
  BY <1>1
<1> DEFINE made == [i \in 1..(n + 1) |-> IF i = n + 1 THEN x ELSE list[i]]
<1>3. made \in Seq(T) /\ Len(made) = n + 1 /\ Len(Append(list, x)) = n + 1
      /\ \A i \in 1..(n + 1) : made[i] = Append(list, x)[i]
  BY <1>1, <1>2
<1> HIDE DEF made
<1>4. Append(list, x) = made
  BY <1>2, <1>3, SeqEqual
<1> QED
  BY <1>4 DEF made

LEMMA ToolStep ==
  ASSUME TypeOK, LedgersAgree, NEW call \in Calls, NEW result \in Result,
         Observe(call, result)
  PROVE  LedgersAgree'
<1> DEFINE n == Len(toolCalls)
           entry == [call |-> call, success |-> result.success]
           Entry == [call : Calls, success : BOOLEAN]
           word == IF result.success THEN "tool_completed" ELSE "tool_error"
           said == [i \in DOMAIN toolCalls |-> Announced(toolCalls[i])]
           told == [i \in DOMAIN toolCalls |-> Reply(toolCalls[i].call)]
<1>1. /\ events \in Seq(Event) /\ messages \in Seq(Message)
      /\ toolCalls \in Seq(Entry) /\ entry \in Entry
      /\ word \in Event /\ Reply(call) \in Message
      /\ Reply(call) \in [role : {"tool"}, calls : Seq(Calls)]
  BY DEF TypeOK, Result, Event, Reply, Message
<1>2. /\ toolCalls' = Append(toolCalls, entry)
      /\ events' = Append(events, word)
      /\ messages' = Append(messages, Reply(call))
  BY DEF Observe, Recorded
<1>3. ToolEvents = said /\ ToolReplies = told
  BY DEF LedgersAgree, Announced
<1>4. /\ n \in Nat /\ DOMAIN toolCalls = 1..n
      /\ DOMAIN toolCalls' = 1..(n + 1)
      /\ \A i \in 1..n : toolCalls'[i] = toolCalls[i]
      /\ toolCalls'[n + 1] = entry
  BY <1>1, <1>2
<1> HIDE DEF said, told
<1>5. ToolEvents' = Append(said, word)
  <2> DEFINE phases == {"tool_completed", "tool_error"}
  <2>1. word \in phases
    OBVIOUS
  <2>2. ToolEvents = Among(phases, events) /\ ToolEvents' = Among(phases, events')
    BY DEF ToolEvents
  <2> HIDE DEF phases, word
  <2> QED
    BY <1>1, <1>2, <1>3, <2>1, <2>2, AmongAppend DEF Keep
<1>6. ToolReplies' = Append(told, Reply(call))
  <2> DEFINE tools == [role : {"tool"}, calls : Seq(Calls)]
  <2>1. ToolReplies = Among(tools, messages) /\ ToolReplies' = Among(tools, messages')
    BY DEF ToolReplies
  <2>2. Reply(call) \in tools
    BY <1>1
  <2> HIDE DEF tools
  <2> QED
    BY <1>1, <1>2, <1>3, <2>1, <2>2, AmongAppend DEF Keep
<1>7. Announced(entry) = word /\ Reply(entry.call) = Reply(call)
  BY DEF Announced
<1> HIDE DEF entry, word, n
<1>8. ToolEvents' = [i \in DOMAIN toolCalls' |-> Announced(toolCalls'[i])]
  <2>1. said \in [1..n -> Event] /\ word \in Event
    BY <1>1, <1>4 DEF said, Announced, Event
  <2>2. Append(said, word) = [i \in 1..(n + 1) |->
                                IF i = n + 1 THEN word ELSE Announced(toolCalls[i])]
    <3>1. Append(said, word) = [i \in 1..(n + 1) |-> IF i = n + 1 THEN word ELSE said[i]]
      BY <1>4, <2>1, MadeByAppend
    <3>2. \A i \in 1..n : said[i] = Announced(toolCalls[i])
      BY <1>4 DEF said
    <3>3. \A i \in 1..(n + 1) : i # n + 1 => i \in 1..n
      BY <1>4
    <3> QED
      BY <3>1, <3>2, <3>3
  <2>3. \A i \in 1..(n + 1) : (IF i = n + 1 THEN word ELSE Announced(toolCalls[i]))
                                = Announced(toolCalls'[i])
    <3>1. \A i \in 1..(n + 1) : i # n + 1 => i \in 1..n
      BY <1>4
    <3> QED
      BY <1>4, <1>7, <3>1
  <2> QED
    BY <1>4, <1>5, <2>2, <2>3
<1>9. ToolReplies' = [i \in DOMAIN toolCalls' |-> Reply(toolCalls'[i].call)]
  <2>1. told \in [1..n -> Message] /\ Reply(call) \in Message
    <3>1. \A i \in 1..n : toolCalls[i].call \in Calls
      <4>1. \A i \in 1..n : toolCalls[i] \in Entry
        <5> HIDE DEF Entry
        <5> QED
          BY <1>1, <1>4
      <4> QED
        BY <4>1
    <3>2. \A c \in Calls : Reply(c) \in Message
      BY DEF Reply, Message
    <3> QED
      BY <1>4, <3>1, <3>2 DEF told
  <2>2. Append(told, Reply(call)) =
          [i \in 1..(n + 1) |->
             IF i = n + 1 THEN Reply(call) ELSE Reply(toolCalls[i].call)]
    <3>1. Append(told, Reply(call)) =
            [i \in 1..(n + 1) |-> IF i = n + 1 THEN Reply(call) ELSE told[i]]
      <4>1. n \in Nat
        BY <1>4
      <4> QED
        BY <2>1, <4>1, MadeByAppend
    <3>2. \A i \in 1..n : told[i] = Reply(toolCalls[i].call)
      BY <1>4 DEF told
    <3>3. \A i \in 1..(n + 1) : i # n + 1 => i \in 1..n
      BY <1>4
    <3> QED
      BY <3>1, <3>2, <3>3
  <2>3. \A i \in 1..(n + 1) :
          (IF i = n + 1 THEN Reply(call) ELSE Reply(toolCalls[i].call))
            = Reply(toolCalls'[i].call)
    <3>1. \A i \in 1..(n + 1) : i # n + 1 => i \in 1..n
      BY <1>4
    <3> QED
      BY <1>4, <1>7, <3>1
  <2> QED
    BY <1>4, <1>6, <2>2, <2>3
<1> QED
  BY <1>8, <1>9 DEF LedgersAgree, Announced

(* LedgersAgree is inductive relative to the types.                        *)
LEMMA LedgersInductive == TypeOK /\ LedgersAgree /\ [Next]_vars => LedgersAgree'
<1> SUFFICES ASSUME TypeOK, LedgersAgree, [Next]_vars PROVE LedgersAgree'
  OBVIOUS
<1>m. /\ Say("user") \in Message /\ Say("user").role # "tool"
      /\ \A calls \in Turns : Ask(calls) \in Message /\ Ask(calls).role # "tool"
  BY MessageTypes, TurnsAreSequences DEF Say, Ask
<1> DEFINE Quiet == Event \ {"tool_completed", "tool_error"}
<1>e. {"started", "decision", "retry", "finished", "error", "deadline",
       "budget_exhausted", "tool_started"} \subseteq Quiet
  BY DEF Event
<1>1. ASSUME toolCalls' = toolCalls,
             events' = events \/ \E e \in Quiet : events' = Append(events, e),
             \/ messages' = messages
             \/ \E m \in Message : m.role # "tool" /\ messages' = Append(messages, m)
      PROVE  LedgersAgree'
  BY <1>1, QuietStep
<1> HIDE DEF Quiet
<1>2. CASE Exhaust \/ Expire \/ ModelFails \/ ModelRaises \/ StartCall
           \/ CallRaises \/ YieldFinal \/ Idle \/ Abandon \/ Ended \/ UNCHANGED vars
           \/ \E text \in {"text", "blank"} : FinishTurn(text)
  <2>1. /\ toolCalls' = toolCalls /\ messages' = messages
        /\ events' = events \/ \E e \in Quiet : events' = Append(events, e)
    BY <1>2, <1>e DEF Exhaust, Expire, ModelFails, ModelRaises, StartCall, CallRaises,
                      YieldFinal, Idle, Abandon, Ended, vars, FinishTurn
  <2> QED
    BY <1>1, <2>1
<1>3. CASE EmptyReply \/ \E calls \in Turns : CallTurn(calls)
  <2>1. /\ toolCalls' = toolCalls
        /\ \E e \in Quiet : events' = Append(events, e)
        /\ \E m \in Message : m.role # "tool" /\ messages' = Append(messages, m)
    BY <1>3, <1>e, <1>m DEF EmptyReply, CallTurn
  <2> QED
    BY <1>1, <2>1
<1>4. CASE Summarize
  <2>1. /\ toolCalls' = toolCalls
        /\ events' = events \/ \E e \in Quiet : events' = Append(events, e)
        /\ \E m \in Message : m.role # "tool" /\ messages' = Append(messages, m)
    BY <1>4, <1>e, <1>m DEF Summarize
  <2> QED
    BY <1>1, <2>1
<1>5. CASE ReplayCall
  <2> DEFINE call == Head(pending)
  <2>1. call \in DOMAIN seen /\ Observe(call, seen[call])
    BY <1>5 DEF ReplayCall, Repeated
  <2>2. seen[call] \in Result /\ call \in Calls
    BY <2>1 DEF TypeOK
  <2> HIDE DEF call
  <2> QED
    BY <2>1, <2>2, ToolStep
<1>6. CASE ExecuteCall
  <2> DEFINE call == Head(pending)
  <2>1. call \in Calls
    BY <1>6 DEF ExecuteCall, TypeOK
  <2>2. PICK result \in Outcomes(call) : Observe(call, result)
    BY <1>6 DEF ExecuteCall
  <2>3. result \in Result
    BY <2>1, <2>2, OutcomesAreResults
  <2> HIDE DEF call
  <2> QED
    BY <2>1, <2>2, <2>3, ToolStep
<1> QED
  BY <1>2, <1>3, <1>4, <1>5, <1>6 DEF Next, Agent, Turn, Tool

LEMMA LedgersInitially == Init => LedgersAgree
<1> SUFFICES ASSUME Init PROVE LedgersAgree
  OBVIOUS
<1> DEFINE tools == [role : {"tool"}, calls : Seq(Calls)]
           phases == {"tool_completed", "tool_error"}
<1>1. /\ events = Append(<<>>, "started") /\ toolCalls = <<>>
      /\ messages = Append(Append(<<>>, Say("system")), Say("user"))
  BY DEF Init
<1>2. Among(phases, events) = <<>>
  <2>1. "started" \in Event /\ "started" \notin phases /\ <<>> \in Seq(Event)
    BY DEF Event
  <2> SUFFICES Among(phases, events) = <<>>
    OBVIOUS
  <2> HIDE DEF phases
  <2> QED
    BY <1>1, <2>1, AmongNothing, AmongAppend DEF Keep
<1>3. Among(tools, messages) = <<>>
  <2>1. /\ Say("system") \in Message /\ Say("system") \notin tools
        /\ Say("user") \in Message /\ Say("user") \notin tools
    BY MessageTypes DEF Say
  <2>2. <<>> \in Seq(Message) /\ Append(<<>>, Say("system")) \in Seq(Message)
    BY <2>1
  <2> HIDE DEF tools
  <2>3. Among(tools, Append(<<>>, Say("system"))) = <<>>
    <3>1. Among(tools, Append(<<>>, Say("system")))
            = Keep(tools, Among(tools, <<>>), Say("system"))
      BY <2>1, <2>2, AmongAppend
    <3> QED
      BY <2>1, <3>1, AmongNothing DEF Keep
  <2>4. Among(tools, messages) = <<>>
    BY <1>1, <2>1, <2>2, <2>3, AmongAppend DEF Keep
  <2> QED
    BY <2>4 DEF tools
<1> QED
  BY <1>1, <1>2, <1>3 DEF LedgersAgree, ToolEvents, ToolReplies

(* What the consumer is told, what the result records and what the model   *)
(* reads of the tool calls are the same, in the same order.                *)
THEOREM LedgersTellOneStory == Spec => []LedgersAgree
  BY LedgersInitially, LedgersInductive, TypeCorrect, PTL DEF Spec
===============================================================================
