------------------------------- MODULE AgentLoop ------------------------------
(***************************************************************************)
(* One agent run: MasterDataAgent.run_stream (app/agent/agent.py) with the *)
(* calls it makes into the model client (app/llm.py) and the tool belt     *)
(* (app/agent/tools.py).                                                   *)
(*                                                                         *)
(* run_stream is a generator.  Its consumer (run, or the SSE endpoint)     *)
(* regains control at every yield, so each action below is the code from   *)
(* one yield to the next; between two actions the consumer may dawdle      *)
(* (Idle) or close the generator (Abandon).                                *)
(*                                                                         *)
(* The model, the tools and the clock are the environment: which reply     *)
(* comes back, and how long it takes, is a nondeterministic choice.  Time  *)
(* is counted in ticks and only compared with the deadline.                *)
(***************************************************************************)
EXTENDS RowBuckets, Filter

CONSTANTS
  Calls,      \* what the model may ask for: a tool name with its arguments
  Refused,    \* the calls the tool belt rejects itself (unknown tool, SQL
              \* that is not a single read-only statement)
  Replies,    \* the row lists a successful tool call may return
  MaxSteps,   \* AGENT_MAX_STEPS, at least 1
  MaxCalls,   \* bound: tool calls in one model turn
  Deadline,   \* AGENT_DEADLINE_SECONDS, in ticks
  ChatTime,   \* longest time one model call takes (LLM_TIMEOUT)
  CallTime,   \* longest time one tool call takes (_CALL_TIMEOUT)
  IdleTime    \* bound: time the consumer spends between two yields, in all

ASSUME LoopAssumption ==
  /\ Refused \subseteq Calls
  /\ Replies \subseteq Seq(Row)
  /\ MaxSteps \in Nat \ {0} /\ MaxCalls \in Nat \ {0}
  /\ Deadline \in Nat /\ ChatTime \in Nat /\ CallTime \in Nat
  /\ IdleTime \in Nat

VARIABLES
  pc,          \* where the generator is suspended
  step,        \* reasoning steps begun
  nudged,      \* the one retry of an empty reply has been used
  pending,     \* tool calls of the current turn still to be executed
  messages,    \* conversation sent to the model
  events,      \* execution events yielded so far (their phases)
  trace,       \* reasoning_trace (the actions)
  toolCalls,   \* tool_calls: the call and whether it succeeded
  seen,        \* seen_calls: call -> result
  products, suppliers, records,   \* the buckets
  status, answer, error,          \* outcome fields of the result
  elapsed,     \* time since the run started
  idle,        \* the part of it spent by the consumer
  chats,       \* model calls made (history)
  chatAt,      \* when the latest of them was begun (history)
  sent         \* call -> times it reached the MCP server (history)

buckets == <<products, suppliers, records>>
outcome == <<status, answer, error>>
clock   == <<elapsed, idle>>
vars == <<pc, step, nudged, pending, messages, events, trace, toolCalls, seen,
          buckets, outcome, clock, chats, chatAt, sent>>

Waiting  == {"loop", "calls", "execute", "cut", "finish"}
Terminal == {"done", "raised", "abandoned"}

Result  == [success : BOOLEAN, rows : Seq(Row)]
Failure == [success |-> FALSE, rows |-> <<>>]
Message == [role : {"system", "user", "assistant", "tool"}, calls : Seq(Calls)]
Event   == {"started", "decision", "retry", "finished", "error", "deadline",
            "budget_exhausted", "tool_started", "tool_completed", "tool_error"}

Say(role)     == [role |-> role, calls |-> <<>>]
Ask(calls)    == [role |-> "assistant", calls |-> calls]
Reply(call)   == [role |-> "tool", calls |-> <<call>>]
Turns         == UNION {[1..n -> Calls] : n \in 1..MaxCalls}

HasData == AnyData(products, suppliers, records)

(* ToolBelt.execute: an unknown tool and a blocked statement fail without  *)
(* a request; otherwise the server answers with rows (or text, which has   *)
(* none), reports an error, or cannot be reached in time.                  *)
Outcomes(call) ==
  IF call \in Refused THEN {Failure}
  ELSE {Failure} \cup {[success |-> TRUE, rows |-> rows] : rows \in Replies}

TimeOf(call) == IF call \in Refused THEN {0} ELSE 0..CallTime

Init ==
  /\ pc = "loop" /\ step = 0 /\ nudged = FALSE /\ pending = <<>>
  /\ messages = <<Say("system"), Say("user")>>
  /\ events = <<"started">>
  /\ trace = <<>> /\ toolCalls = <<>> /\ seen = NoRows
  /\ products = NoRows /\ suppliers = NoRows /\ records = {}
  /\ status = "incomplete" /\ answer = "none" /\ error = "none"
  /\ elapsed = 0 /\ idle = 0
  /\ chats = 0 /\ chatAt = 0 /\ sent = [c \in Calls |-> 0]

-------------------------------------------------------------------------------
(* The head of the while loop, and the else branch when the budget is gone. *)

\* Mutants are named <definition>_<fault>; no action uses them.
BudgetSpent_OffByOne == step > MaxSteps
DeadlineGone_StaleClock == chatAt > Deadline
DeadlineGone_Unchecked  == FALSE
BudgetSpent   == step >= MaxSteps
DeadlineGone  == elapsed > Deadline

Exhaust ==
  /\ pc = "loop" /\ BudgetSpent
  /\ pc' = "cut" /\ error' = "budget"
  /\ events' = Append(events, "budget_exhausted")
  /\ UNCHANGED <<step, nudged, pending, messages, trace, toolCalls, seen,
                 buckets, status, answer, clock, chats, chatAt, sent>>

Expire ==
  /\ pc = "loop" /\ ~BudgetSpent /\ DeadlineGone
  /\ step' = step + 1
  /\ pc' = "cut" /\ error' = "deadline"
  /\ events' = Append(events, "deadline")
  /\ UNCHANGED <<nudged, pending, messages, trace, toolCalls, seen, buckets,
                 status, answer, clock, chats, chatAt, sent>>

(* self._llm.chat is called once and takes at most ChatTime.               *)
Chat ==
  /\ chats' = chats + 1 /\ chatAt' = elapsed
  /\ \E d \in 0..ChatTime : elapsed' = elapsed + d
  /\ UNCHANGED idle

(* One pass through the loop up to the model's reply.                      *)
Reason ==
  /\ pc = "loop" /\ ~BudgetSpent /\ ~DeadlineGone
  /\ step' = step + 1
  /\ Chat

(* LLMError: the run ends with status "error", whatever was found.         *)
ModelFails ==
  /\ Reason
  /\ pc' = "finish" /\ status' = "error" /\ error' = "model"
  /\ events' = Append(events, "error")
  /\ UNCHANGED <<nudged, pending, messages, trace, toolCalls, seen, buckets,
                 answer, sent>>

(* Any other exception of the client (a body that is not JSON, say) is not *)
(* caught and leaves the generator.                                        *)
ModelRaises ==
  /\ Reason
  /\ pc' = "raised"
  /\ UNCHANGED <<nudged, pending, messages, events, trace, toolCalls, seen,
                 buckets, outcome, sent>>

EmptyReply ==
  /\ Reason
  /\ ~nudged /\ nudged' = TRUE
  /\ trace' = Append(trace, "finish")
  /\ messages' = Append(messages, Say("user"))
  /\ events' = Append(events, "retry")
  /\ UNCHANGED <<pc, pending, toolCalls, seen, buckets, outcome, sent>>

Verdict_AlwaysComplete == "complete"
Verdict == IF HasData THEN "complete" ELSE "no_results"

(* A reply without tool calls ends the run; a second empty one counts as   *)
(* an (empty) answer.                                                      *)
FinishTurn(text) ==
  /\ Reason
  /\ text = "blank" => nudged
  /\ trace' = Append(trace, "finish")
  /\ answer' = text /\ status' = Verdict
  /\ events' = Append(events, "finished")
  /\ pc' = "finish"
  /\ UNCHANGED <<nudged, pending, messages, toolCalls, seen, buckets, error,
                 sent>>

CallTurn(calls) ==
  /\ Reason
  /\ trace' = Append(trace, "call_tool")
  /\ messages' = Append(messages, Ask(calls))
  /\ events' = Append(events, "decision")
  /\ pending' = calls
  /\ pc' = "calls"
  /\ UNCHANGED <<nudged, toolCalls, seen, buckets, outcome, sent>>

-------------------------------------------------------------------------------
(* The for loop over turn.tool_calls.                                      *)

StartCall ==
  /\ pc = "calls"
  /\ pc' = "execute"
  /\ events' = Append(events, "tool_started")
  /\ UNCHANGED <<step, nudged, pending, messages, trace, toolCalls, seen,
                 buckets, outcome, clock, chats, chatAt, sent>>

Repeated_NeverNoticed(call) == FALSE
Repeated(call) == call \in DOMAIN seen

\* Mutants: the rest of the turn is dropped after its first call; a failed
\* call is answered and announced but not recorded.
Remaining_Dropped == <<>>
Remaining == Tail(pending)
Recorded_SuccessOnly(call, result) ==
  IF result.success THEN Append(toolCalls, [call |-> call, success |-> TRUE])
                    ELSE toolCalls
Recorded(call, result) ==
  Append(toolCalls, [call |-> call, success |-> result.success])

(* What follows once the result is there: file the rows, record the call,  *)
(* answer the model, tell the consumer.                                    *)
Observe(call, result) ==
  /\ IF result.success
       THEN /\ products'  = AbsorbProducts(products, result.rows)
            /\ suppliers' = AbsorbSuppliers(suppliers, result.rows)
            /\ records'   = AbsorbRecords(records, result.rows)
       ELSE UNCHANGED buckets
  /\ toolCalls' = Recorded(call, result)
  /\ messages' = Append(messages, Reply(call))
  /\ events' = Append(events, IF result.success THEN "tool_completed"
                                                ELSE "tool_error")
  /\ pending' = Remaining
  /\ pc' = IF Remaining = <<>> THEN "loop" ELSE "calls"
  /\ UNCHANGED <<step, nudged, trace, outcome, idle, chats, chatAt>>

ReplayCall_Fresh ==
  /\ pc = "execute"
  /\ LET call == Head(pending) IN
       /\ Repeated(call)
       /\ \E result \in Outcomes(call) : Observe(call, result)
  /\ UNCHANGED <<seen, elapsed, sent>>

(* seen_calls answers a call that was executed before, failures included.  *)
ReplayCall ==
  /\ pc = "execute"
  /\ LET call == Head(pending) IN
       /\ Repeated(call)
       /\ Observe(call, seen[call])
  /\ UNCHANGED <<seen, elapsed, sent>>

ExecuteCall ==
  /\ pc = "execute"
  /\ LET call == Head(pending) IN
       /\ ~Repeated(call)
       /\ \E result \in Outcomes(call), d \in TimeOf(call) :
            /\ seen' = [c \in DOMAIN seen \cup {call} |->
                          IF c = call THEN result ELSE seen[c]]
            /\ elapsed' = elapsed + d
            /\ Observe(call, result)
       /\ sent' = [sent EXCEPT ![call] = IF call \in Refused THEN @ ELSE @ + 1]

(* The tool belt catches MCPClientError only: an exception raised while    *)
(* the reply is parsed leaves the generator.                               *)
CallRaises ==
  /\ pc = "execute"
  /\ LET call == Head(pending) IN
       /\ ~Repeated(call) /\ call \notin Refused
       /\ \E d \in TimeOf(call) : elapsed' = elapsed + d
       /\ sent' = [sent EXCEPT ![call] = @ + 1]
  /\ pc' = "raised"
  /\ UNCHANGED <<step, nudged, pending, messages, events, trace, toolCalls,
                 seen, buckets, outcome, idle, chats, chatAt>>

-------------------------------------------------------------------------------
(* After the loop.                                                         *)

WantsSummary_Always == answer = "none" /\ status = "incomplete"

(* A run that was cut off with data in hand asks for a summary, without    *)
(* tools and without looking at the clock again.                           *)
WantsSummary == answer = "none" /\ status = "incomplete" /\ HasData

Summarize ==
  /\ pc = "cut" /\ WantsSummary
  /\ messages' = Append(messages, Say("user"))
  /\ Chat
  /\ \/ /\ answer' = "text"
        /\ trace' = Append(trace, "forced_finish")
        /\ events' = Append(events, "finished")
        /\ pc' = "finish"
     \/ /\ pc' \in {"done",      \* blank summary, or LLMError: no answer
                    "raised"}    \* any other exception
        /\ UNCHANGED <<answer, trace, events>>
  /\ UNCHANGED <<step, nudged, pending, toolCalls, seen, buckets, status, error,
                 sent>>

Delivers_OnlyAnswered == pc = "finish"
Delivers == pc = "finish" \/ (pc = "cut" /\ ~WantsSummary)

YieldFinal ==
  /\ Delivers
  /\ pc' = "done"
  /\ UNCHANGED <<step, nudged, pending, messages, events, trace, toolCalls,
                 seen, buckets, outcome, clock, chats, chatAt, sent>>

-------------------------------------------------------------------------------
(* The consumer of the generator.                                          *)

Idle ==
  /\ pc \in Waiting /\ idle < IdleTime
  /\ idle' = idle + 1 /\ elapsed' = elapsed + 1
  /\ UNCHANGED <<pc, step, nudged, pending, messages, events, trace, toolCalls,
                 seen, buckets, outcome, chats, chatAt, sent>>

Abandon ==
  /\ pc \in Waiting
  /\ pc' = "abandoned"
  /\ UNCHANGED <<step, nudged, pending, messages, events, trace, toolCalls,
                 seen, buckets, outcome, clock, chats, chatAt, sent>>

Ended == pc \in Terminal /\ UNCHANGED vars

Turn == \/ ModelFails \/ ModelRaises \/ EmptyReply
        \/ \E text \in {"text", "blank"} : FinishTurn(text)
        \/ \E calls \in Turns : CallTurn(calls)

Tool == StartCall \/ ReplayCall \/ ExecuteCall \/ CallRaises

Agent == Exhaust \/ Expire \/ Turn \/ Tool \/ Summarize \/ YieldFinal

Next == Agent \/ Idle \/ Abandon \/ Ended

Spec == Init /\ [][Next]_vars

(* Every model and tool call returns within its timeout and the consumer   *)
(* keeps pulling, or closes the generator: the harness never just stops.   *)
FairSpec == Spec /\ WF_vars(Agent)

-------------------------------------------------------------------------------
TypeOK ==
  /\ pc \in Waiting \cup Terminal
  /\ step \in 0..MaxSteps /\ nudged \in BOOLEAN
  /\ pending \in Seq(Calls) /\ Len(pending) <= MaxCalls
  /\ pc \in {"calls", "execute"} => pending # <<>>
  /\ messages \in Seq(Message)
  /\ events \in Seq(Event)
  /\ trace \in Seq({"call_tool", "finish", "forced_finish"})
  /\ toolCalls \in Seq([call : Calls, success : BOOLEAN])
  /\ DOMAIN seen \subseteq Calls
  /\ \A c \in DOMAIN seen : seen[c] \in Result
  /\ status \in {"incomplete", "complete", "no_results", "error"}
  /\ answer \in {"none", "text", "blank"}
  /\ error \in {"none", "budget", "deadline", "model"}
  /\ elapsed \in Nat /\ idle \in 0..IdleTime
  /\ chats \in Nat /\ chatAt \in Nat
  /\ sent \in [Calls -> Nat]

(* Whenever the model is about to be asked, the conversation is one a chat *)
(* API accepts: the calls of every assistant message are answered, in      *)
(* order and by nothing else, directly after it, and no tool reply stands  *)
(* anywhere else.  Replays, refusals and failures must all have answered.  *)
ConversationWellFormed ==
  pc \in {"loop", "cut"} =>
    \A i \in DOMAIN messages :
      /\ \A k \in DOMAIN messages[i].calls :
           messages[i].role = "assistant" =>
             /\ i + k \in DOMAIN messages
             /\ messages[i + k] = Reply(messages[i].calls[k])
      /\ messages[i].role = "tool" =>
           \E j \in 1..(i - 1) : messages[j].role = "assistant"
                                 /\ i - j <= Len(messages[j].calls)

(* The outcome a caller branches on: "complete" and "no_results" say       *)
(* whether data was found, an error text is present exactly for the runs   *)
(* that were cut off or failed, and a run without an answer says why.      *)
OutcomeConsistent ==
  pc = "done" =>
    /\ status = "complete"   => HasData
    /\ status = "no_results" => ~HasData
    /\ error = "none" <=> status \in {"complete", "no_results"}
    /\ answer = "none" => error # "none"
    /\ status = "incomplete" /\ answer # "none" => HasData
    /\ status = "error" => answer = "none"

(* The three ledgers of a run tell one story: the results announced to the *)
(* consumer, the results recorded in tool_calls and the replies given to   *)
(* the model are the same, in the same order.                              *)
ToolEvents  == Among({"tool_completed", "tool_error"}, events)
ToolReplies == Among([role : {"tool"}, calls : Seq(Calls)], messages)

LedgersAgree ==
  /\ ToolEvents = [i \in DOMAIN toolCalls |->
                     IF toolCalls[i].success THEN "tool_completed" ELSE "tool_error"]
  /\ ToolReplies = [i \in DOMAIN toolCalls |-> Reply(toolCalls[i].call)]

(* A call reaches the MCP server at most once in a run, however often the  *)
(* model repeats it, and a refused one never does.                         *)
OncePerCall ==
  \A c \in Calls : sent[c] <= (IF c \in Refused THEN 0 ELSE 1)

(* has_data() is true exactly if a call of this run succeeded with rows:   *)
(* no failure, refusal or text reply can turn a run "complete", and rows   *)
(* of any shape do.                                                        *)
DataIsGrounded ==
  HasData <=> \E c \in DOMAIN seen : seen[c].success /\ seen[c].rows # <<>>

(* At most one model call per budgeted step; one more only to summarize    *)
(* data of a run that was cut off.                                         *)
BudgetBound ==
  /\ chats <= step + 1
  /\ chats > step => status = "incomplete" /\ HasData

(* The clock is read once per step, so a run overshoots its deadline by at *)
(* most one turn (a model call and all its tool calls), one summary and    *)
(* whatever its consumer idled.                                            *)
WallClockBound ==
  elapsed <= Deadline + idle + 2 * ChatTime + MaxCalls * CallTime

(* The deadline is soft by one call: a model call begun after it is the    *)
(* forced summary, the last thing the run does, and the run stays          *)
(* "incomplete" whatever that call answers.                                *)
LateCallsOnlySummarize ==
  chatAt > Deadline =>
    pc \in {"finish"} \cup Terminal /\ status = "incomplete" /\ HasData

(* A replayed call refiles rows that were filed before: the result gains   *)
(* no product, supplier or record from it.                                 *)
ReplayAddsNothing ==
  [][pc = "execute" /\ Head(pending) \in DOMAIN seen =>
       /\ DOMAIN products' = DOMAIN products
       /\ DOMAIN suppliers' = DOMAIN suppliers
       /\ records' = records]_vars

(* Every run ends: with a final result, an exception or a closed generator. *)
Termination == <>(pc \in Terminal)

-------------------------------------------------------------------------------
(* The run seen from outside.                                              *)
Phase == CASE pc \in {"loop", "calls", "execute"} -> "running"
           [] pc = "finish"                       -> "decided"
           [] OTHER                               -> pc

Run == INSTANCE AgentRun WITH phase <- Phase, spent <- chats, found <- HasData,
                              verdict <- status

(* The loop keeps every promise of AgentRun: model calls are bounded by    *)
(* the budget plus one summary, data is never lost again, and the verdict  *)
(* is given once, fits the data and is delivered.                          *)
ImplementsRun == Run!FairSpec

-------------------------------------------------------------------------------
(* What the documentation says and the code does not do.                   *)

(* run_stream: "a terminal {type: final}" ends every stream.               *)
FinalAlwaysComes == pc # "raised"

(* "give the agent one chance to answer": a run whose last reply was empty *)
(* has asked the model again before giving up on its step budget, if only  *)
(* for a summary.                                                          *)
NudgeIsHonoured ==
  pc = "done" /\ error = "budget" /\ trace # <<>> /\ trace[Len(trace)] = "finish" =>
    chats > step
===============================================================================
