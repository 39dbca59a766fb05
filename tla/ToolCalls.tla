------------------------------- MODULE ToolCalls -------------------------------
(***************************************************************************)
(* The model turns of a query and their tool calls, from the replies of    *)
(* the language model to the MCP server and back into the conversation,    *)
(* which every request carries whole: the decoding and the encoding in the *)
(* two model clients (app/llm.py), the loop over the calls of a turn       *)
(* (app/agent/agent.py), the catalog and the read-only guard of the tool   *)
(* belt (app/agent/tools.py), and the choice of the server's SQL tool      *)
(* (app/mcp_client.py).                                                    *)
(*                                                                         *)
(* A SQL text is a sequence of tokens: "read" (SELECT, WITH), "write" (a   *)
(* keyword of _FORBIDDEN_SQL), "word" (anything else), "semi" (a           *)
(* semicolon), "blank" (white space) and "quoted", a literal with such a   *)
(* keyword or a semicolon in it.  The guard is advisory, the role of the   *)
(* database user is the guarantee, so which keywords write is taken from   *)
(* the code.  Calls that were made before in the same run are answered     *)
(* from AgentLoop's cache; what is decided about a call here depends on    *)
(* the call alone.  Messages without calls (system, user, the retry of an  *)
(* empty reply) are passed on as they are and left out.                    *)
(***************************************************************************)
EXTENDS Naturals, Sequences, FiniteSets, SequencesExt

CONSTANTS
  Tools,       \* the tools a server may have: [words, takes] by name
  Listings,    \* the order in which it may list some of them
  Allowlists,  \* settings of MCP_TOOL_ALLOWLIST: sets of names
  Replies,     \* Replies[n]: the calls that the n-th turn with calls may
               \* carry (bound: there are no more such turns)
  None

(* words: what the name suggests, "inspect" (explain, analyze, plan) or    *)
(* "execute" (execute, run, query, sql); takes: its string parameters with *)
(* one of the names below.  A call of a reply has an id or None, a name,   *)
(* and arguments in one of the forms that a server sends: by key a text,   *)
(* or None for a value that is no text, which the guard does not look at.  *)
(* Ids that a server gives are distinct in a reply, and none is the one    *)
(* made up here for another call of it; in the next reply they may recur.  *)
SqlNames == {"sql", "query", "statement"}
Forms    == {"dict", "json", "unreadable"}
Tokens   == {"read", "write", "word", "semi", "blank", "quoted"}

AnyReply == UNION {Replies[n] : n \in DOMAIN Replies}

ASSUME CallAssumption ==
  /\ \A t \in DOMAIN Tools : /\ Tools[t].words \subseteq {"inspect", "execute"}
                             /\ Tools[t].takes \subseteq SqlNames
  /\ \A listing \in Listings : /\ listing \in Seq(DOMAIN Tools)
                               /\ IsInjective(listing)
  /\ None \notin [name : DOMAIN Tools, param : SqlNames]
  /\ \A reply \in AnyReply :
       /\ reply \in Seq(ToSet(reply)) /\ reply # <<>>
       /\ \A i \in DOMAIN reply :
            /\ reply[i].form \in Forms
            /\ \A key \in DOMAIN reply[i].arguments :
                 reply[i].arguments[key] # None
                   => reply[i].arguments[key] \in Seq(Tokens)
            /\ \A j \in DOMAIN reply \ {i} : reply[i].id # None =>
                 reply[i].id \notin {reply[j].id, <<"call", j>>}

VARIABLES
  provider,  \* "ollama" or "openai"
  listing,   \* the tools the server lists
  allowlist,
  sqlTool,   \* _sql_tool: [name, param] or None
  catalog,   \* the tools of the belt
  turn,      \* calls of the AssistantTurn
  answered,  \* how many of them have their reply
  messages,  \* the conversation: assistant messages and tool replies
  request,   \* the conversation as the model server was last sent it
  pc         \* "connect", "query", "chat", "calls", "done"

server == <<provider, listing, allowlist>>
vars == <<server, sqlTool, catalog, turn, answered, messages, request, pc>>

\* Mutants are named <definition>_<fault>; no action uses them.

-------------------------------------------------------------------------------
SqlParamNames == <<"sql", "query", "statement">>

Candidates == {i \in DOMAIN listing : Tools[listing[i]].takes # {}}
ParamOf(t) ==
  SqlParamNames[Min({i \in DOMAIN SqlParamNames : SqlParamNames[i] \in Tools[t].takes})]

Rank_ExecuteFirst(t) == IF "execute" \in Tools[t].words THEN 0
                        ELSE IF "inspect" \in Tools[t].words THEN 2 ELSE 1
Rank(t) == IF "inspect" \in Tools[t].words THEN 2
           ELSE IF "execute" \in Tools[t].words THEN 0 ELSE 1

(* _find_sql_tool: the first of the best rank, unless it only inspects.    *)
FindSqlTool ==
  LET best == {i \in Candidates : Rank(listing[i]) # 2 /\
                 \A j \in Candidates : Rank(listing[i]) <= Rank(listing[j])}
  IN IF best = {} THEN None
     ELSE LET t == listing[Min(best)] IN [name |-> t, param |-> ParamOf(t)]

(* ToolBelt: an allowlist that names no tool of the server is ignored.     *)
Offered ==
  LET allowed == ToSet(listing) \cap allowlist
  IN  IF allowed = {} THEN ToSet(listing) ELSE allowed

-------------------------------------------------------------------------------
(* _blocked_sql.                                                           *)
SqlArgNames_TwoOnly == {"sql", "query"}
SqlArgNames == {"sql", "query", "statement"}

Lower(key) == IF key = "SQL" THEN "sql" ELSE key

RStrip(sql, token) ==
  SubSeq(sql, 1, Max({0} \cup {i \in DOMAIN sql : sql[i] # token}))
Strip(sql) == Reverse(RStrip(Reverse(RStrip(sql, "blank")), "blank"))

ReadOnly(sql) ==
  /\ sql[1] = "read"
  /\ ToSet(sql) \cap {"write", "quoted"} = {}
  /\ "semi" \notin ToSet(RStrip(RStrip(sql, "blank"), "semi"))

Blocked(arguments) ==
  \E key \in DOMAIN arguments :
    /\ Lower(key) \in SqlArgNames /\ arguments[key] # None
    /\ Strip(arguments[key]) # <<>> /\ ~ReadOnly(Strip(arguments[key]))

(* ToolBelt.execute, up to the request to the server.                      *)
Verdict(call) == IF call.name \notin catalog THEN "unknown"
                 ELSE IF Blocked(call.arguments) THEN "rejected" ELSE "sent"

-------------------------------------------------------------------------------
(* llm.py.  Arguments may be a dict or the JSON text of one; of anything   *)
(* else nothing is left.                                                   *)
CallId_NoIndex(raw, index) == IF raw.id = None THEN <<"call", 0>> ELSE raw.id
CallId(raw, index) == IF raw.id = None THEN <<"call", index>> ELSE raw.id

Parsed(raw) == IF raw.form = "unreadable" THEN <<>> ELSE raw.arguments

Decoded(reply) ==
  [i \in DOMAIN reply |-> [id |-> CallId(reply[i], i), name |-> reply[i].name,
                           arguments |-> Parsed(reply[i])]]

(* to_message and the two _encode_messages: Ollama gets the calls without  *)
(* ids, an OpenAI-compatible server gets the arguments as JSON text.       *)
ForOllama(call) == [id |-> None, name |-> call.name, form |-> "dict",
                    arguments |-> call.arguments]
ForOpenAI(call) == [id |-> call.id, name |-> call.name, form |-> "json",
                    arguments |-> call.arguments]
Encoded(message) ==
  IF message.role # "assistant" THEN message
  ELSE [role  |-> "assistant",
        calls |-> [i \in DOMAIN message.calls |->
                     IF provider = "openai" THEN ForOpenAI(message.calls[i])
                                            ELSE ForOllama(message.calls[i])]]

-------------------------------------------------------------------------------
Init ==
  /\ provider \in {"ollama", "openai"}
  /\ listing \in Listings /\ allowlist \in Allowlists
  /\ sqlTool = None /\ catalog = {} /\ turn = <<>> /\ answered = 0
  /\ messages = <<>> /\ request = <<>>
  /\ pc = "connect"

Connect ==
  /\ pc = "connect" /\ pc' = "query"
  /\ sqlTool' = FindSqlTool
  /\ UNCHANGED <<server, catalog, turn, answered, messages, request>>

NewBelt ==
  /\ pc = "query" /\ pc' = "chat"
  /\ catalog' = Offered
  /\ UNCHANGED <<server, sqlTool, turn, answered, messages, request>>

(* The whole conversation is encoded anew for each request.                *)
SendMessages == request' = [p \in DOMAIN messages |-> Encoded(messages[p])]

(* What the model may ask for next.                                        *)
Said ==
  LET n == 1 + Cardinality({p \in DOMAIN messages : messages[p].role = "assistant"})
  IN  IF n \in DOMAIN Replies THEN Replies[n] ELSE {}

(* The turn is put into the conversation as it was decoded.                *)
Chat(reply) ==
  /\ pc = "chat" /\ pc' = "calls"
  /\ SendMessages
  /\ turn' = Decoded(reply) /\ answered' = 0
  /\ messages' = Append(messages, [role |-> "assistant", calls |-> turn'])
  /\ UNCHANGED <<server, sqlTool, catalog>>

(* A reply without calls is the answer.                                    *)
Finish ==
  /\ pc = "chat" /\ pc' = "done"
  /\ SendMessages
  /\ UNCHANGED <<server, sqlTool, catalog, turn, answered, messages>>

(* What a tool reply reports.                                              *)
Executed(call) == [name    |-> call.name, arguments |-> call.arguments,
                   verdict |-> Verdict(call)]

ExecuteCall ==
  /\ pc = "calls"
  /\ answered' = answered + 1
  /\ LET call == turn[answered'] IN
       messages' = Append(messages, [role |-> "tool", id |-> call.id,
                                     content |-> Executed(call)])
  /\ pc' = IF answered' = Len(turn) THEN "chat" ELSE "calls"
  /\ UNCHANGED <<server, sqlTool, catalog, turn, request>>

Next == Connect \/ NewBelt \/ (\E reply \in Said : Chat(reply)) \/ Finish
          \/ ExecuteCall

Spec == Init /\ [][Next]_vars

-------------------------------------------------------------------------------
(* A text that is a single statement which reads: up to one statement has  *)
(* anything in it, begins by reading and writes nowhere.                   *)
ReadsOnly(sql) ==
  LET body == {i \in DOMAIN sql : sql[i] \notin {"blank", "semi"}}
  IN  body # {} => /\ sql[Min(body)] = "read"
                   /\ \A i \in Min(body)..Max(body) : sql[i] \notin {"write", "semi"}

(* Whatever the guard may refuse: a literal that looks like more, or       *)
(* semicolons that are not simply at the end.                              *)
Plain(sql) ==
  /\ ReadsOnly(sql) /\ "quoted" \notin ToSet(sql)
  /\ \A i \in DOMAIN sql \ {1} : sql[i] = "semi" => sql[i - 1] # "blank"
  /\ sql = <<>> \/ sql[1] # "semi"

(* A call reaches the server only as a tool it lists, allowed if any is,   *)
(* and any text under a name by which a tool can take SQL is a single      *)
(* reading statement, though the client and the guard keep their own lists *)
(* of these names.  And the guard costs the model no plain read.           *)
OnlyReadsAreSent ==
  \A p \in DOMAIN messages : messages[p].role = "tool" =>
    LET call  == messages[p].content
        sqlOf == {key \in DOMAIN call.arguments :
                    Lower(key) \in SqlNames /\ call.arguments[key] # None}
    IN /\ call.verdict = "sent" =>
            /\ call.name \in ToSet(listing)
            /\ \/ call.name \in allowlist
               \/ allowlist \cap ToSet(listing) = {}
            /\ \A key \in sqlOf : ReadsOnly(call.arguments[key])
       /\ call.verdict = "rejected" =>
            \E key \in sqlOf : ~Plain(call.arguments[key])

(* "Locate the tool that EXECUTES raw SQL": the tool introspection uses is *)
(* one the server lists, takes SQL under the parameter it will get, is no  *)
(* inspection tool, and is an execution tool if the server has one.        *)
SqlToolExecutes ==
  LET takers == {t \in ToSet(listing) : Tools[t].takes # {}
                                        /\ "inspect" \notin Tools[t].words}
      executors == {t \in takers : "execute" \in Tools[t].words}
  IN pc # "connect" =>
       IF takers = {} THEN sqlTool = None
       ELSE /\ sqlTool # None /\ sqlTool.param \in Tools[sqlTool.name].takes
            /\ sqlTool.name \in (IF executors = {} THEN takers ELSE executors)

(* Which call of the conversation a model server takes a tool reply for:   *)
(* one with an OpenAI-compatible API goes by the id, and by the latest     *)
(* turn that has it; Ollama gets no ids with the calls and goes by the     *)
(* order in the latest turn.                                               *)
Turns == {q \in DOMAIN request : request[q].role = "assistant"}

HasId(q, id) == \E j \in DOMAIN request[q].calls : request[q].calls[j].id = id

TakenFor(p, q, j) ==
  IF provider = "openai"
  THEN /\ request[q].calls[j].id = request[p].id
       /\ \A r \in Turns : q < r /\ r < p => ~HasId(r, request[p].id)
  ELSE q + j = p /\ \A r \in Turns : ~(q < r /\ r < p)

(* In every request, over all its turns, each tool reply is taken for one  *)
(* call and no other, and that call is, read back, the one the reply is    *)
(* about; and no call is left without its reply.  Made-up ids begin anew   *)
(* in each turn, so ids recur in a conversation.                           *)
RepliesMatchCalls ==
  /\ \A p \in DOMAIN request : request[p].role = "tool" =>
       \E q \in Turns : \E j \in DOMAIN request[q].calls :
         LET call == request[q].calls[j]
             told == request[p].content
         IN /\ q < p /\ TakenFor(p, q, j)
            /\ \A r \in Turns : \A i \in DOMAIN request[r].calls :
                 r < p /\ TakenFor(p, r, i) => r = q /\ i = j
            /\ call.name = told.name /\ Parsed(call) = told.arguments
            /\ call.form = IF provider = "openai" THEN "json" ELSE "dict"
  /\ \A q \in Turns : \A j \in DOMAIN request[q].calls :
       \E p \in DOMAIN request : /\ q < p /\ request[p].role = "tool"
                                 /\ TakenFor(p, q, j)
===============================================================================
