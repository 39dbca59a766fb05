# Formal model of the Master Data Discovery Agent (L3)

TLA+ modules, TLC configurations and TLAPS proofs for the agent in `src/`: the
loop that lets a language model query a database through an MCP server, the
shared MCP connection and the tool calls under it, the HTTP API, audit trail and
browser page above it, and the script that seeds the database.

## 1. The system

```
 browser page ─► routes.py ──► MasterDataAgent.run_stream ──► LLM client ──► model
     ▲   SSE       │   agent.py       │
     │             │                  └──► ToolBelt.execute ──► MCPClient.call_tool
     │             ▼                        tools.py             mcp_client.py
     └── history ◄─ executions/*.json                            │  loop thread
                    audit.py                                     ▼
                                                     MCP server ──► PostgreSQL ◄── init_db.py
```

| Component | State it keeps | Operations | What is hard about it |
|---|---|---|---|
| Agent loop (`app/agent/agent.py`) | conversation, events, reasoning trace, tool calls, call cache, buckets, outcome fields; all local to one generator | `run_stream`, pulled yield by yield by `run` or by the SSE endpoint | budget and deadline, several calls per turn, replay of repeated calls, one retry of an empty reply, a forced summary, exceptions, a consumer that stops pulling |
| Row buckets (`_absorb`) | products, suppliers, records | file the rows of one reply | rows in any order over any number of replies; full supplier rows against stubs |
| MCP client (`app/mcp_client.py`, lifespan in `app/main.py`) | `_loop`, `_session`, `_shutdown`, `_ready`, `_connect_error`, `_tools`; shared by threads, no lock | `connect`, `close`, `_lifecycle`, `call_tool`, `list_tools` | main thread, loop thread and request threads interleave; each wait may time out; the server comes and goes |
| Query API and audit trail (`app/api/routes.py`, `app/agent/audit.py`, `get_llm_client`) | trace files, the shared model client | plain query, streamed query, history listing by pages, loading of one trace | abandoned streams, torn files, crashes, a full disk, listing while others write, first requests that race for the model client |
| Tool belt (`app/agent/tools.py`) | the tool list of one query | catalog under an allowlist; `execute`: refuse, call, report | a guard over SQL texts; which failures are caught |
| LLM clients (`app/llm.py`) | none of their own | `chat`: decode the reply, encode the conversation, for two providers | calls without ids, arguments in several forms, which failures become `LLMError` |
| Result parsing, SQL tool choice (`app/mcp_client.py`) | none | `_parse_rows`, `_loads`, `_find_sql_tool` | formats and names of servers that are not under control |
| Seeding (`scripts/init_db.py`, `scripts/init_db.sql`) | the database | two transactions, statement by statement | interruption, re-run, other sessions |
| Streamlit page (`ui/streamlit_app.py`) | one script run per click | the agent tab reads a stream and shows its end; two tabs show the answer of a GET | a stream cut or left anywhere |
| Settings, schemas, logging; evaluation script | - | - | not modelled, see section 7 |

How they interact: the lifespan connects one `MCPClient` before the first
request. Each request builds a `ToolBelt` from the client's cached tool list and
a `MasterDataAgent` on it; a plain request pulls `run_stream` to its end in one
thread, a streamed one is pulled item by item by the web server, in a worker
thread each time. A tool call blocks its thread on a future that the loop thread
resolves. The final result is written to `executions/<execution_id>.json` and
then sent. The history endpoint reads that directory whenever it is asked.

What makes each component correct:

- Agent loop: bounded work; a conversation the chat API accepts; one verdict
  that fits the data; events, recorded calls and replies that agree; data that
  comes from retrieved rows only; an end.
- Buckets: nothing invented, nothing lost or misfiled, full supplier rows win.
- MCP client: no use before the tools are known, no session without a running
  loop, nothing left or coming back after `close()`, every wait ends.
- API and audit: stored before announced, nothing torn is listed, nothing owed is
  missed, no request hangs; one model client for all once the first race is over.
- Tool calls: only listed tools and single reading statements are sent, plain reads
  are never refused, and each tool reply is taken for the call it is about.
- Tool replies: nothing a server says is lost on the way to the model, and "0 rows" is
  said of nothing that holds a record.
- Page: what it shows is what happened, and it never waits for ever.
- Seeding: nobody sees half a seed, the role is never short of its rights, and a
  re-run works from whatever an earlier run left.

`PROJECT.json` lists the hazards, each at the line where it bites, with the
properties that would catch it.

## 2. Modules

| Module | Models | Role |
|---|---|---|
| `RowBuckets` | `_absorb`, `has_data` | operators: what a whole reply does to the buckets |
| `RowFeed` | the `for row in rows` loop of `_absorb` | checks those operators against the row-by-row loop |
| `AgentLoop` (extends `RowBuckets`) | `run_stream` with its calls into `llm.py` and `tools.py` | one action per stretch of code between two yields |
| `AgentRun` | what a caller of a run may rely on | abstract specification, implemented by `AgentLoop` |
| `McpClient` | `MCPClient` and the lifespan | four kinds of actors over shared fields |
| `QueryApi` | endpoints, audit trail, shared model client | requests, a history reader, crashes |
| `StreamView` (extends `QueryApi`) | the agent tab of the page | composition: a stream, the wire, the browser at its other end |
| `ToolCalls` | decoding and encoding in `llm.py`, the loop over the calls of a turn, `ToolBelt` up to the request, `_find_sql_tool` | the model turns of a query, with the conversation that each request carries whole |
| `ToolReplies` | the joining of content blocks in `call_tool`, `_parse_rows`, `MCPCallResult.count`, the end of `ToolBelt.execute`, `_render_observation` | from the blocks of a reply to what the model sees |
| `Seeding` | `run_init`, `_ensure_readonly_role`, `init_db.sql` | transactions, interruptions, other sessions |
| `MCRowFeed`, `MCAgentLoop`, `MCMcpClient`, `MCQueryApi`, `MCToolCalls`, `MCToolReplies`, `MCSeeding` | - | instances for TLC |
| `Filter` | `[row for row in ... if isinstance(row, dict)]` | an operator used by `ToolReplies` and by a property of `AgentLoop` |
| `AgentLoopProofs`, `McpClientProofs`, `QueryApiProofs` (with `StreamView`), `RowFeedProofs`, `SeedingProofs`, `ToolCallsProofs`, `ToolRepliesProofs` | - | theorems, see section 6 |
| `SequenceLemmas` | - | lemmas about positions and filters, which several of them use |

Operators named `<definition>_<fault>` are mutated forms of a definition, used
by no action: with the fault put in its place the property named in
`PROJECT.json` must fail. They show that each property says something of the code.

### RowBuckets and RowFeed

A row is what `_absorb` looks at: `product_id`, `supplier_id`, whether
`supplier_name` is present, and one field for all the other columns, so that two
different rows about one product exist. A column that is absent or NULL is `None`
(the code treats them alike). Buckets are functions from id to row; `records`, a
list without repetitions, is a set. `AbsorbProducts`, `AbsorbSuppliers` and
`AbsorbRecords` state the result of a reply without recursion, which is what the
proofs about `AgentLoop` use; `RowFeed` executes `AbsorbRow` with a fold and
`MatchesWalk` says that the two agree (`Put` and `SetDefault` are the item
assignment and the `setdefault` of a dict). TLC checks it for short replies and
`RowFeedProofs` proves it for all.

### AgentLoop and AgentRun

`pc` is where the generator is suspended: `loop` (about to test the `while`),
`calls` (before a tool's "started" event), `execute` (after it), `cut` (left the
loop by budget or deadline), `finish` (left it with a verdict), and the terminal
`done`, `raised`, `abandoned`. The other variables are the local variables of
`run_stream`; `chats`, `chatAt` and `sent` are history variables.

| Action | Code (`agent.py` unless named) |
|---|---|
| `Exhaust`, `Expire` | 288-291 `while ... else`; 165-171 deadline |
| `ModelFails`, `ModelRaises` | 175-180 `LLMError`; any other exception (`llm.py` 111, 198) |
| `EmptyReply`, `FinishTurn`, `CallTurn` | 182-205, 182-219, 182-234 |
| `StartCall`, `ReplayCall`, `ExecuteCall`, `CallRaises` | 236-287; `CallRaises` is an exception `ToolBelt.execute` does not catch |
| `Summarize`, `YieldFinal` | 293-327, 329-362 |
| `Idle`, `Abandon` | the consumer takes its time, or closes the generator, at any yield |

The model, the tools and the clock are nondeterministic: `Outcomes(call)` is a
refusal (unknown tool, blocked SQL), a failure, or rows; `Chat` takes up to
`ChatTime`, a call up to `CallTime` ticks. A text reply without rows is a success
with `<<>>`. Calls are identified by tool and arguments, as the cache key is. The
texts of messages and events are left out; roles, order and phases are kept.

`AgentRun` has four variables (phase, model calls spent, data found, verdict) and
says: the budget bounds the calls, data is never lost, one more call is spent
only on a run that was cut off with data, and the verdict is given once and fits
the data. `Run == INSTANCE AgentRun WITH ...` in `AgentLoop` is the mapping.

### McpClient

| Actor | Variables | Actions |
|---|---|---|
| main thread | `main`, `after`, `gaveUp` | `Connect`, `ReadyInTime`/`ReadyTimeout`, `CheckError`, `Introspected`/`IntrospectionRaises`, `StopServing`, `CloseSignal`, `UnwoundInTime`/`UnwindTimeout`, `StopLoop`, `JoinLoop`, `ClearLoop`, `ClearSession` |
| loop thread | `loop`, `stop`, `task`, `failing`, `signalled` | `LaunchReturns`/`LaunchFails`, `TransportOpens`, `Initialized`, `ToolsListed`, `ShutdownSeen`, `TaskFails`, `Unwound`, `LoopStops` |
| callers (request threads, and the main thread while it introspects) | `call` | `Begin`, `Bind`, `Submit`, then `Answered`, `Broken` or `CallTimeout` |
| MCP server | `server`, `flips` | `ServerFlips` |

`loopRef`, `session`, `shutdown`, `tools`, `ready`, `connectError` stand for the
client's fields. An action ends where another thread can interfere: at a blocking
wait, at an `await`, or between two reads or writes of a shared field that another
thread uses. So `call_tool` reads `_session` twice (check, then use) and
`_loop` once, each in an action of its own, and `close()` clears `_loop` and
`_session` in two. A wait with a timeout may end by the timeout in any state in
which its condition does not hold: `ReadyTimeout` (60 s), `UnwindTimeout` (10 s),
the join (5 s) and `CallTimeout` (120 s). The join can only time out while the
loop thread is in code that does not yield (`task = "launching"`: importing the
transport, spawning the server). A `loop.stop` queued meanwhile takes effect
before the task is resumed, hence `LaunchReturns`.

Introspection is one call by the main thread. Its `MCPClientError` is swallowed;
anything else that reading the reply raises leaves `connect()` and the lifespan, which
is not yet in its `try` (`IntrospectionRaises`): the application does not start,
nobody calls `close()`, and the process ends (`main = "aborted"`).

`TaskFails` in the state "waiting" stands for a transport whose task group cancels
the task when its server is gone. Whether that happens depends on the transport,
so it may happen and is never required.

### QueryApi

A request first needs the model client that all requests share: `Arrive` looks for
it, `BuildClient` makes one if there was none, whatever another thread did since,
and `TakeClient` reads the global again (llm.py:272-286 has no lock). `due` is a
history variable: the client a request must get because nobody was still making
one when it looked.

Then it is `streaming` (suspended at a yield) or `working` (inside
the run), `opening` and `writing` its file, `answering`, and one of the ends. A
run is seen as `AgentRun` promises it: at least one event, then a final result
or an exception. `write_text` is two steps, truncate and fill; a full disk
(`PersistFails`), a crash (`Crash`) or a reader can fall between them. Each of the
two gives the file a new modification time (`mtime`, from a clock `now` that counts
changes of files).

A listing is as fine as the code: `StartList(limit, offset)` finds the files
(`glob`), `Stat(r)` looks up the time of one of them, `SortList` orders them by the
times it was told and cuts the page, `ReadFile(r)` reads the next file on it, and
skips it if it does not parse. Requests go on writing between any two of these, so a
file can pass another one after its time was looked up. `owed` is a history
variable: the runs this listing must show, which are those announced as complete
before it began whose place is on the page whether or not the files that are
just being written pass them (`Newer`, `MayPass`). A client leaves with
`Disconnect`; the web server drops the generator between two items (`Drop`), and
a `next()` in progress runs to its yield, so a result that is being written when
its client leaves is still written.
`Loads(r)` is `load_execution`: whether the trace of `r` is found and parses.

### StreamView

`view[r]` is what the browser session of a stream holds: the items on the wire,
whether the connection is broken, the events shown, `final_response`,
`error_detail`, and the screen. `Produce(r)` is a step of `QueryApi` together with
the item it puts on the wire; `Read` is the body of the loop over the chunks,
`Finish` its regular end, `GiveUp` the `except` branch, and `Rendered` the final
`if`/`elif`/`else`. `Break` cuts the connection after any of the items under way
(network, or the read timeout of 600 s), `Leave` is a user who reloads or leaves,
`Die` a crash of the server that cuts its streams. The `error` item of an
exception without a message is `unexplained`: its empty detail counts as no
error in `Rendered`, as it does on the page.

### ToolCalls

A SQL text is a sequence of tokens: `read` (SELECT, WITH), `write` (a keyword of
`_FORBIDDEN_SQL`), `word`, `semi`, `blank`, and `quoted`, a literal that contains such
a keyword or a semicolon. `ReadOnly` is what the guard computes by stripping and
matching; `ReadsOnly` in the property says what a single reading statement is, by
position. Which keywords write is taken from the code: the guard is advisory, the
database role is the guarantee. An argument is a text or `None`, a value that is
no text and that the guard does not look at. Arguments arrive as an object, as
the JSON text of one, or unreadable, of which nothing is left. A model
server gives each call an id, or none and the position makes one up, anew in every
turn (`CallId`). `CallAssumption` says that the ids in one reply differ and that none
is the one made up for another call of the same reply; in later turns all of them may
recur. The turn is put into the conversation, its calls are answered one by one
(`ExecuteCall`), and the next request encodes all of it again (`SendMessages`), for
Ollama without ids and for the other provider with the arguments as text.

`TakenFor` in `RepliesMatchCalls` is how the receiver connects a tool reply with a
call: an OpenAI-compatible server by the id, in the latest turn before the reply
that has it, Ollama by the order in the latest turn. That is the convention of these
APIs, not code of this repository. Calls that repeat an earlier one are
`AgentLoop`'s concern.

### ToolReplies

`AgentLoop` takes the rows of a reply as given; `ToolReplies` says where they
come from. A reply is a sequence of content blocks, whose texts `call_tool` joins
with line breaks; several blocks cannot be read as one value, so each is a line
of its own. A text is what `_loads` makes of it: empty, white space, a list, an
object (with or without the fields `rows`, `results`, `data`, each of them a list
or not), another value, or lines, each read on its own. Items are rows or
anything else. `Execute` is one call (refused, not reached, reported as an error,
or answered), `Observe` the message made of its result, `ObserveAgain` the one
made when the model repeats the call. The rewriting of `Decimal(...)` and the like
inside `_loads` is left out: it only decides which form a text has.

### Seeding

`base` is the database as everybody sees it, `work` as the open transaction sees it;
a commit copies `work` to `base`, `RollBack` the other way. `Accepts` and `Apply`
are PostgreSQL: what a statement needs (no table refers to a dropped one, parents
are created and filled first, the role exists before it is granted anything) and
what it does. `Interrupted` may happen between any two statements, `Start` at any
time when no run is under way, with a name of the role that is valid or not
(`validRole`, looked at only after the first commit, `init_db.py:31`). Other sessions
add and remove tables (`AddTable`, `RemoveTable`), some with a foreign key to
`products`, some created by another user; a foreign key to `products` waits for the script's lock from the
moment it drops that table (`Unlocked`). `missed` are the tables
added while the role was being granted its rights for the first time, which may
fall between `GRANT ... ON ALL TABLES` and the default privileges.

## 3. Runs

| Run | Instance | Shows |
|---|---|---|
| `row_feed` | two products, one supplier, all rows, replies of up to two, two replies | `MatchesWalk`: operators equal the loop; `BucketsExact`: each bucket holds exactly what the rows say, nothing invented, lost or misfiled; `SupplierRowBeatsStub` |
| `agent_loop` | three calls (one refused), three kinds of replies, two steps, two calls a turn, deadline 1, model calls up to two ticks, tool calls and the consumer up to one | conversation, records, outcome and data stay consistent; a replay adds nothing; `WallClockBound`, with equality in some runs; `LateCallsOnlySummarize`; `Termination`; `ImplementsRun` |
| `mcp_client` | two request threads and the main thread, server flips twice | five invariants and the three liveness properties |
| `query_api` | a plain request, and a stream with the tab that reads it; pages of one or two from offset zero or one; one crash | what is announced is stored, no listing shows a torn trace or misses a run it owes, what is shown is true (`ScreenIsTrue`), `ClientSettles`, `TracesAreFinal`; every request and every view ends |
| `tool_calls` | a first turn with every text of up to three tokens under two argument names, with one call of every form, or with two calls, ids given, made up or both; a second turn of one or two; six listings, three allowlists, both providers | `OnlyReadsAreSent`, `SqlToolExecutes`; `RepliesMatchCalls`: in every request each tool reply is taken for its own call |
| `tool_replies` | two rows, one other item, lists and lines of up to two items, up to three blocks | `NoBlockIsLost`, `NeverSilent`, `NoFalseZero` |
| `seeding` | three tables of other sessions: an ordinary one, one with a foreign key, one of another user; valid and invalid names of the role | `SeedIsWhole`, `RoleIsWhole`, `RerunsWork` |
| `agent_loop_raise`, `agent_loop_nudge`, `query_api_written`, `tool_replies_empty`, `seeding_covered` | the smallest that shows it | the code departs from a sentence of its documentation (section 5) |

Bounds and why they are enough:

- `MaxSteps` 2, `MaxCalls` 2, two calls that are sent and one that is refused: enough
  for a first call, its repetition in the same turn and in the next one, a refused call
  between them, a retry of an empty reply before or after a turn with calls, an
  answer, and a run that is cut off by budget or deadline. Steps are alike otherwise;
  everything the run checks but `Termination` and the fairness half of `ImplementsRun`
  is proved for every number of them.
- Replies: nothing, a joined product row (which also makes a supplier stub), a row
  without ids. The full variety of rows is checked in `row_feed`.
- Ticks: model calls of 0 to 2 and tool calls of 0 or 1 against a deadline of 1 reach
  the deadline exactly and one past it. Both calls that are sent may be slow, in one
  turn, so runs reach the bound: at tick 1 a model call and two tool calls (4) and a
  summary (2).
- `MaxFlips` 2: a server that is up, fails and returns, or starts late and fails.
- Two request threads: threads share only the client's fields and never wait for
  one another. Two suffice for one to be bound while another is submitted.
- Two requests, pages of one and two: a file that is owed, and another that is newer or
  older, torn, or written while the times are looked up; a page cut before it or behind
  it; two first requests that race for the model client. More files are covered by
  the proof only. One event per run (`MaxEvents`): the stream is cut before, after
  and behind it. One crash, because a second meets the same kinds of files.
- Texts of three tokens: a statement with one thing before or after it, two
  statements, and every way to strip blanks and semicolons from both ends. The
  guard looks at the first token, at membership, and at the ends only. Two calls
  of a turn are enough to swap them or to give both one id.
- Two turns (`Replies` has two sets): made-up ids begin anew in each turn, and the
  request after the second carries both, so every id may occur twice. The calls of
  the second turn differ from those of the first, so a mix-up would show.
- Three extra tables: the two distinctions (foreign key, owner) each alone and
  neither; tables do not interact otherwise.
- `MaxItems` 2 with two rows and one other item: a list, a field or a reply by lines
  that is empty, all rows, no rows, or mixed in either order. Parsing looks at each
  item on its own. `MaxBlocks` 3: a block that cannot be read as a row before, between
  and behind others.
- `MaxFeeds` 2 with replies of two rows: any order of two rows, in one reply or two.

Symmetry (of products, of rows) is used in `row_feed` and `tool_replies` only,
which check no liveness. `CHECK_DEADLOCK FALSE` is set for `row_feed`, whose feeding
stops at its bound, for `tool_replies` and `tool_calls`, where one reply or one
query is followed to its end, and for `mcp_client`, where an exception out of
introspection ends the process.

## 4. Fairness

- `AgentLoop!FairSpec`: `WF(Agent)`. Each model call and each tool call returns
  within its timeout (`httpx.Timeout`, `_CALL_TIMEOUT`), and the consumer pulls
  the next item or closes the generator. No fairness on which reply comes.
- `McpClient!FairSpec`: the main thread, the callers and the loop thread's own
  stop are scheduled (`WF` on `Startup`, `Close`, `LoopStops` and each caller's
  steps after `Begin`). Nothing is assumed of the lifecycle task or of the server:
  they wait on the network and on processes. Shutdown is never forced.
- `StreamView!FairTab`: `WF(Produce(r))` for every request: runs make progress (this
  is `AgentLoop`'s `Termination`) and the server pulls live streams and drops dead
  ones; and `WF(Watch(r))` for every tab: the script reads on. Nothing is assumed of
  users, of the network, of crashes or of the history reader. `EveryViewEnds` needs
  no fairness of `Break`: the server's progress alone delivers an end.
- `Seeding` has no liveness: the script may be interrupted every time.

## 5. Where the code departs from what it says

| Run | Property | Code | Statement |
|---|---|---|---|
| `agent_loop_raise` | `FinalAlwaysComes` | `llm.py:111`: an exception that is not an `LLMError` leaves the generator | `agent.py:118` "and a terminal final item" |
| `agent_loop_nudge` | `NudgeIsHonoured` | `agent.py:204`: at the last step the retry is announced and not made | `agent.py:195` "give the agent one chance to answer" |
| `query_api_written` | `EveryRunIsWritten` | `routes.py:56`: a stream that is left is not persisted | `audit.py:3` "Every agent run is written" |
| `tool_replies_empty` | `EmptyResultIsNoted` | `mcp_client.py:67`: the empty list is a text without rows and counts as one record | `agent.py:411` "0 rows. Other interpretations of the identifier may still match" |
| `seeding_covered` | `NewTablesAreCovered` | `init_db.py:45`: default privileges without `FOR ROLE` reach only tables of the script's own user | `README.md:145-146` "New tables are covered automatically" |

Each is the behaviour of the code as written, in the smallest instance. Beside
them, `WallClockBound` says how far the deadline can be overshot (the summary of
`agent.py:307` is asked for without looking at the clock;
`LateCallsOnlySummarize` says that it is the only call begun late), and
`OrphanOnlyAfterTimeout` that only a timeout abandons the lifecycle task.

More observations have no run, because no sentence contradicts them precisely:

- `_absorb` keeps one row per product id, the last one, so a price history of a
  product is reduced to its latest row.
- `/mcp-health` reports the tool list cached at connect; how soon the death of a
  server is noticed is up to the SDK.
- After a connect that timed out, the lifecycle task is stopped with its loop and
  not unwound (`mcp_client.py:137`); `OrphanOnlyAfterTimeout` says that nothing else
  leaves it so.
- The connection is attempted once (`main.py:22`); a server that comes up later is
  not connected to until a restart.
- The page shows an error in place of a result that had arrived when the
  connection breaks at the very end of the stream (`streamlit_app.py:195`), and "No
  response received" for an exception without a message (`:202-207`). `ScreenIsTrue`
  permits both, and nothing else.
- A transient failure of a tool call sticks: the repeated call is answered from the
  cache (`agent.py:248`). `OncePerCall` states this, it does not forbid it.
- An exception of a tool call other than `MCPClientError` (`mcp_client.py:430`) leaves
  the generator as one of a model call does; `CallRaises` models it.
- A run under an invalid role name replaces the tables and only then fails
  (`init_db.py:31`); `RerunsWork` says that the tables are then there and filled.
- An exception of introspection other than `MCPClientError` keeps the application
  from starting (`main.py:23`), though a server that cannot be reached does not.
- A role that exists keeps its old password (`init_db.py:39`).
- Arguments that cannot be read become an empty object, and the call is executed
  with it (`llm.py:264`); `RepliesMatchCalls` says that later requests show it so.

## 6. Proofs

TLAPS checks every leaf; backends are Z3, Zenon and LS4. Every invariant and every
action property of section 3 that the code fulfils is proved, for every value of
the constants that satisfies the named assumptions. Each of these is either a fact
about the code's environment or fixes what a constant stands for:

| Assumption | Says |
|---|---|
| `NoneAssumption` (`RowBuckets`) | `None` is no id and no detail |
| `LoopAssumption` (`AgentLoop`) | `MaxSteps` at least 1, as `__init__` ensures; times are naturals; replies are sequences of rows |
| `FeedAssumption` (`RowFeed`) | replies are sequences of rows |
| `ClientAssumption` (`McpClient`) | the main thread is not a request thread |
| `ApiAssumption` (`QueryApi`) | streams are requests; bounds are naturals; pages hold at least one run and begin at a natural offset |
| `ExtraAssumption` (`Seeding`) | tables of other sessions have other names than the seeded ones (`DROP TABLE` takes any table of that name) |
| `CallAssumption` (`ToolCalls`) | a server lists a tool once; texts are token sequences; the ids in one reply are distinct, also from those made up for its other calls |
| `ReplyAssumption` (`ToolReplies`) | a row is not also something else; bounds are at least 1 |

An invariant is seldom inductive as it stands. What follows names, per module, the
strengthening and why it is needed.

`AgentLoopProofs`

- `TypeCorrect`: `TypeOK` is inductive by itself. `ObserveKeepsTypes` serves both
  actions that observe a result.
- `OutcomeIsConsistent`: `OutcomeConsistent` speaks of `done` only; `OutcomeInv` says
  for every `pc` which combinations of status, answer, error and data can stand there.
- `BudgetIsBounded`: `BudgetInv` relates `chats`, `step` and `pc`; the extra call is
  spent on the way out of `cut`.
- `WallClockIsBounded`: `ClockInv` is the accounting argument: in the loop, time
  is bounded by the deadline plus the turn just finished; inside a turn each call
  still pending has its `CallTime` in reserve; leaving `cut` spends the second
  `ChatTime`. `TimesSucc` and `TimesMono` are the arithmetic.
- `LateCallsAreSummaries`: inductive together with `OutcomeInv`: a call begun past
  the deadline can only be the one made out of `cut`.
- `CallsAreSentOnce`: `SentInv`: what was sent is in the cache, or the run raised.
- `DataComesFromCalls` and `ReplaysAddNothing`: what filing a reply does to the keys
  of the buckets (`EveryRowIsFiled`, `NothingToFile`, `FilingIsLasting`,
  `FilingAgainAddsNothing`). The first needs that a reply with rows always leaves
  something, whatever it displaces; the second that the rows of every cached
  result are still filed when they are filed again.
- `ConversationIsWellFormed`: `TalkInv` places every message by position: each
  assistant turn is followed by the replies to its calls in order (`Answered`), and
  the last one is open exactly by the calls still pending (`OpenTurn`).
- `LedgersTellOneStory`: both filtered ledgers grow with `toolCalls` and only with
  it: `ToolStep` appends to all three, `QuietStep` to none. `AmongAppend` says what a
  filter does with an appended element.
- `ImplementsRunSafety`: `Spec => Run!Spec`. `StepsAreRunSteps` maps each action to an
  action of `AgentRun` or a stutter; `DataOnlyGrows` shows that filing rows never
  loses data. The fair version, `ImplementsRun`, is checked by TLC.

`RowFeedProofs`

- `BucketsAreExact`, `SupplierRowsBeatStubs`: inductive together (`FeedInv`), from what
  one reply does to the ids (`IdsOfReply`) and which row is last (`LastRow`).
- `WalkIsMatched`: the fold over a reply equals the whole-reply operators. `FoldLeft` is
  a function that recurs on the set of positions left. `Walked` is that function
  in closed form; `WalkStep` shows that it solves the recurrence, `FoldIsWalked` that
  any other solution would differ first at some smallest set of positions and does
  not, `WalkedIsAbsorbed` that over all positions it is what `RowBuckets` says.

`McpClientProofs`

- One inductive invariant, `IInv`, gives `TypeCorrect`, `ToolsAreKnownBeforeUse`,
  `SessionIsOwned`, `CloseLeavesCleanSlate` and `OrphansNeedATimeout`. It has four
  parts beside `TypeOK`: `TaskInv` (which fields each stage of the lifecycle task
  implies), `ConnectedInv` (what holds while the application serves), `CloseInv`
  (what each stage of `close()` has already ended) and `CallInv` (what a caller in
  `call_tool` has seen). It is needed because the properties speak of `main` and
  the fields, while what protects them is the stage of the task and the order in
  which `close()` stops the loop before it clears the fields. The induction is
  split by actor: `MainKeepsIInv`, `LoopKeepsIInv`, `CallersKeepIInv`.

`QueryApiProofs`

- `IInv` is `TypeOK` with `FileInv` (which state of the file and of the announcement each
  stage of a request implies), `ReadInv` (what a listing has collected or still has to
  read includes what it owes), `ClientInv` (a request that must get the client in
  place cannot have started to make another), `SortInv`, and the fact that the files
  are finitely many. `CompleteIsStored`, `ListingsAreWhole`, `ListingsAreComplete`,
  `ClientIsSettled` and `TracesStayFinal` follow.
- `SortInv` is the argument for a listing among writers. While the times are looked
  up, `Surely(r)` are the files that will be sorted before `r` whatever happens,
  `Perhaps(r)` those that may be. The one only grows and the other only shrinks
  (`SortingGoesOn`), so a place that is on the page at the start, with `MayPass`
  counted or not, is on the page when `SortList` cuts it.
- `TabRefinesApi`: `TabSpec => Spec`: a server with tabs at its streams does what
  `QueryApi` describes, so every theorem about the server holds of the composition.
- `ScreensAreTrue`: `ViewInv` relates each stage of a view to the stage of its request
  and to what is on the wire: the items under way are the rest of what the
  request produced, in order, an end at most once and last.

`SeedingProofs`

- `SeedingInv` gives `SeedsAreWhole`, `RolesAreWhole` and `RerunsAreSafe` (an action
  property). `BaseInv` says that the committed database is seeded wholly or not at
  all, `SeedInv` and `GrantInv` which statements of the script the open transaction
  already contains, by their position in the script, whatever other sessions
  added or removed meanwhile. A run that fails over the name of the role does so right
  after its first commit, when everything is filled. That `SeedScript` and `RoleScript` are in an order
  PostgreSQL accepts is part of it: each position has what its statement needs.

`ToolCallsProofs`

- `GuardIsExact`: the text a guard looks at is a window of the text sent
  (`StripIsAWindow`: blanks outside, none at its ends), in which it looks for
  semicolons up to a position behind which there are only semicolons
  (`ReadOnlyByPosition`). `PassedTextsRead` and `PlainTextsPass` compare this with the
  definition of a single reading statement by positions. `CallInv` adds that each
  verdict was passed by the belt of this query.
- `IntrospectionExecutes`: `FoundToolExecutes`: the first of the best rank exists
  and is of the right kind.
- `RepliesFindTheirCalls`: `CallInv` (`CallInvariant`) places every message of the
  conversation by position: a turn is followed by the replies to its calls in order,
  each with the id of its call, and the ids of one turn differ (`DecodedCalls`). So the
  latest turn before a reply is the one it belongs to, however often its id occurs
  earlier; `EncodedTurn` carries this over to the request.

`ToolRepliesProofs`

- `BlocksArrive`, `ModelAlwaysReads`, `ZeroIsTrue`: `StageInv` says that a result
  is one of three kinds and an observation is made of the result; `ParsedRows` that
  what is parsed is a sequence of rows, `BlockContributes` that rows found in a text
  come from each of its blocks, and `ZeroMeansNothing` that a count of zero comes from
  a reply without a record only.

`SequenceLemmas` holds what these share: a nonempty set of positions has a first
and a last, and what `Among` does (`AmongKeeps`: it drops nothing that belongs). The library's induction theorems take an
operator as a parameter and cannot be used; the lemmas go by
`FS_StrictSubsetOrderingWellFounded` instead, a fact about a relation: a family of
sets of positions that is not empty has a smallest one (`PositionsWellFounded`).

`BudgetBound` is proved and has no run: `ImplementsRun` already checks it in the
instance, through `AgentRun`.

Model-checked only: all liveness (`Termination`, the fairness half of
`ImplementsRun`, `StartupEnds`, `CloseEnds`, `CallsEnd`, `EveryRequestEnds`,
`EveryViewEnds`), which like `ENABLED` is out of the prover's reach. The runs of
section 5 refute statements and have nothing to prove.

## 7. Not modelled

- Prompt texts, event messages, timestamps, logging, response schemas, settings:
  no control flow.
- `app/database/connection.py` beyond the transactions of the script (its session
  helpers are used by nothing), the history and tools tabs of the page (each shows
  the answer of one GET), `_render_schema_summary` (formats a text for the prompt).
- `scripts/eval_classification.py`: a sequential script that sends fixed queries to
  a live model and prints a table.
- `httpx.Timeout` limits each read, not the whole request; `ChatTime` as a bound of
  a whole model call is an assumption.
- A client that reconnects: `connect` is called once per process by the lifespan.
- uvicorn waits for running requests before the lifespan's `close()`; the model
  lets them overlap, which only adds behaviours.

## 8. Plan

Done: all modules of section 2, the runs of section 3, and the theorems of section
6. In order, what is next:

1. An abstract specification of the audit trail (a set of runs with their outcome,
   announced at most once and then always loadable), implemented by `QueryApi`.
2. A composition of `QueryApi` with `McpClient`: requests during shutdown, and the
   refinement of both parts, as `TabRefinesApi` does it for the page.
3. An abstract specification of a run of the seeding script (nothing or everything,
   in two steps), implemented by `Seeding`.
