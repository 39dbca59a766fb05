------------------------------- MODULE McpClient ------------------------------
(***************************************************************************)
(* The shared connection to the MCP server: MCPClient (app/mcp_client.py)  *)
(* as the application's lifespan (app/main.py) drives it.                  *)
(*                                                                         *)
(* Four kinds of actors share the fields of one MCPClient without a lock:  *)
(*   - the main thread, which connects at startup and closes at shutdown;  *)
(*   - the loop thread with the one _lifecycle task, which owns the        *)
(*     session from its opening to its unwinding;                          *)
(*   - the callers: request threads in call_tool, and the main thread      *)
(*     itself while it introspects the schema;                             *)
(*   - the MCP server, which comes and goes.                               *)
(* An action is what one of them does between two points where another can *)
(* interfere: a blocking wait, an await, or a read of a shared field.      *)
(* Waits with a timeout may end by timing out whenever their condition     *)
(* does not hold.                                                          *)
(***************************************************************************)
EXTENDS Naturals

CONSTANTS
  Callers,    \* request threads
  Main,       \* the main thread, in its role as a caller
  MaxFlips    \* bound: times the server stops or starts

ASSUME ClientAssumption == Main \notin Callers /\ MaxFlips \in Nat

VARIABLES
  main,       \* where the main thread stands
  after,      \* what a running close() returns to: "failed" or "closed"
  gaveUp,     \* a wait for the lifecycle task timed out (history)
  loop,       \* the event loop's thread: "none", "running", "stopped"
  stop,       \* loop.stop has been queued
  task,       \* where the _lifecycle task stands
  failing,    \* the unwinding was caused by an exception
  signalled,  \* shutdown.set has been queued
  loopRef,    \* _loop is not None
  session,    \* _session is not None
  shutdown,   \* _shutdown is not None
  tools,      \* _tools and _sql_tool hold the server's catalog
  ready,      \* the _ready event
  connectError, \* _connect_error is not None
  call,       \* where each caller stands in call_tool
  server,     \* the MCP server answers
  flips

mainVars == <<main, after, gaveUp>>
loopVars == <<loop, stop, task, failing, signalled>>
fields   == <<loopRef, session, shutdown, tools, ready, connectError>>
world    == <<server, flips>>
vars     == <<mainVars, loopVars, fields, call, world>>

Closing == {"close", "unwind", "stop", "join", "clear_loop", "clear_session"}
Idle    == {"none", "answered", "failed"}
Busy    == {"checked", "bound", "submitted"}

Init ==
  /\ main = "start" /\ after = "failed" /\ gaveUp = FALSE
  /\ loop = "none" /\ stop = FALSE /\ task = "none" /\ failing = FALSE
  /\ signalled = FALSE
  /\ loopRef = FALSE /\ session = FALSE /\ shutdown = FALSE /\ tools = FALSE
  /\ ready = FALSE /\ connectError = FALSE
  /\ call = [c \in Callers \cup {Main} |-> "none"]
  /\ server \in BOOLEAN /\ flips = 0

\* Mutants are named <definition>_<fault>; no action uses them.

-------------------------------------------------------------------------------
(* connect()                                                               *)

Connect ==
  /\ main = "start"
  /\ main' = "waiting"
  /\ loop' = "running" /\ loopRef' = TRUE
  /\ ready' = FALSE /\ connectError' = FALSE
  /\ task' = "launching"
  /\ UNCHANGED <<after, gaveUp, stop, failing, signalled, session, shutdown,
                 tools, call, world>>

ReadyInTime ==
  /\ main = "waiting" /\ ready
  /\ main' = "check"
  /\ UNCHANGED <<after, gaveUp, loopVars, fields, call, world>>

ReadyTimeout_None == FALSE /\ UNCHANGED vars

ReadyTimeout ==
  /\ main = "waiting" /\ ~ready
  /\ main' = "close" /\ after' = "failed" /\ gaveUp' = TRUE
  /\ UNCHANGED <<loopVars, fields, call, world>>

CheckError ==
  /\ main = "check"
  /\ IF connectError THEN main' = "close" /\ after' = "failed"
                     ELSE main' = "introspect" /\ UNCHANGED after
  /\ UNCHANGED <<gaveUp, loopVars, fields, call, world>>

(* _introspect_schema is skipped by a setting or for want of a SQL tool;   *)
(* otherwise it is one call, whose failure as an MCPClientError is         *)
(* swallowed.                                                              *)
Introspected ==
  /\ \/ main = "introspect"
     \/ main = "introspecting" /\ call[Main] \in Idle
  /\ main' = "serving"
  /\ UNCHANGED <<after, gaveUp, loopVars, fields, call, world>>

(* Reading the rows out of the reply, or the columns out of the rows, may  *)
(* raise something else.  It leaves connect() and the lifespan, which is   *)
(* not yet in its try: the application does not start, and nobody closes   *)
(* the client before the process ends.                                     *)
IntrospectionRaises ==
  /\ main = "introspecting" /\ call[Main] = "answered"
  /\ main' = "aborted"
  /\ UNCHANGED <<after, gaveUp, loopVars, fields, call, world>>

-------------------------------------------------------------------------------
(* close(): after a failed connect, or at the end of the lifespan.         *)

StopServing_NoReturn ==
  /\ main \in {"serving", "failed"}
  /\ main' = "close" /\ after' = "closed"
  /\ UNCHANGED <<gaveUp, loopVars, fields, call, world>>

StopServing ==
  /\ \/ main = "serving" /\ main' = "close"
     \/ main = "failed" /\ main' = "closed"      \* _loop is None: return
  /\ after' = "closed"
  /\ UNCHANGED <<gaveUp, loopVars, fields, call, world>>

CloseSignal_Never ==
  /\ main = "close"
  /\ main' = "stop"
  /\ UNCHANGED <<after, gaveUp, loopVars, fields, call, world>>

CloseSignal ==
  /\ main = "close"
  /\ IF shutdown /\ session
       THEN main' = "unwind" /\ signalled' = TRUE
       ELSE main' = "stop" /\ UNCHANGED signalled
  /\ UNCHANGED <<after, gaveUp, loop, stop, task, failing, fields, call, world>>

UnwoundInTime ==
  /\ main = "unwind" /\ task = "ended"
  /\ main' = "stop"
  /\ UNCHANGED <<after, gaveUp, loopVars, fields, call, world>>

UnwindTimeout_None == FALSE /\ UNCHANGED vars

UnwindTimeout ==
  /\ main = "unwind" /\ task # "ended"
  /\ main' = "stop" /\ gaveUp' = TRUE
  /\ UNCHANGED <<after, loopVars, fields, call, world>>

StopLoop ==
  /\ main = "stop"
  /\ main' = "join" /\ stop' = TRUE
  /\ UNCHANGED <<after, gaveUp, loop, task, failing, signalled, fields, call,
                 world>>

(* join times out only while the loop thread is stuck in code that does    *)
(* not yield: resolving, importing and spawning before the first await.    *)
JoinLoop ==
  /\ main = "join"
  /\ loop = "stopped" \/ task = "launching"
  /\ main' = "clear_loop"
  /\ UNCHANGED <<after, gaveUp, loopVars, fields, call, world>>

ClearLoop ==
  /\ main = "clear_loop"
  /\ main' = "clear_session" /\ loopRef' = FALSE
  /\ UNCHANGED <<after, gaveUp, loopVars, session, shutdown, tools, ready,
                 connectError, call, world>>

ClearSession_Forgotten ==
  /\ main = "clear_session"
  /\ main' = after /\ shutdown' = FALSE
  /\ UNCHANGED <<after, gaveUp, loopVars, loopRef, session, tools, ready,
                 connectError, call, world>>

ClearSession ==
  /\ main = "clear_session"
  /\ main' = after
  /\ session' = FALSE /\ shutdown' = FALSE
  /\ UNCHANGED <<after, gaveUp, loopVars, loopRef, tools, ready, connectError,
                 call, world>>

-------------------------------------------------------------------------------
(* The loop thread: _lifecycle and _open_session.                          *)

Running == loop = "running"

(* Leaving the exit stack: except records the error, finally drops the     *)
(* session.                                                                *)
EndTask_SessionKept(raised) ==
  /\ task' = "ended"
  /\ IF raised THEN connectError' = TRUE /\ ready' = TRUE
               ELSE UNCHANGED <<connectError, ready>>
  /\ UNCHANGED session

EndTask(raised) ==
  /\ task' = "ended" /\ session' = FALSE
  /\ IF raised THEN connectError' = TRUE /\ ready' = TRUE
               ELSE UNCHANGED <<connectError, ready>>

(* The first await.  A stop that was queued meanwhile is found before the  *)
(* task can be resumed.                                                    *)
LaunchReturns ==
  /\ task = "launching"
  /\ task' = "connecting"
  /\ loop' = IF stop THEN "stopped" ELSE loop
  /\ UNCHANGED <<mainVars, stop, failing, signalled, fields, call, world>>

LaunchFails ==
  /\ task = "launching"
  /\ EndTask(TRUE)
  /\ UNCHANGED <<mainVars, loop, stop, failing, signalled, loopRef, shutdown,
                 tools, call, world>>

(* self._session is assigned before the handshake.                         *)
TransportOpens ==
  /\ Running /\ task = "connecting"
  /\ task' = "handshaking" /\ session' = TRUE
  /\ UNCHANGED <<mainVars, loop, stop, failing, signalled, loopRef, shutdown,
                 tools, ready, connectError, call, world>>

Initialized_ReadyEarly ==
  /\ Running /\ task = "handshaking" /\ server
  /\ task' = "listing"
  /\ shutdown' = TRUE /\ ready' = TRUE
  /\ UNCHANGED <<mainVars, loop, stop, failing, signalled, loopRef, session,
                 tools, connectError, call, world>>

Initialized ==
  /\ Running /\ task = "handshaking" /\ server
  /\ task' = "listing"
  /\ UNCHANGED <<mainVars, loop, stop, failing, signalled, fields, call, world>>

ToolsListed ==
  /\ Running /\ task = "listing" /\ server
  /\ task' = "waiting"
  /\ tools' = TRUE /\ shutdown' = TRUE /\ ready' = TRUE
  /\ UNCHANGED <<mainVars, loop, stop, failing, signalled, loopRef, session,
                 connectError, call, world>>

(* Opening fails or, with the server gone, the transport's task group      *)
(* cancels the waiting task.                                               *)
TaskFails ==
  /\ Running
  /\ \/ task \in {"connecting", "handshaking", "listing"}
     \/ task = "waiting" /\ ~server
  /\ task' = "unwinding" /\ failing' = TRUE
  /\ UNCHANGED <<mainVars, loop, stop, signalled, fields, call, world>>

ShutdownSeen ==
  /\ Running /\ task = "waiting" /\ signalled
  /\ task' = "unwinding"
  /\ UNCHANGED <<mainVars, loop, stop, failing, signalled, fields, call, world>>

(* Closing the transport may raise on its own.                             *)
Unwound ==
  /\ Running /\ task = "unwinding"
  /\ \E raised \in {failing, TRUE} : EndTask(raised)
  /\ UNCHANGED <<mainVars, loop, stop, failing, signalled, loopRef, shutdown,
                 tools, call, world>>

LoopStops ==
  /\ Running /\ stop /\ task # "launching"
  /\ loop' = "stopped"
  /\ UNCHANGED <<mainVars, stop, task, failing, signalled, fields, call, world>>

-------------------------------------------------------------------------------
(* call_tool().  _session is read twice and _loop once, then the caller    *)
(* blocks on its future.                                                   *)

(* The client is handed to request threads once connect() has returned.    *)
MayCall(c) ==
  IF c = Main THEN main = "introspect"
              ELSE main \in {"serving", "failed"} \/ after = "closed"

Move(c, there) ==
  /\ call' = [call EXCEPT ![c] = there]
  /\ UNCHANGED <<after, gaveUp, loopVars, fields, world>>

Begin(c) ==
  /\ MayCall(c) /\ call[c] \in Idle
  /\ Move(c, IF session THEN "checked" ELSE "failed")
  /\ main' = IF c = Main THEN "introspecting" ELSE main

Bind(c) ==
  /\ call[c] = "checked"
  /\ Move(c, IF session THEN "bound" ELSE "failed")
  /\ UNCHANGED main

Submit(c) ==
  /\ call[c] = "bound"
  /\ Move(c, IF loopRef THEN "submitted" ELSE "failed")
  /\ UNCHANGED main

Answered(c) ==
  /\ call[c] = "submitted"
  /\ Running /\ task = "waiting" /\ server
  /\ Move(c, "answered")
  /\ UNCHANGED main

Broken(c) ==
  /\ call[c] = "submitted"
  /\ Running
  /\ ~server \/ task \in {"unwinding", "ended"}
  /\ Move(c, "failed")
  /\ UNCHANGED main

CallTimeout_None(c) == FALSE /\ UNCHANGED vars

CallTimeout(c) ==
  /\ call[c] = "submitted"
  /\ Move(c, "failed")
  /\ UNCHANGED main

-------------------------------------------------------------------------------
ServerFlips ==
  /\ flips < MaxFlips
  /\ flips' = flips + 1 /\ server' = ~server
  /\ UNCHANGED <<mainVars, loopVars, fields, call>>

Startup == \/ Connect \/ ReadyInTime \/ ReadyTimeout \/ CheckError
           \/ Introspected \/ IntrospectionRaises

Close == \/ CloseSignal \/ UnwoundInTime \/ UnwindTimeout \/ StopLoop
         \/ JoinLoop \/ ClearLoop \/ ClearSession

Lifecycle == \/ LaunchReturns \/ LaunchFails \/ TransportOpens \/ Initialized
             \/ ToolsListed \/ TaskFails \/ ShutdownSeen \/ Unwound

Call(c) == Bind(c) \/ Submit(c) \/ Answered(c) \/ Broken(c) \/ CallTimeout(c)

Next ==
  \/ Startup \/ StopServing \/ Close
  \/ Lifecycle \/ LoopStops
  \/ \E c \in Callers \cup {Main} : Begin(c) \/ Call(c)
  \/ ServerFlips

Spec == Init /\ [][Next]_vars

(* Threads that can run do run, and a wait with a timeout ends.  Nothing   *)
(* is assumed of the lifecycle task, which waits on the server and on the  *)
(* operating system, nor that the server ever answers.                     *)
FairSpec ==
  /\ Spec
  /\ WF_vars(Startup) /\ WF_vars(Close) /\ WF_vars(LoopStops)
  /\ \A c \in Callers \cup {Main} : WF_vars(Call(c))

-------------------------------------------------------------------------------
(* close() dereferences _loop until it has cleared it.                     *)
ClosingHasLoop == main \in Closing \ {"clear_session"} => loopRef

TypeOK ==
  /\ main \in {"start", "waiting", "check", "introspect", "introspecting",
               "serving", "failed", "closed", "aborted"} \cup Closing
  /\ after \in {"failed", "closed"} /\ gaveUp \in BOOLEAN
  /\ loop \in {"none", "running", "stopped"} /\ stop \in BOOLEAN
  /\ task \in {"none", "launching", "connecting", "handshaking", "listing",
               "waiting", "unwinding", "ended"}
  /\ failing \in BOOLEAN /\ signalled \in BOOLEAN
  /\ loopRef \in BOOLEAN /\ session \in BOOLEAN /\ shutdown \in BOOLEAN
  /\ tools \in BOOLEAN /\ ready \in BOOLEAN /\ connectError \in BOOLEAN
  /\ call \in [Callers \cup {Main} -> Idle \cup Busy]
  /\ server \in BOOLEAN /\ flips \in 0..MaxFlips
  /\ ClosingHasLoop

(* _session is assigned before the handshake, yet nobody outside connect() *)
(* ever finds a session whose tools have not been discovered, not even     *)
(* after a connect() that timed out half-way: /mcp-health and call_tool    *)
(* never pass _ensure_connected too early.                                 *)
Published == main \in {"introspect", "introspecting", "serving", "failed", "closed"}

ToolsBeforeUse ==
  /\ Published /\ session => tools
  /\ \A c \in Callers \cup {Main} : call[c] \in Busy => tools

(* While the application serves, a session in _session has a running loop  *)
(* and a lifecycle task that will unwind it: callers never submit to a     *)
(* loop nobody runs unless close() has begun.                              *)
SessionOwned ==
  main \in {"introspect", "introspecting", "serving"} /\ session =>
    loopRef /\ Running /\ task \in {"waiting", "unwinding"}

(* After close() the client holds nothing, and nothing comes back: not     *)
(* from a launch that was still stuck when join gave up, not from a task   *)
(* that became ready while connect() timed out.                            *)
CleanSlate ==
  main \in {"failed", "closed"} =>
    ~session /\ ~shutdown /\ ~loopRef
      /\ (Running => task \in {"launching", "ended"})

(* The session is left un-unwound only if a wait for the task timed out:   *)
(* a connect() that fails or a shutdown in time never abandons the task.   *)
OrphanOnlyAfterTimeout ==
  main \in {"failed", "closed"} /\ task # "ended" => gaveUp

(* Startup, every tool call and close() come to an end even if the server  *)
(* never answers and the transport never unwinds: each wait has a timeout. *)
StartupEnds == main = "start" ~> main \in {"serving", "failed", "aborted"}
CloseEnds   == main = "close" ~> main \in {"failed", "closed"}
CallsEnd    == \A c \in Callers : call[c] \in Busy ~> call[c] \in Idle

===============================================================================
