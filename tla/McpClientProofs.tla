---------------------------- MODULE McpClientProofs ---------------------------
(***************************************************************************)
(* The safety of the shared connection, for any number of request threads  *)
(* and any behaviour of the server.                                        *)
(***************************************************************************)
EXTENDS McpClient, TLAPS

(* The main thread has connected and has not begun to close.               *)
Connected == main \in {"introspect", "introspecting", "serving"}

(* The main thread is past its last wait for the loop thread.              *)
Joined == main \in {"clear_loop", "clear_session", "failed", "closed"}

(* The session object lives exactly in the middle of the task's life; once *)
(* the tools are known, until close() drops them, the fields are complete. *)
TaskInv ==
  /\ session => task \in {"handshaking", "listing", "waiting", "unwinding"}
  /\ connectError => task = "ended"
  /\ ready /\ ~connectError => tools
  /\ tools => task \in {"waiting", "unwinding", "ended"}
  /\ task = "waiting" => tools
  /\ task \in {"handshaking", "listing"} /\ main \notin {"failed", "closed"} =>
       session
  /\ tools /\ task # "ended" /\ main \notin {"failed", "closed"} =>
       session /\ shutdown

(* Nobody stops the loop, or gives it up, under a connected client.        *)
ConnectedInv ==
  /\ main = "start" => task = "none" /\ ~stop
  /\ main = "check" => ready
  /\ Connected => tools
  /\ main \in {"waiting", "check"} \/ Connected => loopRef /\ Running /\ ~stop
  /\ after = "closed" => main \in Closing \cup {"closed"}
  /\ after = "closed" /\ main # "closed" => tools

(* Every way into close() has waited for the task or knows it has ended,   *)
(* and after join the task cannot be resumed.                              *)
CloseInv ==
  /\ main = "close" => gaveUp \/ task = "ended" \/ tools
  /\ Joined \/ main \in {"stop", "join"} => gaveUp \/ task = "ended"
  /\ Joined \/ main = "join" => stop
  /\ Joined => ~Running \/ task \in {"launching", "ended"}
  /\ main \in {"clear_session", "failed", "closed"} => ~loopRef
  /\ main \in {"failed", "closed"} => ~session /\ ~shutdown

CallInv == \A c \in Callers \cup {Main} : call[c] \in Busy => tools

IInv == TypeOK /\ TaskInv /\ ConnectedInv /\ CloseInv /\ CallInv

LEMMA IInvInitially == Init => IInv
<1> SUFFICES ASSUME Init PROVE IInv
  OBVIOUS
<1>1. TypeOK
  <2>1. call \in [Callers \cup {Main} -> Idle \cup Busy] /\ flips \in 0..MaxFlips
    BY ClientAssumption DEF Init, Idle
  <2>2. /\ gaveUp \in BOOLEAN /\ stop \in BOOLEAN /\ failing \in BOOLEAN
        /\ signalled \in BOOLEAN /\ server \in BOOLEAN
    BY DEF Init
  <2>3. /\ loopRef \in BOOLEAN /\ session \in BOOLEAN /\ shutdown \in BOOLEAN
        /\ tools \in BOOLEAN /\ ready \in BOOLEAN /\ connectError \in BOOLEAN
    BY DEF Init
  <2> QED
    BY <2>1, <2>2, <2>3 DEF Init, TypeOK, ClosingHasLoop, Closing
<1>2. CallInv
  BY DEF Init, CallInv, Busy
<1>3. TaskInv
  BY DEF Init, TaskInv
<1>4. ConnectedInv
  BY DEF Init, ConnectedInv, Connected
<1>5. CloseInv
  BY DEF Init, CloseInv, Joined
<1> QED
  BY <1>1, <1>2, <1>3, <1>4, <1>5 DEF IInv

(* The main thread: connect() and close().                                 *)
LEMMA MainKeepsIInv ==
  ASSUME IInv, Startup \/ StopServing \/ Close
  PROVE  IInv'
<1>a. UNCHANGED call /\ (tools => tools')
  BY DEF Startup, Close, Connect, ReadyInTime, ReadyTimeout, CheckError,
         Introspected, IntrospectionRaises, StopServing, CloseSignal, UnwoundInTime, UnwindTimeout,
         StopLoop, JoinLoop, ClearLoop, ClearSession,
         mainVars, loopVars, fields, world
<1>b. CallInv'
  BY <1>a DEF IInv, CallInv
<1> USE <1>b DEF IInv, TypeOK, ClosingHasLoop, TaskInv, ConnectedInv, CloseInv,
                 Connected, Joined, Running, Closing, mainVars, loopVars,
                 fields, world
<1>1. CASE Connect
  <2> USE <1>1 DEF Connect
  <2>1. TypeOK'
    OBVIOUS
  <2>2. TaskInv'
    OBVIOUS
  <2>3. ConnectedInv'
    OBVIOUS
  <2>4. CloseInv'
    OBVIOUS
  <2> QED
    BY <2>1, <2>2, <2>3, <2>4
<1>2. CASE ReadyInTime
  <2> USE <1>2 DEF ReadyInTime
  <2>1. TypeOK'
    OBVIOUS
  <2>2. TaskInv'
    OBVIOUS
  <2>3. ConnectedInv'
    OBVIOUS
  <2>4. CloseInv'
    OBVIOUS
  <2> QED
    BY <2>1, <2>2, <2>3, <2>4
<1>3. CASE ReadyTimeout
  <2> USE <1>3 DEF ReadyTimeout
  <2>1. TypeOK'
    OBVIOUS
  <2>2. TaskInv'
    OBVIOUS
  <2>3. ConnectedInv'
    OBVIOUS
  <2>4. CloseInv'
    OBVIOUS
  <2> QED
    BY <2>1, <2>2, <2>3, <2>4
<1>4. CASE CheckError
  <2> USE <1>4 DEF CheckError
  <2>1. TypeOK'
    OBVIOUS
  <2>2. TaskInv'
    OBVIOUS
  <2>3. ConnectedInv'
    OBVIOUS
  <2>4. CloseInv'
    OBVIOUS
  <2> QED
    BY <2>1, <2>2, <2>3, <2>4
<1>5. CASE Introspected
  <2> USE <1>5 DEF Introspected
  <2>1. TypeOK'
    OBVIOUS
  <2>2. TaskInv'
    OBVIOUS
  <2>3. ConnectedInv'
    OBVIOUS
  <2>4. CloseInv'
    OBVIOUS
  <2> QED
    BY <2>1, <2>2, <2>3, <2>4
<1>6. CASE StopServing
  <2> USE <1>6 DEF StopServing
  <2>1. TypeOK'
    OBVIOUS
  <2>2. TaskInv'
    OBVIOUS
  <2>3. ConnectedInv'
    OBVIOUS
  <2>4. CloseInv'
    OBVIOUS
  <2> QED
    BY <2>1, <2>2, <2>3, <2>4
<1>7. CASE CloseSignal
  <2>1. /\ main = "close"
        /\ main' = "unwind" \/ (main' = "stop" /\ ~(shutdown /\ session))
        /\ signalled' \in BOOLEAN
        /\ UNCHANGED <<after, gaveUp, loop, stop, task, failing, fields, call,
                       world>>
    BY <1>7 DEF CloseSignal
  <2>2. main' = "stop" => gaveUp \/ task = "ended"
    BY <2>1
  <2>3. TypeOK'
    BY <2>1
  <2>4. TaskInv' /\ ConnectedInv'
    BY <2>1
  <2>5. CloseInv'
    BY <2>1, <2>2
  <2> QED
    BY <2>3, <2>4, <2>5
<1>8. CASE UnwoundInTime
  <2> USE <1>8 DEF UnwoundInTime
  <2>1. TypeOK'
    OBVIOUS
  <2>2. TaskInv'
    OBVIOUS
  <2>3. ConnectedInv'
    OBVIOUS
  <2>4. CloseInv'
    OBVIOUS
  <2> QED
    BY <2>1, <2>2, <2>3, <2>4
<1>9. CASE UnwindTimeout
  <2> USE <1>9 DEF UnwindTimeout
  <2>1. TypeOK'
    OBVIOUS
  <2>2. TaskInv'
    OBVIOUS
  <2>3. ConnectedInv'
    OBVIOUS
  <2>4. CloseInv'
    OBVIOUS
  <2> QED
    BY <2>1, <2>2, <2>3, <2>4
<1>10. CASE StopLoop
  <2> USE <1>10 DEF StopLoop
  <2>1. TypeOK'
    OBVIOUS
  <2>2. TaskInv'
    OBVIOUS
  <2>3. ConnectedInv'
    OBVIOUS
  <2>4. CloseInv'
    OBVIOUS
  <2> QED
    BY <2>1, <2>2, <2>3, <2>4
<1>11. CASE JoinLoop
  <2> USE <1>11 DEF JoinLoop
  <2>1. TypeOK'
    OBVIOUS
  <2>2. TaskInv'
    OBVIOUS
  <2>3. ConnectedInv'
    OBVIOUS
  <2>4. CloseInv'
    OBVIOUS
  <2> QED
    BY <2>1, <2>2, <2>3, <2>4
<1>12. CASE ClearLoop
  <2> USE <1>12 DEF ClearLoop
  <2>1. TypeOK'
    <3>1. ClosingHasLoop'
      OBVIOUS
    <3>2. main' \in {"start", "waiting", "check", "introspect", "introspecting",
                     "serving", "failed", "closed", "aborted"} \cup Closing
      OBVIOUS
    <3>3. after' \in {"failed", "closed"} /\ gaveUp' \in BOOLEAN
      OBVIOUS
    <3>4. /\ loop' \in {"none", "running", "stopped"} /\ stop' \in BOOLEAN
          /\ task' \in {"none", "launching", "connecting", "handshaking",
                        "listing", "waiting", "unwinding", "ended"}
          /\ failing' \in BOOLEAN /\ signalled' \in BOOLEAN
      OBVIOUS
    <3>5. /\ loopRef' \in BOOLEAN /\ session' \in BOOLEAN /\ shutdown' \in BOOLEAN
          /\ tools' \in BOOLEAN /\ ready' \in BOOLEAN /\ connectError' \in BOOLEAN
      OBVIOUS
    <3>6. call' \in [Callers \cup {Main} -> Idle \cup Busy]
      OBVIOUS
    <3>7. server' \in BOOLEAN /\ flips' \in 0..MaxFlips
      OBVIOUS
    <3> QED
      BY <3>1, <3>2, <3>3, <3>4, <3>5, <3>6, <3>7
  <2>2. TaskInv'
    OBVIOUS
  <2>3. ConnectedInv'
    OBVIOUS
  <2>4. CloseInv'
    OBVIOUS
  <2> QED
    BY <2>1, <2>2, <2>3, <2>4
<1>13. CASE ClearSession
  <2> USE <1>13 DEF ClearSession
  <2>1. TypeOK'
    OBVIOUS
  <2>2. TaskInv'
    OBVIOUS
  <2>3. ConnectedInv'
    OBVIOUS
  <2>4. CloseInv'
    OBVIOUS
  <2> QED
    BY <2>1, <2>2, <2>3, <2>4
<1>14. CASE IntrospectionRaises
  <2> USE <1>14 DEF IntrospectionRaises
  <2>1. TypeOK'
    OBVIOUS
  <2>2. TaskInv'
    OBVIOUS
  <2>3. ConnectedInv'
    OBVIOUS
  <2>4. CloseInv'
    OBVIOUS
  <2> QED
    BY <2>1, <2>2, <2>3, <2>4
<1> QED
  BY <1>1, <1>2, <1>3, <1>4, <1>5, <1>6, <1>7, <1>8, <1>9, <1>10, <1>11,
     <1>12, <1>13, <1>14 DEF Startup, Close

(* The loop thread: the lifecycle task and the stop of the loop.           *)
LEMMA LoopKeepsIInv ==
  ASSUME IInv, Lifecycle \/ LoopStops
  PROVE  IInv'
<1>a. UNCHANGED call /\ (tools => tools')
  BY DEF Lifecycle, LoopStops, LaunchReturns, LaunchFails, TransportOpens,
         Initialized, ToolsListed, TaskFails, ShutdownSeen, Unwound, EndTask,
         mainVars, loopVars, fields, world
<1>b. CallInv'
  BY <1>a DEF IInv, CallInv
<1> USE <1>b DEF IInv, TypeOK, ClosingHasLoop, TaskInv, ConnectedInv, CloseInv,
                 Connected, Joined, Running, Closing, mainVars, loopVars,
                 fields, world
<1>1. CASE LaunchReturns
  <2> USE <1>1 DEF LaunchReturns
  <2>1. TypeOK'
    OBVIOUS
  <2>2. TaskInv'
    OBVIOUS
  <2>3. ConnectedInv'
    OBVIOUS
  <2>4. CloseInv'
    OBVIOUS
  <2> QED
    BY <2>1, <2>2, <2>3, <2>4
<1>2. CASE LaunchFails
  <2> USE <1>2 DEF LaunchFails, EndTask
  <2>1. TypeOK'
    OBVIOUS
  <2>2. TaskInv'
    OBVIOUS
  <2>3. ConnectedInv'
    OBVIOUS
  <2>4. CloseInv'
    OBVIOUS
  <2> QED
    BY <2>1, <2>2, <2>3, <2>4
<1>3. CASE TransportOpens
  <2> USE <1>3 DEF TransportOpens
  <2>1. TypeOK'
    OBVIOUS
  <2>2. TaskInv'
    OBVIOUS
  <2>3. ConnectedInv'
    OBVIOUS
  <2>4. CloseInv'
    OBVIOUS
  <2> QED
    BY <2>1, <2>2, <2>3, <2>4
<1>4. CASE Initialized
  <2> USE <1>4 DEF Initialized
  <2>1. TypeOK'
    OBVIOUS
  <2>2. TaskInv'
    OBVIOUS
  <2>3. ConnectedInv'
    OBVIOUS
  <2>4. CloseInv'
    OBVIOUS
  <2> QED
    BY <2>1, <2>2, <2>3, <2>4
<1>5. CASE ToolsListed
  <2> USE <1>5 DEF ToolsListed
  <2>1. TypeOK'
    OBVIOUS
  <2>2. TaskInv'
    OBVIOUS
  <2>3. ConnectedInv'
    OBVIOUS
  <2>4. CloseInv'
    OBVIOUS
  <2> QED
    BY <2>1, <2>2, <2>3, <2>4
<1>6. CASE TaskFails
  <2> USE <1>6 DEF TaskFails
  <2>1. TypeOK'
    OBVIOUS
  <2>2. TaskInv'
    OBVIOUS
  <2>3. ConnectedInv'
    OBVIOUS
  <2>4. CloseInv'
    OBVIOUS
  <2> QED
    BY <2>1, <2>2, <2>3, <2>4
<1>7. CASE ShutdownSeen
  <2> USE <1>7 DEF ShutdownSeen
  <2>1. TypeOK'
    OBVIOUS
  <2>2. TaskInv'
    OBVIOUS
  <2>3. ConnectedInv'
    OBVIOUS
  <2>4. CloseInv'
    OBVIOUS
  <2> QED
    BY <2>1, <2>2, <2>3, <2>4
<1>8. CASE Unwound
  <2> USE <1>8 DEF Unwound, EndTask
  <2>1. TypeOK'
    <3>1. ClosingHasLoop'
      OBVIOUS
    <3>2. main' \in {"start", "waiting", "check", "introspect", "introspecting",
                     "serving", "failed", "closed", "aborted"} \cup Closing
      OBVIOUS
    <3>3. after' \in {"failed", "closed"} /\ gaveUp' \in BOOLEAN
      OBVIOUS
    <3>4. /\ loop' \in {"none", "running", "stopped"} /\ stop' \in BOOLEAN
          /\ task' \in {"none", "launching", "connecting", "handshaking",
                        "listing", "waiting", "unwinding", "ended"}
          /\ failing' \in BOOLEAN /\ signalled' \in BOOLEAN
      OBVIOUS
    <3>5. /\ loopRef' \in BOOLEAN /\ session' \in BOOLEAN /\ shutdown' \in BOOLEAN
          /\ tools' \in BOOLEAN /\ ready' \in BOOLEAN /\ connectError' \in BOOLEAN
      OBVIOUS
    <3>6. call' \in [Callers \cup {Main} -> Idle \cup Busy]
      OBVIOUS
    <3>7. server' \in BOOLEAN /\ flips' \in 0..MaxFlips
      OBVIOUS
    <3> QED
      BY <3>1, <3>2, <3>3, <3>4, <3>5, <3>6, <3>7
  <2>2. TaskInv'
    OBVIOUS
  <2>3. ConnectedInv'
    OBVIOUS
  <2>4. CloseInv'
    OBVIOUS
  <2> QED
    BY <2>1, <2>2, <2>3, <2>4
<1>9. CASE LoopStops
  <2> USE <1>9 DEF LoopStops
  <2>1. TypeOK'
    OBVIOUS
  <2>2. TaskInv'
    OBVIOUS
  <2>3. ConnectedInv'
    OBVIOUS
  <2>4. CloseInv'
    OBVIOUS
  <2> QED
    BY <2>1, <2>2, <2>3, <2>4
<1> QED
  BY <1>1, <1>2, <1>3, <1>4, <1>5, <1>6, <1>7, <1>8, <1>9 DEF Lifecycle

(* The callers change nothing but their own place, and the introspecting   *)
(* main thread its step.                                                   *)
LEMMA CallersKeepIInv ==
  ASSUME IInv, NEW c \in Callers \cup {Main}, Begin(c) \/ Call(c)
  PROVE  IInv'
<1> USE DEF IInv, TypeOK, ClosingHasLoop, Idle, Busy
<1>1. UNCHANGED <<after, gaveUp, loopVars, fields, world>>
  BY DEF Begin, Call, Bind, Submit, Answered, Broken, CallTimeout, Move
<1>2. /\ call' \in [Callers \cup {Main} -> Idle \cup Busy]
      /\ \A d \in (Callers \cup {Main}) \ {c} : call'[d] = call[d]
  BY DEF Begin, Call, Bind, Submit, Answered, Broken, CallTimeout, Move
<1>3. main' = main \/ (main = "introspect" /\ main' = "introspecting")
  BY DEF Begin, Call, Bind, Submit, Answered, Broken, CallTimeout, MayCall
<1>4. call'[c] \in Busy => tools
  <2>1. CASE Begin(c)
    BY <2>1 DEF Begin, Move, MayCall, ConnectedInv, CloseInv, Connected
  <2>2. CASE Call(c)
    <3>1. call[c] \in Busy
      BY <2>2 DEF Call, Bind, Submit, Answered, Broken, CallTimeout
    <3> QED
      BY <3>1 DEF CallInv
  <2> QED
    BY <2>1, <2>2
<1>5. CallInv'
  BY <1>1, <1>2, <1>4 DEF CallInv, fields
<1>6. TypeOK'
  BY <1>1, <1>2, <1>3 DEF Closing, loopVars, fields, world
<1>7. TaskInv' /\ ConnectedInv' /\ CloseInv'
  BY <1>1, <1>3 DEF TaskInv, ConnectedInv, CloseInv, Connected, Joined, Running,
                    Closing, loopVars, fields, world
<1> QED
  BY <1>5, <1>6, <1>7

(* IInv is inductive.                                                      *)
LEMMA IInvInductive == IInv /\ [Next]_vars => IInv'
<1> SUFFICES ASSUME IInv, [Next]_vars PROVE IInv'
  OBVIOUS
<1>1. CASE ServerFlips
  BY <1>1, ClientAssumption
     DEF ServerFlips, IInv, TypeOK, ClosingHasLoop, TaskInv, ConnectedInv,
         CloseInv, CallInv, Connected, Joined, Running, mainVars, loopVars, fields
<1>2. CASE UNCHANGED vars
  BY <1>2 DEF vars, IInv, TypeOK, ClosingHasLoop, TaskInv, ConnectedInv,
              CloseInv, CallInv, Connected, Joined, Running, mainVars, loopVars, fields, world
<1> QED
  BY <1>1, <1>2, MainKeepsIInv, LoopKeepsIInv, CallersKeepIInv DEF Next

LEMMA IInvAlways == Spec => []IInv
  BY IInvInitially, IInvInductive, PTL DEF Spec

(* All fields have their types and close() never works without a loop.     *)
THEOREM TypeCorrect == Spec => []TypeOK
<1>1. IInv => TypeOK
  BY DEF IInv
<1> QED
  BY <1>1, IInvAlways, PTL

(* No caller and no health check ever finds a session whose tools are not  *)
(* discovered, whatever connect() did before.                              *)
THEOREM ToolsAreKnownBeforeUse == Spec => []ToolsBeforeUse
<1>1. IInv => ToolsBeforeUse
  BY DEF IInv, ConnectedInv, CloseInv, CallInv, Connected, ToolsBeforeUse,
         Published
<1> QED
  BY <1>1, IInvAlways, PTL

(* While the application serves, a session has a live loop and an owner.   *)
THEOREM SessionIsOwned == Spec => []SessionOwned
<1>1. IInv => SessionOwned
  BY DEF IInv, TaskInv, ConnectedInv, Connected, SessionOwned
<1> QED
  BY <1>1, IInvAlways, PTL

(* After close() nothing is left in the client and nothing can come back.  *)
THEOREM CloseLeavesCleanSlate == Spec => []CleanSlate
<1>1. IInv => CleanSlate
  BY DEF IInv, CloseInv, Joined, CleanSlate
<1> QED
  BY <1>1, IInvAlways, PTL

(* A lifecycle task is abandoned only by a wait that timed out.            *)
THEOREM OrphansNeedATimeout == Spec => []OrphanOnlyAfterTimeout
<1>1. IInv => OrphanOnlyAfterTimeout
  BY DEF IInv, CloseInv, Joined, OrphanOnlyAfterTimeout
<1> QED
  BY <1>1, IInvAlways, PTL
===============================================================================
