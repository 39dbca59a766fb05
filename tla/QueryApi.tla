------------------------------- MODULE QueryApi -------------------------------
(***************************************************************************)
(* Requests to the agent API and the audit trail they leave: the endpoints *)
(* of app/api/routes.py over the files written and read by                 *)
(* app/agent/audit.py, and the model client that all requests share        *)
(* (get_llm_client, app/llm.py).  Requests are served by pool threads.     *)
(*                                                                         *)
(* A run is seen from here as AgentRun promises it: some events, then a    *)
(* final result or an exception.  A stream is pulled by the web server one *)
(* next() at a time; a client that leaves is noticed only between two of   *)
(* them, and a next() in progress runs to its yield.  write_text truncates *)
(* the file and fills it in two steps that a reader, a failing disk or a   *)
(* crash of the process can fall between; a listing looks at the directory *)
(* and then at one file after another, while runs go on being written.     *)
(***************************************************************************)
EXTENDS Naturals, FiniteSets

CONSTANTS
  Requests,    \* one run each; its execution id names its file
  Streams,     \* the ones that come in over /agent/query/stream
  MaxEvents,   \* bound: execution events of one run
  Limits,      \* page sizes asked of the history endpoint
  Offsets,     \* offsets asked of it
  MaxCrashes,  \* bound: crashes of the process
  None

ASSUME ApiAssumption ==
  /\ Streams \subseteq Requests /\ None \notin Requests
  /\ MaxEvents \in Nat \ {0} /\ MaxCrashes \in Nat
  /\ Limits \subseteq Nat \ {0} /\ Offsets \subseteq Nat

VARIABLES
  pc,        \* where the request stands
  events,    \* events of its run that were yielded
  gone,      \* its client has disconnected
  shared,    \* _CLIENT_INSTANCE: None, or the request that built it
  due,       \* the client a request must get, if that is settled (history)
  disk,      \* disk[r]: "absent", "partial", "whole"
  now,       \* the file system's clock, which counts changes of files
  mtime,     \* mtime[r]: when the *.json of r was changed, 0 if there is none
  failed,    \* writing the trace raised OSError (history)
  reader,    \* the history endpoint: "idle", "sorting", "reading"
  asked,     \* its limit and offset, until the page is cut
  stamps,    \* the files it found (or cut to its page) -> their mtime, 0 if
             \* not yet looked up
  page,      \* files it has still to read
  listed,    \* summaries collected
  owed,      \* what this listing must contain (history)
  crashes

clients == <<shared, due>>
request == <<pc, events, gone, failed, clients>>
store   == <<disk, now, mtime>>
history == <<reader, asked, stamps, page, listed, owed>>
vars    == <<request, store, history, crashes>>

Suspended == "streaming"    \* at a yield, in the hands of the web server
Inside    == {"building", "taking", "working", "opening", "writing",
              "answering"}
Ended     == {"complete", "error", "refused", "abandoned", "crashed"}

Nothing == [limit |-> 0, offset |-> 0]

Init ==
  /\ pc = [r \in Requests |-> "new"] /\ events = [r \in Requests |-> 0]
  /\ gone = [r \in Requests |-> FALSE] /\ failed = [r \in Requests |-> FALSE]
  /\ shared = None /\ due = [r \in Requests |-> None]
  /\ disk = [r \in Requests |-> "absent"]
  /\ now = 0 /\ mtime = [r \in Requests |-> 0]
  /\ reader = "idle" /\ asked = Nothing /\ stamps = <<>>
  /\ page = {} /\ listed = {} /\ owed = {}
  /\ crashes = 0

Goto(r, there) == pc' = [pc EXCEPT ![r] = there]

\* Mutants are named <definition>_<fault>; no action uses them.

-------------------------------------------------------------------------------
Unsettled == shared = None \/ \E q \in Requests : pc[q] = "building"

MustBuild_Always == TRUE
MustBuild == shared = None

(* get_agent lists the tools of the shared MCP client; if that is not      *)
(* connected the request fails before any response has begun.  Then        *)
(* get_llm_client looks for a model client ...                             *)
Arrive(r) ==
  /\ pc[r] = "new"
  /\ \/ Goto(r, "refused") /\ UNCHANGED due
     \/ /\ Goto(r, IF MustBuild THEN "building" ELSE "taking")
        /\ due' = [due EXCEPT ![r] = IF Unsettled THEN None ELSE shared]
  /\ UNCHANGED <<events, gone, failed, shared, store, history, crashes>>

(* ... makes one for want of it, whatever another thread did meanwhile ... *)
BuildClient(r) ==
  /\ pc[r] = "building"
  /\ shared' = r
  /\ Goto(r, "taking")
  /\ UNCHANGED <<events, gone, failed, due, store, history, crashes>>

(* ... and reads the global again, to return it.                           *)
TakeClient(r) ==
  /\ pc[r] = "taking"
  /\ due' = [due EXCEPT ![r] = None]
  /\ Goto(r, IF r \in Streams THEN "streaming" ELSE "working")
  /\ UNCHANGED <<events, gone, failed, shared, store, history, crashes>>

(* The web server pulls the next item, or drops the generator of a client  *)
(* that has left.                                                          *)
Pull(r) ==
  /\ pc[r] = Suspended /\ ~gone[r]
  /\ Goto(r, "working")
  /\ UNCHANGED <<events, gone, failed, clients, store, history, crashes>>

Drop(r) ==
  /\ pc[r] = Suspended /\ gone[r]
  /\ Goto(r, "abandoned")
  /\ UNCHANGED <<events, gone, failed, clients, store, history, crashes>>

(* A run pulled to its next event: agent.run keeps pulling by itself, the  *)
(* stream yields.                                                          *)
RunEvent(r) ==
  /\ pc[r] = "working" /\ events[r] < MaxEvents
  /\ events' = [events EXCEPT ![r] = @ + 1]
  /\ Goto(r, IF r \in Streams THEN "streaming" ELSE "working")
  /\ UNCHANGED <<gone, failed, clients, store, history, crashes>>

AfterFinal_Announced == "answering"
AfterFinal  == "opening"
AfterRaise_Uncaught == "hanging"
AfterRaise  == "error"

RunFinal(r) ==
  /\ pc[r] = "working" /\ events[r] > 0
  /\ Goto(r, AfterFinal)
  /\ UNCHANGED <<events, gone, failed, clients, store, history, crashes>>

(* An exception: HTTP 500, or the stream's error item.                     *)
RunRaises(r) ==
  /\ pc[r] = "working" /\ events[r] > 0
  /\ Goto(r, AfterRaise)
  /\ UNCHANGED <<events, gone, failed, clients, store, history, crashes>>

-------------------------------------------------------------------------------
\* Mutant: one file for all runs.
Truncated_SharedName(r) ==
  [q \in Requests |-> IF q = r \/ disk[q] = "whole" THEN "partial" ELSE disk[q]]
Truncated(r) == [disk EXCEPT ![r] = "partial"]

\* Mutant: a name that *.json does not match.
Touched_NoSuffix(r) == mtime
Touched(r) == [mtime EXCEPT ![r] = now + 1]

(* persist_execution: mkdir, open for writing, write.                      *)
OpenFile(r) ==
  /\ pc[r] = "opening"
  /\ disk' = Truncated(r) /\ now' = now + 1 /\ mtime' = Touched(r)
  /\ Goto(r, "writing")
  /\ UNCHANGED <<events, gone, failed, clients, history, crashes>>

WriteFile(r) ==
  /\ pc[r] = "writing"
  /\ disk' = [disk EXCEPT ![r] = "whole"] /\ now' = now + 1 /\ mtime' = Touched(r)
  /\ Goto(r, "answering")
  /\ UNCHANGED <<events, gone, failed, clients, history, crashes>>

(* OSError is logged and swallowed; what was written stays.                *)
PersistFails(r) ==
  /\ pc[r] \in {"opening", "writing"}
  /\ failed' = [failed EXCEPT ![r] = TRUE]
  /\ Goto(r, "answering")
  /\ UNCHANGED <<events, gone, clients, store, history, crashes>>

(* The response, or the stream's "complete" item.                          *)
Answer(r) ==
  /\ pc[r] = "answering"
  /\ Goto(r, "complete")
  /\ UNCHANGED <<events, gone, failed, clients, store, history, crashes>>

-------------------------------------------------------------------------------
(* list_executions: glob the directory, stat what it found, one file after *)
(* another ...                                                             *)
Files == {r \in Requests : mtime[r] > 0}

(* What a caller of the history may count on: a run whose completion it    *)
(* can know of, if it could be stored and belongs on the page.  A file     *)
(* that is just being written may pass it while the times are looked up.   *)
Announced == {r \in Requests : pc[r] = "complete" /\ ~failed[r]}

Newer(r)   == {q \in Files : mtime[q] > mtime[r]}
MayPass(r) == {q \in Files : pc[q] = "writing"}

StartList(limit, offset) ==
  /\ reader = "idle"
  /\ reader' = "sorting" /\ asked' = [limit |-> limit, offset |-> offset]
  /\ stamps' = [r \in Files |-> 0]
  /\ owed' = {r \in Announced :
                /\ offset <= Cardinality(Newer(r))
                /\ Cardinality(Newer(r) \cup MayPass(r)) < offset + limit}
  /\ UNCHANGED <<request, store, page, listed, crashes>>

Stat(r) ==
  /\ reader = "sorting" /\ r \in DOMAIN stamps /\ stamps[r] = 0
  /\ stamps' = [stamps EXCEPT ![r] = mtime[r]]
  /\ UNCHANGED <<request, store, reader, asked, page, listed, owed, crashes>>

\* Mutant: oldest first.
Ahead_OldestFirst(r) == {q \in DOMAIN stamps : stamps[q] < stamps[r]}
Ahead(r) == {q \in DOMAIN stamps : stamps[q] > stamps[r]}

(* ... sort them, newest first, cut the page ...                           *)
SortList ==
  /\ reader = "sorting" /\ \A r \in DOMAIN stamps : stamps[r] > 0
  /\ reader' = "reading"
  /\ page' = {r \in DOMAIN stamps :
                Cardinality(Ahead(r)) \in asked.offset..(asked.offset + asked.limit - 1)}
  /\ stamps' = [r \in page' |-> stamps[r]] /\ asked' = Nothing
  /\ UNCHANGED <<request, store, listed, owed, crashes>>

(* load_execution finds and parses the file of a run.                      *)
Loads(r) == disk[r] = "whole"

Parses_Unchecked(r) == TRUE
Parses(r) == Loads(r)

(* ... and read the files on it; one that does not parse is skipped.       *)
ReadFile(r) ==
  /\ reader = "reading" /\ r \in page /\ page \cap Ahead(r) = {}
  /\ listed' = IF Parses(r) THEN listed \cup {r} ELSE listed
  /\ page' = page \ {r}
  /\ UNCHANGED <<request, store, reader, asked, stamps, owed, crashes>>

NoListing ==
  /\ reader' = "idle" /\ asked' = Nothing /\ stamps' = <<>>
  /\ page' = {} /\ listed' = {} /\ owed' = {}

EndList ==
  /\ reader = "reading" /\ page = {}
  /\ NoListing
  /\ UNCHANGED <<request, store, crashes>>

-------------------------------------------------------------------------------
Disconnect(r) ==
  /\ pc[r] \notin Ended \cup {"new"} /\ ~gone[r]
  /\ gone' = [gone EXCEPT ![r] = TRUE]
  /\ UNCHANGED <<pc, events, failed, clients, store, history, crashes>>

(* The process dies: whatever was under way is over, the files stay.       *)
Crash ==
  /\ crashes < MaxCrashes
  /\ crashes' = crashes + 1
  /\ pc' = [r \in Requests |->
              IF pc[r] \in Ended \cup {"new"} THEN pc[r] ELSE "crashed"]
  /\ NoListing
  /\ shared' = None /\ due' = [r \in Requests |-> None]
  /\ UNCHANGED <<events, gone, failed, store>>

Serve(r) == \/ BuildClient(r) \/ TakeClient(r) \/ Pull(r) \/ Drop(r)
            \/ RunEvent(r) \/ RunFinal(r) \/ RunRaises(r)
            \/ OpenFile(r) \/ WriteFile(r) \/ PersistFails(r) \/ Answer(r)

List == \/ \E limit \in Limits, offset \in Offsets : StartList(limit, offset)
        \/ \E r \in Requests : Stat(r) \/ ReadFile(r)
        \/ SortList \/ EndList

Next ==
  \/ \E r \in Requests : Arrive(r) \/ Serve(r) \/ Disconnect(r)
  \/ List \/ Crash

Spec == Init /\ [][Next]_vars

-------------------------------------------------------------------------------
TypeOK ==
  /\ pc \in [Requests -> {"new", Suspended} \cup Inside \cup Ended]
  /\ events \in [Requests -> 0..MaxEvents]
  /\ gone \in [Requests -> BOOLEAN] /\ failed \in [Requests -> BOOLEAN]
  /\ shared \in Requests \cup {None}
  /\ due \in [Requests -> Requests \cup {None}]
  /\ disk \in [Requests -> {"absent", "partial", "whole"}]
  /\ now \in Nat /\ mtime \in [Requests -> 0..now]
  /\ Files = {r \in Requests : disk[r] # "absent"}
  /\ reader \in {"idle", "sorting", "reading"}
  /\ asked \in [limit : Limits, offset : Offsets] \cup {Nothing}
  /\ DOMAIN stamps \subseteq Files /\ \A r \in DOMAIN stamps : stamps[r] \in 0..now
  /\ page \subseteq DOMAIN stamps
  /\ listed \subseteq Requests /\ owed \subseteq Requests
  /\ crashes \in 0..MaxCrashes

(* Whoever is told that a run is complete can load its trace from then on, *)
(* through crashes and whatever else is written, unless the disk failed.   *)
CompleteMeansStored ==
  \A r \in Requests : pc[r] = "complete" /\ ~failed[r] => Loads(r)

(* The history shows only runs that came to a final result, and no torn    *)
(* trace: neither one that is being written while the page is read nor one *)
(* a crash or a full disk left behind.                                     *)
NothingTornListed ==
  \A r \in listed : /\ disk[r] = "whole" /\ events[r] > 0
                    /\ pc[r] \in {"answering", "complete", "crashed"}

(* A page misses no run it owes: one announced before the listing began    *)
(* whose place in the history is on the page, whatever is written, finished*)
(* or torn while the files are found, looked at and read.                  *)
HistoryComplete ==
  reader = "reading" /\ page = {} => owed \subseteq listed

(* Requests that find the shared model client in place, with nobody still  *)
(* making one, are all served by that client; only requests that race for  *)
(* the first one may end up with clients of their own.                     *)
ClientSettles ==
  \A r \in Requests : due[r] # None => due[r] = shared

(* "never leave the SSE stream hanging": a request that was taken ends.    *)
EveryRequestEnds ==
  \A r \in Requests : pc[r] # "new" ~> pc[r] \in Ended

(* A trace, once stored, is never touched again: not by a later run, not   *)
(* by a crash, not by a reader.                                            *)
TracesAreFinal ==
  [][\A r \in Requests : disk[r] = "whole" => disk'[r] = "whole"]_vars

-------------------------------------------------------------------------------
(* "Every agent run is written to executions/<execution_id>.json".         *)
EveryRunIsWritten ==
  \A r \in Requests : pc[r] \in {"complete", "abandoned"} /\ events[r] > 0
                        /\ ~failed[r] => disk[r] = "whole"
===============================================================================
