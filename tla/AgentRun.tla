-------------------------------- MODULE AgentRun ------------------------------
(***************************************************************************)
(* What a caller may rely on in an agent run, whatever the model and the   *)
(* tools do: a bounded number of model calls, a verdict that fits what was *)
(* found and is never revised, and an end.  AgentLoop implements it.       *)
(***************************************************************************)
EXTENDS Naturals

CONSTANT MaxSteps    \* reasoning steps the run may spend

VARIABLES
  phase,    \* "running", "cut", "decided" or one of Over
  spent,    \* model calls begun
  found,    \* some data was retrieved
  verdict   \* the status a final result would carry

vars == <<phase, spent, found, verdict>>

Over == {"done", "raised", "abandoned"}

Init == phase = "running" /\ spent = 0 /\ found = FALSE /\ verdict = "incomplete"

(* A model call that leads to more work: tool calls, or a retry.           *)
Ask ==
  /\ phase = "running" /\ spent < MaxSteps
  /\ spent' = spent + 1
  /\ UNCHANGED <<phase, found, verdict>>

(* Data is only ever gained, and only while the run is running.            *)
Find ==
  /\ phase = "running" /\ ~found
  /\ found' = TRUE
  /\ UNCHANGED <<phase, spent, verdict>>

(* A model call that settles the run: the verdict says what was found, or  *)
(* that the model failed.                                                  *)
Decide ==
  /\ phase = "running" /\ spent < MaxSteps
  /\ spent' = spent + 1
  /\ phase' = "decided"
  /\ verdict' \in {IF found THEN "complete" ELSE "no_results", "error"}
  /\ UNCHANGED found

(* Budget or deadline: the verdict stays "incomplete".                     *)
Cut ==
  /\ phase = "running"
  /\ phase' = "cut"
  /\ UNCHANGED <<spent, found, verdict>>

(* One more model call is spent on a run that was cut off, if there is     *)
(* something to summarize.                                                 *)
Summarize ==
  /\ phase = "cut" /\ found
  /\ spent' = spent + 1
  /\ phase' \in {"decided", "done", "raised"}
  /\ UNCHANGED <<found, verdict>>

Deliver ==
  /\ phase = "decided" \/ (phase = "cut" /\ ~found)
  /\ phase' = "done"
  /\ UNCHANGED <<spent, found, verdict>>

(* An exception leaves the run: out of a model call, or out of a tool.     *)
Raise ==
  /\ phase = "running"
  /\ phase' = "raised"
  /\ spent' \in {spent, spent + 1} /\ spent' <= MaxSteps
  /\ UNCHANGED <<found, verdict>>

Abandon ==
  /\ phase \notin Over
  /\ phase' = "abandoned"
  /\ UNCHANGED <<spent, found, verdict>>

Progress == Ask \/ Find \/ Decide \/ Cut \/ Summarize \/ Deliver \/ Raise

Next == Progress \/ Abandon

Spec == Init /\ [][Next]_vars

FairSpec == Spec /\ WF_vars(Progress \/ Abandon)
===============================================================================
