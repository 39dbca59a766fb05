------------------------------- MODULE StreamView ------------------------------
(***************************************************************************)
(* The agent tab of the user interface (ui/streamlit_app.py) at the other  *)
(* end of a stream of QueryApi: stream_agent_query reads the items one by  *)
(* one, render_agent_tab shows the events and, when the stream is over,    *)
(* one of a result, an error or "No response received".                    *)
(*                                                                         *)
(* The items are on their way for a while.  The connection may break, by   *)
(* the network, the client's read timeout or the end of the server's       *)
(* process; what was under way is then lost from some item on, and both    *)
(* ends learn of it.  A user who reloads or leaves the page stops the      *)
(* script.                                                                 *)
(***************************************************************************)
EXTENDS QueryApi, Sequences, FiniteSetsExt

VARIABLE view    \* what the browser session of a stream holds
tab == <<vars, view>>

(* wire: items under way, each "event", "complete", "error" or             *)
(* "unexplained"; shown: events on the screen; response, detail:           *)
(* final_response and error_detail, where an exception without a message   *)
(* makes an empty detail.                                                  *)
Fresh == [wire |-> <<>>, broken |-> FALSE, shown |-> 0, response |-> FALSE,
          detail |-> "none", screen |-> "idle"]

Open(r) == view[r].screen = "waiting"

ViewInit == Init /\ view = [r \in Streams |-> Fresh]

Update(r, v) == view' = [view EXCEPT ![r] = v]

(* Items are put on the wire, if there is somebody at its end.             *)
Yield(r, items) ==
  view' = [s \in Streams |-> IF s = r /\ Open(s) /\ ~view[s].broken
                                THEN [view[s] EXCEPT !.wire = @ \o items]
                                ELSE view[s]]

(* The connection breaks after n more items.                               *)
CutAt(v, n) == [v EXCEPT !.broken = TRUE, !.wire = SubSeq(@, 1, Min({n, Len(@)}))]

(* The server is to learn that its client is gone.                         *)
HangUp(r) == IF pc[r] \in Ended \/ gone[r] THEN UNCHANGED vars ELSE Disconnect(r)

-------------------------------------------------------------------------------
(* The form is submitted: requests.post.                                   *)
Submit(r) ==
  /\ Arrive(r)
  /\ view' = [s \in Streams |-> IF s = r THEN [view[s] EXCEPT !.screen = "waiting"]
                                         ELSE view[s]]

\* Mutant: the stream of a failing run just ends.
Complaint_Silent == {<<>>}
Complaint == {<<"error">>, <<"unexplained">>}

Produce(r) ==
  \/ RunEvent(r) /\ Yield(r, <<"event">>)
  \/ RunRaises(r) /\ \E items \in Complaint : Yield(r, items)
  \/ Answer(r) /\ Yield(r, <<"complete">>)
  \/ /\ \/ BuildClient(r) \/ TakeClient(r) \/ Pull(r) \/ Drop(r)
        \/ RunFinal(r) \/ OpenFile(r) \/ WriteFile(r) \/ PersistFails(r)
     /\ UNCHANGED view

(* The body of the for loop over the chunks.                               *)
Read(r) ==
  LET v == view[r] IN
    /\ Open(r) /\ v.wire # <<>>
    /\ Update(r, CASE Head(v.wire) = "event" ->
                        [v EXCEPT !.wire = Tail(@), !.shown = @ + 1]
                   [] Head(v.wire) = "complete" ->
                        [v EXCEPT !.wire = Tail(@), !.response = TRUE]
                   [] OTHER ->
                        [v EXCEPT !.wire = Tail(@), !.detail = Head(v.wire)])
    /\ UNCHANGED vars

(* if error_detail, elif final_response, else: an empty detail is no error *)
(* to the first of them.                                                   *)
Rendered(v) == IF v.detail \in {"error", "unreachable"} THEN "error"
               ELSE IF v.response THEN "result" ELSE "nothing"

Finish(r) ==
  LET v == view[r] IN
    /\ Open(r) /\ v.wire = <<>> /\ ~v.broken
    /\ pc[r] \in {"complete", "error"}
    /\ Update(r, [v EXCEPT !.screen = Rendered(v)])
    /\ UNCHANGED vars

\* Mutant: a broken connection raises nothing.
CallFails_Refused(r) == pc[r] = "refused"
CallFails(r) == pc[r] = "refused" \/ view[r].broken

(* RequestException: no connection, an HTTP error, a stream cut short.     *)
GiveUp(r) ==
  LET v == [view[r] EXCEPT !.detail = "unreachable"] IN
    /\ Open(r) /\ v.wire = <<>> /\ CallFails(r)
    /\ Update(r, [v EXCEPT !.screen = Rendered(v)])
    /\ UNCHANGED vars

-------------------------------------------------------------------------------
(* The user leaves the page: the script stops, the connection is closed.   *)
Leave(r) ==
  /\ Open(r) /\ HangUp(r)
  /\ Update(r, [Fresh EXCEPT !.screen = "left"])

Break(r) ==
  /\ Open(r) /\ ~view[r].broken /\ pc[r] # "refused" /\ HangUp(r)
  /\ \E n \in 0..Len(view[r].wire) : Update(r, CutAt(view[r], n))

(* The server's process ends, and the streams it serves with it.           *)
Die ==
  /\ Crash
  /\ \E kept \in [Streams -> 0..MaxEvents] :
       view' = [s \in Streams |-> IF Open(s) /\ pc'[s] = "crashed"
                                    THEN CutAt(view[s], kept[s]) ELSE view[s]]

Watch(r) == Read(r) \/ Finish(r) \/ GiveUp(r)

TabNext ==
  \/ \E r \in Streams : Submit(r) \/ Watch(r) \/ Leave(r) \/ Break(r)
  \/ \E r \in Requests : Produce(r)
  \/ \E r \in Requests \ Streams : (Arrive(r) \/ Disconnect(r)) /\ UNCHANGED view
  \/ List /\ UNCHANGED view
  \/ Die

TabSpec == ViewInit /\ [][TabNext]_tab

(* The server pulls live streams (QueryApi) and the script keeps reading:  *)
(* a read that is never answered ends by its timeout of 600 s (Break).     *)
FairTab == /\ TabSpec
           /\ \A r \in Requests : WF_tab(Produce(r))
           /\ \A r \in Streams : WF_tab(Watch(r))

-------------------------------------------------------------------------------
(* What the user sees is what happened: a result only of a completed run,  *)
(* with every event of it, and open to inspection later unless the disk    *)
(* failed; "No response received" only for an exception without a message; *)
(* and no result that arrived is withheld but over a broken connection.    *)
ScreenIsTrue ==
  \A r \in Streams :
    /\ view[r].screen = "result" =>
         /\ pc[r] = "complete" /\ view[r].shown = events[r]
         /\ Loads(r) \/ failed[r]
    /\ view[r].screen = "nothing" => pc[r] = "error" /\ view[r].detail = "unexplained"
    /\ view[r].screen = "error" /\ view[r].response => view[r].broken

(* The page never waits for ever: not for a run that failed, not for a     *)
(* server that died, not for a connection that was cut.                    *)
EveryViewEnds == \A r \in Streams : Open(r) ~> ~Open(r)
===============================================================================
