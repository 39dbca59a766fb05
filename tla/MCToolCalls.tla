------------------------------ MODULE MCToolCalls ------------------------------
(* Instance of ToolCalls for TLC: a first turn with every SQL text of up   *)
(* to three tokens, with a call in every form, or with two calls, and a    *)
(* second one of one or two calls.                                         *)
EXTENDS ToolCalls

CONSTANTS i1, i2    \* ids given by the model server

MCTools ==
  [execute_sql   |-> [words |-> {"execute"},            takes |-> {"sql"}],
   explain_query |-> [words |-> {"inspect", "execute"}, takes |-> {"sql"}],
   ask           |-> [words |-> {},         takes |-> {"query", "statement"}],
   list_schemas  |-> [words |-> {},                     takes |-> {}]]

MCListings == {<<>>, <<"explain_query">>, <<"list_schemas", "ask">>,
               <<"explain_query", "ask">>, <<"ask", "explain_query", "execute_sql">>,
               <<"explain_query", "execute_sql", "list_schemas">>}

MCAllowlists == {{}, {"ask", "other"}, {"other"}}

Texts == BoundedSeq({"read", "write", "word", "semi", "blank", "quoted"}, 3)

ACall(id, name, form, arguments) ==
  [id |-> id, name |-> name, form |-> form, arguments |-> arguments]

OneCall == {<<ACall(None, "ask", "dict", key :> sql)>> :
              key \in {"SQL", "statement"}, sql \in Texts}

Typical == {<<>>, "note" :> <<"write">>, "sql" :> <<"read", "word">>,
            "query" :> <<"write">>,
            "sql" :> None @@ "statement" :> <<"read", "semi", "word">>}

TypicalCall == {<<ACall(i1, name, form, arguments)>> :
                  name \in {"ask", "execute_sql", "other"}, form \in Forms,
                  arguments \in Typical}

Kinds == {ACall(id, "ask", form, "sql" :> <<"read">>) :
            id \in {None, i1}, form \in {"json", "unreadable"}}
  \cup {ACall(id, "other", "dict", "sql" :> <<"write">>) : id \in {None, i2}}

Pairs(calls) ==
  {<<a, b>> : <<a, b>> \in {pair \in calls \X calls :
     pair[1].id = None \/ pair[1].id # pair[2].id}}

(* Ids recur in the second turn, of other calls: those of the server as    *)
(* well as the made-up ones.                                               *)
LaterKinds == {ACall(None, "execute_sql", "dict", "sql" :> <<"read", "word">>),
               ACall(i1, "execute_sql", "json", "sql" :> <<"word">>),
               ACall(i2, "ask", "dict", <<>>)}

MCReplies == <<OneCall \cup TypicalCall \cup Pairs(Kinds),
               {<<a>> : a \in LaterKinds} \cup Pairs(LaterKinds)>>
===============================================================================
