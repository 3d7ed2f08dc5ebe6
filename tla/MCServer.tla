------------------------------ MODULE MCServer ------------------------------
(***************************************************************************)
(* Server on a small instance: two stanzas of one sender and one of the    *)
(* server's own account.                                                   *)
(***************************************************************************)
EXTENDS Server

CONSTANTS app, ctx, s1, s2, own, j1, bot

MCStanzas == {s1, s2, own}
MCRequestContexts == MCStanzas \X {1, 2}
MCNotes ==
  [by : MCStanzas, during : {"view", "generator"}, kind : {"message", "presence"}]
MCAppOf == [c \in {ctx} \cup MCRequestContexts |-> app]
MCFrom == [s \in MCStanzas |-> IF s = own THEN bot ELSE j1]
MCResponses == {<<>>, <<"message">>, <<"wait", "message">>, <<"unknown">>}

\* Answers without a command that makes the dispatch raise.
MCGoodResponses == MCResponses \ {<<"unknown">>}
=============================================================================
