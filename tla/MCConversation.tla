--------------------------- MODULE MCConversation ---------------------------
EXTENDS Conversation

MCClients == [dialect : {"anthropic", "openai"}, chained : {FALSE}]
               \cup [dialect : {"responses"}, chained : BOOLEAN]
MCTools == {Plain, <<"mcp", "find", FALSE>>, <<"", "edit", FALSE>>}
MCShapes ==
  {[think |-> s[1], text |-> s[2], late |-> s[3], search |-> s[4], calls |-> s[5]] :
   s \in {<<"signed", TRUE,  FALSE, FALSE, 0>>, <<"plain",  FALSE, FALSE, FALSE, 0>>,
          <<"no",     TRUE,  FALSE, FALSE, 1>>, <<"signed", FALSE, FALSE, FALSE, 2>>,
          <<"plain",  TRUE,  TRUE,  FALSE, 2>>, <<"no",     TRUE,  FALSE, TRUE,  0>>,
          <<"no",     FALSE, FALSE, TRUE,  1>>}}
MCCustom == {<<"", "edit", FALSE>>}
=============================================================================
