------------------------------- MODULE MCServer -------------------------------
(* Instances of Server for TLC. *)
EXTENDS Server

Keep  == [keep |-> TRUE,  health |-> FALSE]
Close == [keep |-> FALSE, health |-> FALSE]
KeepHealth  == [keep |-> TRUE,  health |-> TRUE]
CloseHealth == [keep |-> FALSE, health |-> TRUE]

\* A message that completes no request, one request of either kind, two pipelined
\* ones, and a request behind a health check that is kept alive or closes the
\* connection.
MCChunks == {<<>>, <<Keep>>, <<Close>>, <<Close, Keep>>, <<KeepHealth, Keep>>,
             <<CloseHealth, Keep>>}
===============================================================================
