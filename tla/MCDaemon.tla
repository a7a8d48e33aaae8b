------------------------------- MODULE MCDaemon -------------------------------
(* Instances of Daemon for TLC. *)
EXTENDS Daemon

Request(k) == [keep |-> k, health |-> FALSE]

\* One request that closes its connection, behind a pipelined one that does not.
MCPair == {<<Request(TRUE), Request(FALSE)>>}

\* A single request, of either kind.
MCOne == {<<Request(TRUE)>>, <<Request(FALSE)>>}
===============================================================================
