---------------------------- MODULE MCDeleteFlush ----------------------------
(* Instances of DeleteFlush for TLC. *)
EXTENDS DeleteFlush

\* Every client, the loop and the shutdown may have a batch in flight.
Flushers == Client \cup {Loop, Shutdown}
=============================================================================
