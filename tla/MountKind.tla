------------------------------ MODULE MountKind ------------------------------
(* A mount has one of the backends of setup.rs; the adapters' modules share *)
(* which one a behaviour is of, what happens in it, and its bounds.         *)
CONSTANT NONE
VARIABLE case
Happens(event) == event \in case.events
=============================================================================
