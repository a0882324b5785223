-------------------------- MODULE MCAdapterProcess --------------------------
(* Two requests and three processes: a leader, a child that detaches, and  *)
(* one that the detached child forks while it is being killed.             *)
EXTENDS AdapterProcess
=============================================================================
