------------------------------ MODULE MCRunTasks ------------------------------
(* A finite instance of RunTasks: two listed tasks, one added at run time. *)
EXTENDS RunTasks

CONSTANTS root, first, second, inner, none

MCTask == {root, first, second, inner}
MCInitial == <<first, second>>
MCRequired == {root, first, second}
=============================================================================
