------------------------------ MODULE MCTaskList ------------------------------
(* Finite instances of TaskList. *)
EXTENDS TaskList

CONSTANTS root, first, second, inner, extra, none

\* Two listed tasks and two that functions may add at run time; one of each
\* kind is not required.
MCTask == {root, first, second, inner, extra}
MCInitial == <<first, second>>
MCRequired == {root, first, inner}
=============================================================================
