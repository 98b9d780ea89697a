------------------------------ MODULE MCDispatcher ------------------------------
(* Every answer of the host, and pages up to five loops inside each other.     *)
EXTENDS Dispatcher
=============================================================================
