------------------------------- MODULE MCInstall -------------------------------
(* Finite instances of Install: two drives, either of them the system drive. *)
EXTENDS Install

MCDrives == <<"c", "d">>
=============================================================================
