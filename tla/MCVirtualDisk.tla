----------------------------- MODULE MCVirtualDisk -----------------------------
(* A disk of nine buffers whose end blocks are three each, on a drive with   *)
(* room for less, for exactly as much and for more.                          *)
EXTENDS VirtualDisk
=============================================================================
