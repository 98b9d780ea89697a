-------------------------- MODULE MCInstallationSize --------------------------
(* Two drives with the amounts of free space at which a rule of the page     *)
(* changes its answer, and a little above and below.                         *)
EXTENDS InstallationSize

MCDrives == <<"c", "d">>
MCFreeSpace == {1000, 1024, 5676, 5677, 6677, 7677, 8191, 8192, 8677, 9216, 15000, 40000}
=============================================================================
