--------------------------- MODULE AdmissionControl ---------------------------
(***************************************************************************)
(* What ThreadedTaskList promises to whoever starts and stops it, without  *)
(* the tree, the stack or the notifications: tasks are admitted one at a   *)
(* time and only while the list is not halted, an admitted task starts     *)
(* (even if the list is halted in between: at most one does), no task      *)
(* starts twice, and a halted list stays halted.                           *)
(***************************************************************************)
CONSTANTS Job, Nobody

VARIABLES halted, admitted, started

avars == <<halted, admitted, started>>

AInit == halted = FALSE /\ admitted = Nobody /\ started = {}

AAdmit(j) ==
    /\ ~halted
    /\ admitted = Nobody
    /\ j \notin started
    /\ admitted' = j
    /\ UNCHANGED <<halted, started>>

AStart ==
    /\ admitted # Nobody
    /\ started' = started \cup {admitted}
    /\ admitted' = Nobody
    /\ UNCHANGED halted

AHalt == halted' = TRUE /\ UNCHANGED <<admitted, started>>

ANext == (\E j \in Job : AAdmit(j)) \/ AStart \/ AHalt

ASpec == AInit /\ [][ANext]_avars
=============================================================================
