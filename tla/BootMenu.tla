-------------------------------- MODULE BootMenu --------------------------------
(***************************************************************************)
(* What the user of Windows may expect of boot.ini: its lines stay, in     *)
(* their order, while our entries come and go one at a time, unless        *)
(* writing it is cut short.                                                *)
(***************************************************************************)
CONSTANT Entries   \* ours

VARIABLES
    foreign,   \* the lines that are not ours
    own,       \* our entries
    torn       \* writing has been cut short

mvars == <<foreign, own, torn>>

Init == own = {} /\ torn = FALSE

Change ==
    /\ \E e \in Entries : own' = own \cup {e} \/ own' = own \ {e}
    /\ UNCHANGED <<foreign, torn>>
Tear == torn' = TRUE

Spec == Init /\ [][Change \/ Tear]_mvars
=============================================================================
