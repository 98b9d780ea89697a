---------------------------- MODULE InstallationSize ----------------------------
(***************************************************************************)
(* How much is installed where: the drives the settings page offers, the   *)
(* sizes it offers for the drive selected, the defaults it selects, and    *)
(* the virtual disks choose_disk_sizes makes of the size confirmed         *)
(* (installation_page.py, win32/backend.py).  All amounts are in MB; the   *)
(* page counts 1000 MB to a GB, the drives 1024.                           *)
(***************************************************************************)
EXTENDS Integers, Sequences, FiniteSets, SequencesExt, FiniteSetsExt

CONSTANTS
    Drives,     \* the hard disks, in the order get_drives finds them
    FreeSpace,  \* the values of drive.free_space_mb considered
    MinDisk,    \* distro.min_disk_space_mb
    MaxIso,     \* distro.max_iso_size, in MB
    None        \* nothing is selected

ASSUME DrivesAssumption == IsInjective(Drives)
ASSUME FreeSpaceAssumption == FreeSpace \subseteq Nat
\* isolist.ini asks for 3000.
ASSUME MinDiskAssumption == \E gb \in 1 .. 30 : MinDisk = gb * 1000
ASSUME MaxIsoAssumption == MaxIso \in Nat
ASSUME NoneAssumption == None \notin ToSet(Drives) /\ None \notin Nat

VARIABLES
    free,   \* drive.free_space_mb of each drive
    fat,    \* the drives with is_fat()
    skip,   \* info.skip_size_check
    page,   \* "opening", "open", "error", "quit", "confirmed" or "sized"
    drive,  \* info.target_drive
    size,   \* what size_list shows, in GB
    asked,  \* info.installation_size_mb
    disks   \* root_size_mb and the others

svars == <<free, fat, skip, page, drive, size, asked, disks>>

Drive == ToSet(Drives)
Needed == MinDisk + MaxIso + 100
Rounded(d) == (free[d] \div 1024) * 1000
NoDisks == [root |-> 0, swap |-> 0, home |-> 0, usr |-> 0]

Init ==
    /\ free \in [Drive -> FreeSpace]
    /\ fat \in SUBSET Drive
    /\ skip \in BOOLEAN                      \* --skipsizecheck
    /\ page = "opening"
    /\ drive = None /\ size = None /\ asked = None
    /\ disks = NoDisks

\* populate_drive_list: FAT drives are not offered.
Offered(skipping) == {d \in Drive : d \notin fat /\ (skipping \/ Rounded(d) > Needed)}

\* The first of the largest that are large enough, or else the first of the list.
Before(d, e) == \E i, j \in DOMAIN Drives : i < j /\ Drives[i] = d /\ Drives[j] = e
IsDefault(d, skipping) ==
    /\ d \in Offered(skipping)
    /\ \A e \in Offered(skipping) \ {d} :
          IF Rounded(d) > Needed
          THEN Rounded(e) < Rounded(d) \/ (Rounded(e) = Rounded(d) /\ Before(d, e))
          ELSE Rounded(e) <= Needed /\ Before(d, e)

\* populate_size_list
SizesAbove(d, skipping) ==
    {gb \in 1 .. 30 : /\ skipping \/ gb * 1000 > MinDisk
                      /\ gb * 1000 + MaxIso + 100 <= free[d]}
SizesWithoutIso(d, skipping) ==
    {gb \in 1 .. 30 : /\ skipping \/ gb * 1000 >= MinDisk
                      /\ gb * 1000 + 100 <= free[d]}
Sizes(d, skipping) ==
    {gb \in 1 .. 30 : /\ skipping \/ gb * 1000 >= MinDisk
                      /\ gb * 1000 + MaxIso + 100 <= free[d]}

\* select_default_size.  The sizes are consecutive, so the one at index i of the
\* list is i above the least; the index is the length for a list of one.
AsAsked(sizes) == {gb \in sizes : asked # None /\ gb >= asked \div 1000}
Index(sizes) == IF Cardinality(sizes) > 1 THEN Cardinality(sizes) \div 2 ELSE Cardinality(sizes)
IndexError(sizes) == AsAsked(sizes) = {} /\ sizes # {} /\ Index(sizes) >= Cardinality(sizes)
AtIndex(sizes) ==
    LET gb == Min(sizes) + Index(sizes) IN IF gb < 10 THEN gb ELSE 10

\* on_drive_change makes a new list: CB_SELECTSTRING selects nothing in it if it
\* has no such size.
ShowSizes(d, sizes) ==
    /\ drive' = d
    /\ \/ \E gb \in AsAsked(sizes) :
             /\ \A other \in AsAsked(sizes) : gb <= other
             /\ size' = gb /\ asked' = asked
       \/ /\ AsAsked(sizes) = {} /\ (sizes = {} \/ IndexError(sizes))
          /\ size' = None /\ asked' = asked
       \/ /\ AsAsked(sizes) = {} /\ sizes # {} /\ ~IndexError(sizes)
          /\ size' = IF AtIndex(sizes) \in sizes THEN AtIndex(sizes) ELSE None
          /\ asked' = IF size' = None THEN None ELSE size' * 1000

\* check_disk_free_space asks when no drive is large enough, FAT or not.
Enough == \E d \in Drive : Rounded(d) > Needed
TooSmall == \A d \in Drive : free[d] < 1024

Quit ==
    /\ page = "opening" /\ ~skip /\ ~Enough
    /\ page' = "quit"
    /\ UNCHANGED <<free, fat, skip, drive, size, asked, disks>>

Open ==
    /\ page = "opening"
    /\ skip \/ Enough \/ ~TooSmall
    /\ skip' = (skip \/ ~Enough)
    /\ \/ /\ Offered(skip') = {}
          /\ page' = "open"
          /\ UNCHANGED <<drive, size, asked>>
       \/ \E d \in Drive :
             /\ IsDefault(d, skip')
             /\ ShowSizes(d, Sizes(d, skip'))
             /\ page' = IF IndexError(Sizes(d, skip')) THEN "error" ELSE "open"
    /\ UNCHANGED <<free, fat, disks>>

\* An exception in a callback of the window is printed and forgotten.
ChangeDrive ==
    /\ page = "open"
    /\ \E d \in Offered(skip) : ShowSizes(d, Sizes(d, skip))
    /\ UNCHANGED <<free, fat, skip, page, disks>>

ChangeSize ==
    /\ page = "open" /\ drive # None
    /\ \E gb \in Sizes(drive, skip) : size' = gb /\ asked' = gb * 1000
    /\ UNCHANGED <<free, fat, skip, page, drive, disks>>

OnInstall ==
    /\ page = "open" /\ size # None
    /\ page' = "confirmed"
    /\ asked' = size * 1000
    /\ UNCHANGED <<free, fat, skip, drive, size, disks>>

\* choose_disk_sizes: a large root is cut into several files on FAT.
Lesser(a, b) == IF a < b THEN a ELSE b
DisksOnFat(root) ==
    IF root > 8500
    THEN [root |-> 4000, swap |-> 256, home |-> Lesser(root - 8000, 4000), usr |-> 4000]
    ELSE IF root > 5500 THEN [root |-> root - 4000, swap |-> 256, home |-> 0, usr |-> 4000]
    ELSE IF root > 4000 THEN [root |-> 1500, swap |-> 256, home |-> 0, usr |-> root - 1500]
    ELSE [root |-> root, swap |-> 256, home |-> 0, usr |-> 0]
DisksOf(total, isFat) ==
    IF isFat THEN DisksOnFat(total - 256)
    ELSE [root |-> total - 256, swap |-> 256, home |-> 0, usr |-> 0]

ChooseDiskSizes ==
    /\ page = "confirmed"
    /\ page' = "sized"
    /\ disks' = DisksOf(asked, drive \in fat)
    /\ UNCHANGED <<free, fat, skip, drive, size, asked>>

Next == Quit \/ Open \/ ChangeDrive \/ ChangeSize \/ OnInstall \/ ChooseDiskSizes
Spec == Init /\ [][Next]_svars

-----------------------------------------------------------------------------
\* Types; what is shown is one of the sizes of the drive selected.
TypeOK ==
    /\ free \in [Drive -> FreeSpace] /\ fat \subseteq Drive /\ skip \in BOOLEAN
    /\ page \in {"opening", "open", "error", "quit", "confirmed", "sized"}
    /\ drive \in Drive \cup {None}
    /\ size # None => drive # None /\ size \in Sizes(drive, skip)
    /\ asked \in {gb * 1000 : gb \in 1 .. 30} \cup {None}
    /\ disks \in [{"root", "swap", "home", "usr"} -> Nat]

Total == disks.root + disks.swap + disks.home + disks.usr

\* The disks and the largest ISO fit together on the drive they go to, whatever
\* the user changed on the page and in which order (create_virtual_disks).
FitsOnDrive == page = "sized" => drive # None /\ Total + MaxIso <= free[drive]

\* Unless the check was skipped, a drive that is offered has a size to offer:
\* the rules of populate_drive_list and populate_size_list round differently.
OfferedHasRoom ==
    page \in {"open", "confirmed", "sized"} /\ ~skip => \A d \in Offered(skip) : Sizes(d, skip) # {}
=============================================================================
