-------------------------------- MODULE Install --------------------------------
(***************************************************************************)
(* What the installer leaves on the host, over several runs of the         *)
(* program: the target directories, the values of its registry key, the    *)
(* boot entries and the boot files of the system drive.  One process at a  *)
(* time fetches what it can find of an earlier installation, goes through  *)
(* the pages of application.py and works through the tasks of one list of  *)
(* the backends.  A task may raise, the user may quit (the thread is then  *)
(* killed wherever it is) and the machine may stop: all three end the      *)
(* process between two writes and leave the host as it is.                 *)
(*   Errors of bcdedit, which are swallowed, are modelled.  Assumed are:   *)
(* that a registry value can be set (set_value only logs that it cannot),  *)
(* that bcdedit.exe is there (modify_bcd and undo_bcd return without it),  *)
(* that boot.ini has an empty line for the entry (else see BootIni),       *)
(* that a virtual disk there is room for gets its length (VirtualDisk).    *)
(***************************************************************************)
EXTENDS Naturals, Sequences, FiniteSets, SequencesExt, FiniteSetsExt

CONSTANTS
    Drives,      \* the hard disks, in the order get_drives finds them
    System,      \* the system drive, C: or the only one with Windows' boot files
    Bootloaders, \* the hosts considered: "xp" (boot.ini), "vista" (BCD)
    Commands,    \* the values of info.run_task considered
    MaxRuns,     \* bound: processes
    None,        \* Python's None
    Refused      \* of an entry that bcdedit has refused to set up or to display

ASSUME DrivesAssumption ==
    Drives \in Seq(ToSet(Drives)) /\ System \in ToSet(Drives) /\ IsInjective(Drives)
ASSUME BootloadersAssumption == Bootloaders \subseteq {"xp", "vista"}
ASSUME CommandsAssumption == Commands \subseteq {"install", "cd_boot", "uninstall"}
ASSUME MaxRunsAssumption == MaxRuns \in Nat

VARIABLES
    contents,   \* what each target directory holds; {} if there is none
    reg,        \* InstallationDir, UninstallString and VistaBootDrive
    bcd,        \* our entries in the boot configuration data
    bootini,    \* our lines in boot.ini
    bootfiles,  \* our files in the root of the system drive
    lost,       \* entries nobody recorded, or bcdedit refused to delete
    runs,       \* processes so far; also the id of the entry a process creates
    wiped,      \* Windows has been reinstalled
    bootloader, \* info.bootloader, one for all the drives
    pc,         \* where the process is
    command,    \* info.run_task
    exe,        \* which executable runs
    info,       \* what fetch_basic_info has found
    before,     \* info.uninstall_before_install
    flag,       \* info.flag: a full installation, not a LiveCD
    target,     \* info.target_dir
    job,        \* which task list
    todo        \* its steps not yet done

host == <<contents, reg, bcd, bootini, bootfiles>>
windows == <<wiped, bootloader>>
proc == <<command, exe, info, before, flag, target, job>>
ivars == <<host, lost, runs, windows, pc, proc, todo>>

Kind == {"loop", "livecd"}                 \* \startos-loop and \startos-livecd
Place == ToSet(Drives) \X Kind
ASSUME NoneAssumption == None \notin Place /\ None \notin Nat
ASSUME RefusedAssumption == Refused \notin Place /\ Refused # None
Disk == {"root", "swap"}                   \* the files of disks\ ...
SizeOf(d) == IF d = "root" THEN "root_size" ELSE "swap_size"
Sized == {SizeOf(d) : d \in Disk}           \* ... once they have their length
Item == {"dir", "uninstaller", "winboot", "iso", "kernel", "grub"} \cup Disk \cup Sized
WinbootFile == <<"yldr", "yldr.mbr", "yldrd", "yldrd.mbr">>

Exists(p) == p # None /\ contents[p] # {}

-----------------------------------------------------------------------------
(* fetch_basic_info                                                         *)

\* check_pre_install_path stops at the first \startos-loop.
LoopAt == {i \in DOMAIN Drives : contents[<<Drives[i], "loop">>] # {}}
LivecdAt ==
    {i \in DOMAIN Drives : /\ contents[<<Drives[i], "livecd">>] # {}
                           /\ \A j \in LoopAt : i <= j}

PreInstallPath == IF LoopAt = {} THEN None ELSE <<Drives[Min(LoopAt)], "loop">>
PreInstallPath2 == IF LivecdAt = {} THEN None ELSE <<Drives[Max(LivecdAt)], "livecd">>

\* check_pre_install_files, with root_size_mb >= 1500.
RootDiskFound == PreInstallPath # None /\ "root_size" \in contents[PreInstallPath]

\* A line of boot.ini holds the name in mixed case; chk_bootini_entry looks for
\* that name in the content made lower case.
BootLine(kind) == [key |-> kind, name |-> "StartOS"]
Lower(line) == [line EXCEPT !.name = "startos"]

BootEntryFound ==
    /\ {"yldr", "yldr.mbr"} \subseteq bootfiles
    /\ CASE bootloader = "vista" -> reg.vista # None
         [] bootloader = "xp" -> BootLine("loop") \in {Lower(l) : l \in bootini}

NeedfixOnHost ==
    IF ~RootDiskFound THEN 0
    ELSE 2 - (IF reg.dir # None THEN 1 ELSE 0) - (IF BootEntryFound THEN 1 ELSE 0)

\* chk_needfix completes previous_target_dir only for an installation with a
\* root disk; chk_uninstaller looks for a file that is never written.
Fetched ==
    [prev |-> IF reg.dir = None /\ RootDiskFound THEN PreInstallPath ELSE reg.dir,
     uninst |-> reg.exe,
     pre1 |-> PreInstallPath,
     pre2 |-> PreInstallPath2,
     needfix |-> NeedfixOnHost]

Nothing == [prev |-> None, uninst |-> None, pre1 |-> None, pre2 |-> None, needfix |-> 0]
NoValues == [dir |-> None, exe |-> None, vista |-> None]

Init ==
    /\ contents = [p \in Place |-> {}]
    /\ reg = NoValues
    /\ bcd = {} /\ bootini = {} /\ bootfiles = {} /\ lost = {}
    /\ runs = 0 /\ wiped = FALSE /\ bootloader \in Bootloaders
    /\ pc = "idle" /\ command = "install" /\ exe = "setup"
    /\ info = Nothing /\ before = FALSE /\ flag = TRUE
    /\ target = None /\ job = "none" /\ todo = <<>>

-----------------------------------------------------------------------------
(* The steps of the task lists                                              *)

Flavour == IF command # "cd_boot" /\ flag THEN "loop" ELSE "livecd"
Loader == IF Flavour = "loop" THEN "yldr" ELSE "yldrd"
Mbr == IF Flavour = "loop" THEN "yldr.mbr" ELSE "yldrd.mbr"

FileSteps == <<"dirs", "uninstaller", "UninstallString", "InstallationDir", "rmtree_winboot", "winboot">>
KernelSteps == <<"unlink_kernel", "kernel">>
UndoSteps ==
    <<"delete_entry", "VistaBootDrive", "undo_bootini", "yldr", "yldr.mbr", "yldrd", "yldrd.mbr">>

\* modify_bootini does nothing on a drive without boot.ini; modify_bcd asks for
\* the entry on every drive, and the files go to the system drive.
CreateSteps(n) == [i \in 1 .. n |-> "create_entry"]
BootSteps ==
    IF bootloader = "xp" THEN <<"loader", "mbr", "bootini">>
    ELSE LET k == CHOOSE i \in DOMAIN Drives : Drives[i] = System IN
         CreateSteps(k - 1) \o <<"loader", "mbr">> \o CreateSteps(Len(Drives) - k + 1)

InstallSteps(kind) ==
    FileSteps \o <<"iso">> \o KernelSteps
    \o (IF command = "cd_boot" THEN <<>> ELSE UndoSteps)
    \o BootSteps \o <<"grub">>
    \o (IF kind = "loop" THEN <<"root", "swap">> ELSE <<>>)

FixBootFirst ==
    KernelSteps \o UndoSteps \o BootSteps \o FileSteps \o <<"grub", "root", "swap">>
FixSteps == FileSteps \o KernelSteps \o UndoSteps \o BootSteps \o <<"grub", "root", "swap">>

UninstallKeyFirst == <<"remove_target", "remove_key">> \o UndoSteps \o <<"rm_pre2", "rm_pre1">>
\* backup_iso, the first task, returns at once: its check button is hidden.
UninstallSteps == UndoSteps \o <<"remove_target", "remove_key", "rm_pre2", "rm_pre1">>

Doing(step) == pc = "tasks" /\ todo # <<>> /\ Head(todo) = step
Done == todo' = Tail(todo) /\ UNCHANGED <<pc, proc, runs, windows>>

\* A step that adds one thing to the target directory.
Adds(step, item) ==
    /\ Doing(step)
    /\ contents' = [contents EXCEPT ![target] = @ \cup {item}]
    /\ Done
    /\ UNCHANGED <<reg, bcd, bootini, bootfiles, lost>>

Drops(step, item) ==
    /\ Doing(step)
    /\ contents' = [contents EXCEPT ![target] = @ \ {item}]
    /\ Done
    /\ UNCHANGED <<reg, bcd, bootini, bootfiles, lost>>

CreateDirStructure == Adds("dirs", "dir")
CopyUninstaller == Adds("uninstaller", "uninstaller")
RemoveOldFiles == Drops("rmtree_winboot", "winboot")
CopyInstallationFiles == Adds("winboot", "winboot")
GetIso == Adds("iso", "iso")
UnlinkKernel == Drops("unlink_kernel", "kernel")
ExtractKernel == Adds("kernel", "kernel")
ModifyGrubConfiguration == Adds("grub", "grub")

SetRegistry(step, value) ==
    /\ Doing(step)
    /\ reg' = value
    /\ Done
    /\ UNCHANGED <<contents, bcd, bootini, bootfiles, lost>>

SetUninstallString == SetRegistry("UninstallString", [reg EXCEPT !.exe = target])
SetInstallationDir == SetRegistry("InstallationDir", [reg EXCEPT !.dir = target])
ClearVistaBootDrive == SetRegistry("VistaBootDrive", [reg EXCEPT !.vista = None])
RemoveRegistryKey == SetRegistry("remove_key", NoValues)

\* undo_bcd: an error of bcdedit is logged, and the id is forgotten all the same.
DeleteEntry ==
    /\ Doing("delete_entry")
    /\ \/ bcd' = {e \in bcd : e.id # reg.vista} /\ lost' = lost
       \/ bcd' = bcd /\ lost' = lost \cup {e.id : e \in {f \in bcd : f.id = reg.vista}}
    /\ Done
    /\ UNCHANGED <<contents, reg, bootini, bootfiles>>

UndoBootiniOfLoop ==
    /\ Doing("undo_bootini")
    /\ bootini' = bootini \ {BootLine("loop")}
    /\ Done
    /\ UNCHANGED <<contents, reg, bcd, bootfiles, lost>>
UndoBootini ==
    /\ Doing("undo_bootini")
    /\ bootini' = {}
    /\ Done
    /\ UNCHANGED <<contents, reg, bcd, bootfiles, lost>>

UnlinkWinbootFile ==
    /\ \E f \in ToSet(WinbootFile) : Doing(f) /\ bootfiles' = bootfiles \ {f}
    /\ Done
    /\ UNCHANGED <<contents, reg, bcd, bootini, lost>>

CopyBootFile ==
    /\ \/ Doing("loader") /\ bootfiles' = bootfiles \cup {Loader}
       \/ Doing("mbr") /\ bootfiles' = bootfiles \cup {Mbr}
    /\ Done
    /\ UNCHANGED <<contents, reg, bcd, bootini, lost>>

ModifyBootiniForLoop ==
    /\ Doing("bootini")
    /\ bootini' = bootini \cup {BootLine("loop")}
    /\ Done
    /\ UNCHANGED <<contents, reg, bcd, bootfiles, lost>>
ModifyBootini ==
    /\ Doing("bootini")
    /\ bootini' = bootini \cup {BootLine(Flavour)}
    /\ Done
    /\ UNCHANGED <<contents, reg, bcd, bootfiles, lost>>

\* modify_bcd: create, then set and display, then record.
CreateEntry ==
    /\ Doing("create_entry")
    /\ reg.vista = None
    /\ bcd' = bcd \cup {[id |-> runs, at |-> None, mbr |-> Mbr]}
    /\ todo' = <<"set_entry", "record_entry">> \o Tail(todo)
    /\ UNCHANGED <<contents, reg, bootini, bootfiles, lost, runs, windows, pc, proc>>

AlreadyModified ==
    /\ Doing("create_entry")
    /\ reg.vista # None
    /\ Done
    /\ UNCHANGED <<host, lost>>

\* Three calls of bcdedit: device, path and displayorder.  An error of any of them
\* is logged, and the id is recorded all the same.
DisplayEntry ==
    /\ Doing("set_entry")
    /\ \E at \in {target, Refused} :
          bcd' = {IF e.id = runs THEN [e EXCEPT !.at = at] ELSE e : e \in bcd}
    /\ Done
    /\ UNCHANGED <<contents, reg, bootini, bootfiles, lost>>

RecordNothing == SetRegistry("record_entry", reg)
RecordEntry == SetRegistry("record_entry", [reg EXCEPT !.vista = runs])

\* create_virtual_disks skips a file that exists; CreateFile makes an empty
\* one, SetEndOfFile gives it its size.  On a full disk it does not, and the
\* thread stays in zero_file until it is killed.
SkipDisk ==
    /\ \E d \in Disk : Doing(d) /\ d \in contents[target]
    /\ Done
    /\ UNCHANGED <<host, lost>>

CreateDisk ==
    \E d \in Disk :
        /\ Doing(d)
        /\ d \notin contents[target]
        /\ contents' = [contents EXCEPT ![target] = @ \cup {d}]
        /\ todo' = <<SizeOf(d)>> \o Tail(todo)
        /\ UNCHANGED <<reg, bcd, bootini, bootfiles, lost, runs, windows, pc, proc>>

SetEndOfFile == \E s \in Sized : Adds(s, s)

\* rm_tree: the files go one by one, the directory last.
TreeAt(step) ==
    CASE step = "remove_target" -> info.prev
      [] step = "rm_pre2" -> info.pre2
      [] step = "rm_pre1" -> info.pre1

RmTreeSteps == {"remove_target", "rm_pre2", "rm_pre1"}

RemoveFile ==
    \E step \in RmTreeSteps : \E f \in Item \ ({"dir"} \cup Sized) :
        /\ Doing(step)
        /\ Exists(TreeAt(step)) /\ f \in contents[TreeAt(step)]
        /\ contents' = [contents EXCEPT ![TreeAt(step)] = @ \ ({f} \cup (IF f \in Disk THEN {SizeOf(f)} ELSE {}))]
        /\ UNCHANGED <<reg, bcd, bootini, bootfiles, lost, runs, windows, pc, proc, todo>>

RemoveDir ==
    \E step \in RmTreeSteps :
        /\ Doing(step)
        /\ contents' = IF Exists(TreeAt(step)) THEN [contents EXCEPT ![TreeAt(step)] = {}]
                       ELSE contents
        /\ Exists(TreeAt(step)) => contents[TreeAt(step)] = {"dir"}
        /\ Done
        /\ UNCHANGED <<reg, bcd, bootini, bootfiles, lost>>

-----------------------------------------------------------------------------
(* application.py                                                           *)

Idle == pc' = "idle" /\ command' = "install" /\ exe' = "setup" /\ info' = Nothing
        /\ before' = FALSE /\ flag' = TRUE /\ target' = None /\ job' = "none"
        /\ todo' = <<>>
Go(place) == pc' = place /\ UNCHANGED <<host, lost, runs, windows, todo>>

\* "setup" is not the program that was installed as uninstall.exe, "same" is a
\* copy of it; UninstallString runs "uninstall" without any option.
Start(c, e) ==
    /\ pc = "idle" /\ runs < MaxRuns
    /\ e = "uninstall" => c = "install" /\ \E p \in Place : "uninstaller" \in contents[p]
    /\ runs' = runs + 1
    /\ pc' = "dispatch" /\ command' = c /\ exe' = e /\ info' = Fetched
    /\ UNCHANGED <<host, lost, windows, before, flag, target, job, todo>>

\* run_installer and run_cd_boot do not ask the same question.
OldFound(found) ==
    CASE command = "install" -> found.pre1 # None \/ found.pre2 # None
      [] command = "cd_boot" -> found.prev # None
      [] command = "uninstall" -> FALSE

Dispatch ==
    /\ pc = "dispatch"
    /\ Go(IF command = "uninstall" \/ OldFound(info) THEN "uninstaller" ELSE "page")
    /\ before' = OldFound(info)
    /\ UNCHANGED <<command, exe, info, flag, target, job>>

Previous == CASE info.prev # None -> info.prev
              [] info.prev = None /\ info.pre1 # None -> info.pre1
              [] OTHER -> info.pre2

\* "No previous target dir found, exiting"
NothingToUninstall ==
    /\ pc = "uninstaller" /\ ~Exists(Previous)
    /\ Go(IF before THEN "again" ELSE "over")
    /\ info' = [info EXCEPT !.prev = Previous]
    /\ UNCHANGED <<command, exe, before, flag, target, job>>

Delegates ==
    /\ "uninstaller" \in contents[Previous] /\ info.needfix = 0
    /\ Exists(info.uninst) /\ "uninstaller" \in contents[info.uninst]
    /\ exe = "setup"

\* run_previous_uninstaller: the installed program runs with --uninstall, and
\* this one only waits for it to quit.
RunPreviousUninstaller ==
    /\ pc = "uninstaller" /\ Exists(Previous) /\ Delegates
    /\ Go("uninstaller")
    /\ command' = "uninstall" /\ exe' = "uninstall" /\ info' = Fetched /\ before' = FALSE
    /\ UNCHANGED <<flag, target, job>>

ShowFixSettings ==
    /\ pc = "uninstaller" /\ Exists(Previous) /\ ~Delegates
    /\ Go("fix_page")
    /\ info' = [info EXCEPT !.prev = Previous]
    /\ UNCHANGED <<command, exe, before, flag, target, job>>

Begin(list, steps) ==
    /\ pc' = "tasks" /\ job' = list /\ todo' = steps
    /\ UNCHANGED <<host, lost, runs, windows, command, exe, before>>

ConfirmUninstall ==
    /\ pc = "fix_page"
    /\ Begin("uninstall", UninstallSteps)
    /\ info' = [info EXCEPT !.needfix = 0]
    /\ UNCHANGED <<flag, target>>

RunFixboot ==
    /\ pc = "fix_page" /\ info.needfix # 0
    /\ Begin("fix", FixSteps)
    /\ target' = info.pre1
    /\ UNCHANGED <<info, flag>>

\* The settings page, or the page of the CD boot helper.
ReceiveSettings ==
    /\ pc = "page"
    /\ \E d \in ToSet(Drives), f \in (IF command = "cd_boot" THEN {TRUE} ELSE BOOLEAN) :
          LET kind == IF command # "cd_boot" /\ f THEN "loop" ELSE "livecd" IN
          /\ flag' = f
          /\ target' = <<d, kind>>
          /\ Begin("install", InstallSteps(kind))
    /\ UNCHANGED info

ListDone == pc = "tasks" /\ todo = <<>>

\* The list of an uninstallation that precedes an installation is followed by
\* a second look; any other is the last thing the process does.
AfterTasks ==
    /\ ListDone
    /\ Go(IF job = "uninstall" /\ before /\ exe # "uninstall" THEN "again" ELSE "over")
    /\ UNCHANGED proc

LookOnce ==
    /\ pc = "again"
    /\ info' = Fetched
    /\ Go("page")
    /\ UNCHANGED <<command, exe, before, flag, target, job>>

LookAgain ==
    /\ pc = "again"
    /\ info' = Fetched
    /\ Go(IF OldFound(Fetched) THEN "refused" ELSE "page")
    /\ UNCHANGED <<command, exe, before, flag, target, job>>

Exit ==
    /\ pc \in {"over", "refused"}
    /\ Idle
    /\ UNCHANGED <<host, lost, runs, windows>>

\* A task raises, the user cancels, the process is killed, the machine stops.
Die ==
    /\ pc \in {"dispatch", "uninstaller", "fix_page", "page", "tasks", "again"}
    /\ lost' = lost \cup {e.id : e \in {f \in bcd : f.id = runs /\ reg.vista # runs}}
    /\ Idle
    /\ UNCHANGED <<host, runs, windows>>

\* Once: Windows is installed anew, with or without formatting its drive.
ReinstallWindows ==
    /\ pc = "idle" /\ ~wiped
    /\ wiped' = TRUE
    /\ reg' = NoValues /\ bcd' = {} /\ bootini' = {} /\ bootfiles' = {} /\ lost' = {}
    /\ \/ contents' = contents
       \/ contents' = [p \in Place |-> IF p[1] = System THEN {} ELSE contents[p]]
    /\ UNCHANGED <<bootloader, runs, pc, proc, todo>>

Task ==
    \/ CreateDirStructure \/ CopyUninstaller \/ SetUninstallString \/ SetInstallationDir
    \/ RemoveOldFiles \/ CopyInstallationFiles \/ GetIso \/ UnlinkKernel \/ ExtractKernel
    \/ DeleteEntry \/ ClearVistaBootDrive \/ UndoBootini \/ UnlinkWinbootFile
    \/ CopyBootFile \/ ModifyBootini \/ CreateEntry \/ AlreadyModified \/ DisplayEntry
    \/ RecordEntry \/ ModifyGrubConfiguration \/ SkipDisk \/ CreateDisk \/ SetEndOfFile
    \/ RemoveFile \/ RemoveDir \/ RemoveRegistryKey

Application ==
    \/ \E c \in Commands, e \in {"setup", "same", "uninstall"} : Start(c, e)
    \/ Dispatch \/ NothingToUninstall \/ RunPreviousUninstaller \/ ShowFixSettings
    \/ ConfirmUninstall \/ RunFixboot \/ ReceiveSettings \/ AfterTasks \/ LookAgain
    \/ Exit \/ Die

Next == Task \/ Application \/ ReinstallWindows

Spec == Init /\ [][Next]_ivars

-----------------------------------------------------------------------------
PlaceOrNone == Place \cup {None}
EntryPlace == PlaceOrNone \cup {Refused}
Id == 1 .. MaxRuns

\* Every variable has its type; a virtual disk has a size only if it exists.
TypeOK ==
    /\ contents \in [Place -> SUBSET Item]
    /\ \A p \in Place : \A d \in Disk :
          SizeOf(d) \in contents[p] => d \in contents[p]
    /\ reg \in [dir : PlaceOrNone, exe : PlaceOrNone, vista : Id \cup {None}]
    /\ bcd \subseteq [id : Id, at : EntryPlace, mbr : ToSet(WinbootFile)]
    /\ bootini \subseteq {BootLine(k) : k \in Kind}
    /\ bootfiles \subseteq ToSet(WinbootFile)
    /\ lost \subseteq Id
    /\ runs \in 0 .. MaxRuns /\ wiped \in BOOLEAN /\ bootloader \in Bootloaders
    /\ pc \in {"idle", "dispatch", "uninstaller", "fix_page", "page", "tasks",
               "again", "over", "refused"}
    /\ info \in [prev : PlaceOrNone, uninst : PlaceOrNone, pre1 : PlaceOrNone,
                 pre2 : PlaceOrNone, needfix : 0 .. 2]
    /\ target \in PlaceOrNone

\* The one way to boot the installation that has just ended is in place, or
\* bcdedit has refused it.
Booted ==
    /\ ToSet(WinbootFile) \cap bootfiles = {Loader, Mbr}
    /\ CASE bootloader = "xp" -> bootini = {BootLine(Flavour)}
         [] bootloader = "vista" ->
               \E e \in bcd : e.id = reg.vista /\ e.at \in {target, Refused} /\ e.mbr = Mbr

\* Whatever died before it, an installation or a repair that ends has done its
\* work: the directory is complete, the key names it and the machine boots it (the
\* lists of common/backend.py, undo_bootloader before modify_bootloader).  Two
\* things the code does not promise: an entry that bcdedit refused is taken for
\* set up, and a repair keeps a swap disk that has no length.
InstalledIsComplete ==
    ListDone /\ job \in {"install", "fix"} =>
        /\ {"dir", "uninstaller", "winboot", "kernel", "grub"} \subseteq contents[target]
        /\ job = "install" => "iso" \in contents[target]
        /\ job = "install" /\ Flavour = "loop" => Disk \cup Sized \subseteq contents[target]
        /\ job = "fix" => Disk \cup {"root_size"} \subseteq contents[target]
        /\ reg.dir = target /\ reg.exe = target
        /\ Booted

\* A full installation never starts over the remains of an earlier one, on any
\* drive (run_installer looks again after the uninstallation).
InstallsOnCleanDrives ==
    [][pc = "page" /\ command = "install" /\ pc' = "tasks" => \A p \in Place : contents[p] = {}]_ivars

\* An uninstallation that ends leaves nothing it knew of: no boot file, no line,
\* no value of the key, none of the directories it had found, and no entry but
\* those bcdedit refused to delete or a process died too early to record.
UninstalledIsGone ==
    ListDone /\ job = "uninstall" =>
        /\ reg = NoValues /\ bootini = {} /\ bootfiles = {}
        /\ \A p \in {info.prev, info.pre1, info.pre2} : ~Exists(p)
        /\ {e.id : e \in bcd} \subseteq lost

\* Whenever a process dies, in every list, what the boot menu offers can be
\* started: the recorded entry names winboot\yldr.mbr or yldrd.mbr in a directory
\* that holds it (modify_bcd), and a line of boot.ini the two files it starts,
\* which are copied before the line is written (modify_bootini) and unlinked after
\* it is removed (undo_bootloader).  A repair does remove the winboot directory
\* while the entry still names it; if it dies there, the next process finds the
\* installation in need of the repair.
MenuIsLive ==
    /\ \A e \in bcd : e.id = reg.vista /\ e.at \in Place =>
           \/ "winboot" \in contents[e.at]
           \/ e.at = PreInstallPath /\ NeedfixOnHost # 0
    /\ \A kind \in Kind : BootLine(kind) \in bootini =>
           (IF kind = "loop" THEN {"yldr", "yldr.mbr"} ELSE {"yldrd", "yldrd.mbr"}) \subseteq bootfiles

\* An installation that needs no fix really has the files a fix would restore
\* before it touches the boot loader: a fix that dies is offered again.
FixIsOfferedAgain ==
    pc = "idle" /\ RootDiskFound /\ NeedfixOnHost = 0 =>
        {"uninstaller", "winboot", "kernel"} \subseteq contents[PreInstallPath]

\* A fix that ends has repaired what made it necessary (fetch_basic_info), unless
\* it was chosen from the CD boot helper, whose flavour modify_bcd then takes;
\* with boot.ini the count never becomes 0 (InstalledNeedsNoFix).
FixedFromInstaller ==
    bootloader = "vista" /\ command # "cd_boot" => (ListDone /\ job = "fix" => NeedfixOnHost = 0)

\* "Every check passed" is possible: an installation just completed by the
\* installer needs no fix (backend.py:229).
InstalledNeedsNoFix == ListDone /\ job = "install" /\ Flavour = "loop" => NeedfixOnHost = 0
=============================================================================
