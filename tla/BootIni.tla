--------------------------------- MODULE BootIni ---------------------------------
(***************************************************************************)
(* boot.ini of the system drive and the boot loader files beside it, as    *)
(* the installer of a Windows XP host changes them (undo_bootloader,       *)
(* modify_bootini, undo_bootini of win32/backend.py).  A line is known by  *)
(* its kind; ours are "loop" (C:\yldr.mbr) and "livecd" (C:\yldrd.mbr).    *)
(* The files are made read-only, system and hidden, which keeps them from  *)
(* being opened for writing.  Every step may fail, and the process may die *)
(* before every step; a rewritten file is truncated first.                 *)
(***************************************************************************)
EXTENDS Naturals, Sequences, FiniteSets, SequencesExt

CONSTANTS
    Contents,   \* what boot.ini may hold before the first installation
    Other,      \* the kinds of line that nothing here looks for
    MaxRuns,    \* bound: lists of tasks that are run
    None

Own == {"loop", "livecd"}
Section == {"boot_loader", "operating_systems", "other_section"}
Timeout == {"timeout", "timeout_10"}
Line == Own \cup Section \cup Timeout \cup {"blank"} \cup Other
Files == {"yldr", "yldr.mbr", "yldrd", "yldrd.mbr"}

\* Line i belongs to the section of the operating systems.
InSystems(text, i) ==
    \E j \in 1 .. (i - 1) :
        /\ text[j] = "operating_systems"
        /\ \A k \in (j + 1) .. i : text[k] \notin Section

\* The first boot.ini has none of our lines; its section of the boot loader and
\* its timeout are before the others.  The section of the operating systems ends
\* it or has an empty line, and its header is not behind a timeout without a
\* head, the line the loop skips with the timeout: elsewhere modify_bootini adds
\* no entry.
ASSUME ContentsAssumption ==
    \A c \in Contents :
        /\ c \in Seq(Line)
        /\ \A i \in DOMAIN c : c[i] \notin Own
        /\ \E i \in DOMAIN c : InSystems(c, i) /\ (c[i] = "blank" \/ i = Len(c))
        /\ \A i, j \in DOMAIN c :
               /\ c[i] = "boot_loader" /\ c[j] = "boot_loader" => i = j
               /\ c[i] \in Timeout /\ c[j] \in Timeout => i = j
               /\ i < j /\ c[i] \in Section \ {"boot_loader"} => c[j] \notin Timeout \cup {"boot_loader"}
        /\ \A i \in 1 .. (Len(c) - 1) :
               c[i] \in Timeout /\ c[i + 1] \in Section => \E j \in 1 .. i : c[j] = "boot_loader"
ASSUME NoneAssumption == None \notin Seq(Line)
ASSUME MaxRunsAssumption == MaxRuns \in Nat

VARIABLES
    lines,     \* of boot.ini
    pending,   \* what a rewrite that has truncated the file will write, or None
    torn,      \* a rewrite was cut short
    file,      \* "none", "partial" or "whole"
    guarded,   \* read-only, system and hidden
    todo,      \* the rest of the running task list
    task,      \* the list that runs, or ran: [run, entry]
    complete,  \* it came to its end
    runs       \* task lists started so far
bvars == <<lines, pending, torn, file, guarded, todo, task, complete, runs>>

Idle == [run |-> None, entry |-> None]

Init ==
    /\ lines \in Contents
    /\ pending = None /\ torn = FALSE
    /\ file = [f \in Files |-> "none"]
    /\ guarded = {"boot.ini"}
    /\ todo = <<>> /\ task = Idle /\ complete = FALSE /\ runs = 0

-----------------------------------------------------------------------------
(* The texts                                                                *)

\* slip: an empty line of any section will do
ScanAnySection(s, i, entry) ==
    IF s.over \/ i > Len(s.lines) THEN s
    ELSE LET line == s.lines[i]
         IN CASE line = "boot_loader" -> [s EXCEPT !.head = i]
              [] line \in Timeout /\ s.head = 0 -> [s EXCEPT !.lines = RemoveAt(@, i)]
              [] line \in Timeout /\ s.head # 0 ->
                     [s EXCEPT !.lines[i] = "timeout_10", !.timed = TRUE]
              [] line = entry -> [s EXCEPT !.over = TRUE]
              [] line = "blank" -> [s EXCEPT !.lines = InsertAt(@, i, entry), !.over = TRUE]
              [] OTHER -> s

\* The loop of modify_bootini, which goes on in the list it changes; head is
\* boot_loader_pos, 0 before a head was seen.
Scan(s, i, entry) ==
    IF s.over \/ i > Len(s.lines) THEN s
    ELSE LET line == s.lines[i]
         IN CASE line = "operating_systems" -> [s EXCEPT !.section = TRUE]
              [] line = "boot_loader" -> [s EXCEPT !.head = i]
              [] line = "other_section" -> [s EXCEPT !.section = FALSE]
              [] line \in Timeout /\ s.head = 0 -> [s EXCEPT !.lines = RemoveAt(@, i)]
              [] line \in Timeout /\ s.head # 0 ->
                     [s EXCEPT !.lines[i] = "timeout_10", !.timed = TRUE]
              [] s.section /\ line = entry -> [s EXCEPT !.over = TRUE]
              [] s.section /\ line = "blank" ->
                     [s EXCEPT !.lines = InsertAt(@, i, entry), !.over = TRUE]
              [] OTHER -> s

ScanStart(text) == [lines |-> text, section |-> FALSE, head |-> 0, timed |-> FALSE, over |-> FALSE]
Scanned(text, entry) ==
    LET upto[i \in 0 .. Len(text)] ==
            IF i = 0 THEN ScanStart(text) ELSE Scan(upto[i - 1], i, entry)
    IN upto[Len(text)]

\* slip: the end of the last line is not looked for
ModifiedUnended(text, entry) ==
    LET s == Scanned(text, entry)
    IN Front(IF s.head = 0 THEN <<"boot_loader", "timeout_10">> \o s.lines
             ELSE IF ~s.timed THEN InsertAt(s.lines, s.head + 1, "timeout_10")
             ELSE s.lines)

\* split gives an empty line behind the last end of line, join takes it back.
Modified(text, entry) ==
    LET s == Scanned(Append(text, "blank"), entry)
    IN Front(IF s.head = 0 THEN <<"boot_loader", "timeout_10">> \o s.lines
             ELSE IF ~s.timed THEN InsertAt(s.lines, s.head + 1, "timeout_10")
             ELSE s.lines)

\* The lines of a text that are not of these kinds, in their order.
Without(text, kinds) ==
    LET upto[i \in 0 .. Len(text)] ==
            IF i = 0 THEN <<>>
            ELSE IF text[i] \in kinds THEN upto[i - 1] ELSE Append(upto[i - 1], text[i])
    IN upto[Len(text)]

\* remove_line_in_file
Removed(text, entry) == Without(text, {entry})

-----------------------------------------------------------------------------
(* The task lists                                                           *)

Step(do, what) == [do |-> do, what |-> what]

\* undo_bootini
UndoMenu ==
    <<Step("free", "boot.ini"), Step("remove", "loop"), Step("remove", "livecd"),
      Step("guard", "boot.ini")>>
Unlinks ==
    <<Step("free", "yldr"), Step("unlink", "yldr"), Step("free", "yldr.mbr"), Step("unlink", "yldr.mbr"),
      Step("free", "yldrd"), Step("unlink", "yldrd"), Step("free", "yldrd.mbr"), Step("unlink", "yldrd.mbr")>>
UndoSteps == UndoMenu \o Unlinks

Loader(entry) == IF entry = "loop" THEN "yldr" ELSE "yldrd"
Mbr(entry) == IF entry = "loop" THEN "yldr.mbr" ELSE "yldrd.mbr"
ModifySteps(entry) ==
    <<Step("copy", Loader(entry)), Step("guard", Loader(entry)),
      Step("copy", Mbr(entry)), Step("guard", Mbr(entry)),
      Step("free", "boot.ini"), Step("add", entry), Step("guard", "boot.ini")>>

StepsOf(t) ==
    CASE t.run = "install" -> UndoSteps \o ModifySteps(t.entry)
      [] t.run = "cd_boot" -> ModifySteps("livecd")
      [] t.run = "uninstall" -> UndoSteps

Tasks == {[run |-> "install", entry |-> e] : e \in Own} \cup
         {[run |-> "cd_boot", entry |-> "livecd"], [run |-> "uninstall", entry |-> None]}

Start(t) ==
    /\ todo = <<>>
    /\ runs < MaxRuns
    /\ runs' = runs + 1
    /\ task' = t
    /\ todo' = StepsOf(t)
    /\ complete' = FALSE
    /\ UNCHANGED <<lines, pending, torn, file, guarded>>

Doing(do) == todo # <<>> /\ todo[1].do = do /\ pending = None
What == todo[1].what
Done == todo' = Tail(todo) /\ complete' = (Tail(todo) = <<>>) /\ UNCHANGED <<task, runs>>

\* attrib -R -S -H; undo_bootloader asks first whether the file is there.
Free ==
    /\ Doing("free")
    /\ guarded' = guarded \ {What}
    /\ Done
    /\ UNCHANGED <<lines, pending, torn, file>>

Guard ==
    /\ Doing("guard")
    /\ guarded' = guarded \cup {What}
    /\ Done
    /\ UNCHANGED <<lines, pending, torn, file>>

Unlink ==
    /\ Doing("unlink")
    /\ file' = [file EXCEPT ![What] = "none"]
    /\ Done
    /\ UNCHANGED <<lines, pending, torn, guarded>>

\* slip: the copy is made over whatever is there
OpensAll(f) == TRUE
\* copyfile opens the target for writing.
CanOpen(f) == f \notin guarded

\* shutil.copyfile: the file exists before it is whole.
CopyBegins ==
    /\ Doing("copy") /\ CanOpen(What) /\ file[What] # "partial"
    /\ file' = [file EXCEPT ![What] = "partial"]
    /\ UNCHANGED <<lines, pending, torn, guarded, todo, task, complete, runs>>

CopyEnds ==
    /\ Doing("copy") /\ CanOpen(What) /\ file[What] = "partial"
    /\ file' = [file EXCEPT ![What] = "whole"]
    /\ Done
    /\ UNCHANGED <<lines, pending, torn, guarded>>

\* read_file, and write_file or remove_line_in_file as far as open(..., 'w');
\* content[-1] of an empty boot.ini raises.
Truncate ==
    /\ \/ Doing("add") /\ lines # <<>> /\ pending' = Modified(lines, What)
       \/ Doing("remove") /\ pending' = Removed(lines, What)
    /\ CanOpen("boot.ini")
    /\ lines' = <<>>
    /\ UNCHANGED <<torn, file, guarded, todo, task, complete, runs>>

Write ==
    /\ pending # None
    /\ lines' = pending
    /\ pending' = None
    /\ Done
    /\ UNCHANGED <<torn, file, guarded>>

\* A step raises, which ends the list, or the process dies: what was written of
\* a file that was being rewritten stays.
Stop ==
    /\ todo # <<>>
    /\ IF pending = None THEN UNCHANGED <<lines, torn>>
       ELSE torn' = TRUE /\ \E n \in 0 .. Len(pending) : lines' = SubSeq(pending, 1, n)
    /\ pending' = None
    /\ todo' = <<>>
    /\ UNCHANGED <<file, guarded, task, complete, runs>>

Next ==
    \/ \E t \in Tasks : Start(t)
    \/ Free \/ Guard \/ Unlink \/ CopyBegins \/ CopyEnds \/ Truncate \/ Write \/ Stop

Spec == Init /\ [][Next]_bvars

-----------------------------------------------------------------------------

Shown == IF pending = None THEN lines ELSE pending
Count(text, l) == Cardinality({i \in DOMAIN text : text[i] = l})

\* Whatever step fails or the machine stops at, an entry of ours in boot.ini
\* has its two boot loader files, whole, on the drive: no copy is begun over a
\* file that an entry uses, and none is deleted before the entry.
EntryHasItsLoader ==
    \A i \in DOMAIN lines : lines[i] \in Own =>
        file[Loader(lines[i])] = "whole" /\ file[Mbr(lines[i])] = "whole"

\* Line i belongs to the section of the boot loader.
InBootLoader(text, i) ==
    \E j \in 1 .. (i - 1) :
        /\ text[j] = "boot_loader"
        /\ \A k \in (j + 1) .. i : text[k] \notin Section

\* A list that installs and comes to its end leaves its entry among the operating
\* systems, where the boot menu takes it from, and the menu's timeout in the
\* section of the boot loader, each once, whatever was run before.
InstalledHasEntry ==
    complete /\ ~torn /\ task.run \in {"install", "cd_boot"} =>
        /\ Count(lines, task.entry) = 1
        /\ \E i \in DOMAIN lines : lines[i] = task.entry /\ InSystems(lines, i)
        /\ Count(lines, "timeout") = 0 /\ Count(lines, "timeout_10") = 1
        /\ Count(lines, "boot_loader") = 1
        /\ \E i \in DOMAIN lines : lines[i] = "timeout_10" /\ InBootLoader(lines, i)

\* The lines of Windows stay as they are unless writing is cut short.
Menu == INSTANCE BootMenu WITH
    Entries <- Own,
    foreign <- Without(Shown, Own \cup Timeout \cup {"blank", "boot_loader"}),
    own <- {l \in Own : Count(Shown, l) > 0}
MenuIsKept == Menu!Spec
=============================================================================
