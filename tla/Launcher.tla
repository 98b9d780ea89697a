-------------------------------- MODULE Launcher --------------------------------
(***************************************************************************)
(* The program as it is shipped (pylauncher/*.c): header.exe unpacks the   *)
(* archive behind it into a directory for temporary files, starts a copy   *)
(* of pylauncher.exe and ends; pylauncher.exe starts pyrun.exe from that   *)
(* directory, waits for it and deletes the directory; pyrun.exe loads      *)
(* Python and runs the program, which may leave programs behind that       *)
(* started in the directory (os.startfile of the web site).                *)
(*                                                                         *)
(* A process that is in a directory keeps it from being removed.  header   *)
(* waits a second after it has started pylauncher, which is long or short  *)
(* depending on the machine.  Error boxes stay until the user closes them. *)
(***************************************************************************)
EXTENDS Unpack, DeleteDirectory

Target == <<"target">>      \* targetdir
Folder == <<"folder">>      \* where header was started
LauncherExe == <<"pylauncher.exe">>
PyrunExe == <<"pyrun.exe">>
PythonDll == <<"python23.dll">>

\* add_python_interpreter of pack.py
ASSUME ProgramsAssumption ==
    \A a \in Archives : \A name \in {LauncherExe, PyrunExe, PythonDll} :
        \E i \in DOMAIN FlattenSeq(a.blocks) : FlattenSeq(a.blocks)[i].name = name

VARIABLES
    hpc,     \* header: "start", "unpack", "copy", "create", "sleep", "box", "over"
    ppc,     \* pylauncher: "none", "create", "wait", "delete", "box", "over"
    ypc,     \* pyrun: "none", "load", "python", "box", "over"
    child    \* a program the application started is in targetdir

processes == <<hpc, ppc, ypc, child>>
lvars == <<tree, unpackVars, deleteVars, processes>>

Init ==
    /\ InitUnpack
    /\ InitDelete
    /\ tree = [p \in {<<>>, Folder, <<"other">>} |->
                  IF p = <<"other">> THEN File(Nothing) ELSE Directory]
    /\ base = Folder
    /\ hpc = "start" /\ ppc = "none" /\ ypc = "none" /\ child = FALSE

InTree(path) == path \in Paths /\ ~IsDirectory(path)

-----------------------------------------------------------------------------
(* header.c                                                                 *)

\* GetTempFileName and DeleteFile leave a name nobody uses; the results of
\* CreateDirectory and chdir are ignored.
HeaderStart ==
    /\ hpc = "start"
    /\ hpc' = "unpack"
    /\ \/ tree' = With(Target, Directory) /\ base' = Target
       \/ UNCHANGED <<tree, base>>
    /\ UNCHANGED <<archive, damaged, upc, index, db, buffer, refused, deleteVars, ppc, ypc, child>>

HeaderUnpack ==
    /\ hpc = "unpack"
    /\ UnpackStep
    /\ UNCHANGED <<deleteVars, processes>>

\* slip: unpack returns 0 whatever happened
UnpackedOrNot == upc \in {"done", "failed"}
\* The result of unpack
Unpacked == upc = "done"

HeaderUnpacked ==
    /\ hpc = "unpack" /\ Unpacked
    /\ hpc' = "copy"
    /\ UNCHANGED <<tree, unpackVars, deleteVars, ppc, ypc, child>>

HeaderCannotUnpack ==
    /\ hpc = "unpack" /\ upc = "failed" /\ ~Unpacked
    /\ hpc' = "box"
    /\ UNCHANGED <<tree, unpackVars, deleteVars, ppc, ypc, child>>

\* The copy lies beside targetdir and is deleted by Windows.
HeaderCopy ==
    /\ hpc = "copy"
    /\ \/ InTree(base \o LauncherExe) /\ hpc' = "create"
       \/ hpc' = "box"
    /\ UNCHANGED <<tree, unpackVars, deleteVars, ppc, ypc, child>>

HeaderCreate ==
    /\ hpc = "create"
    /\ \/ hpc' = "sleep" /\ ppc' = "create"
       \/ hpc' = "box" /\ UNCHANGED ppc
    /\ UNCHANGED <<tree, unpackVars, deleteVars, ypc, child>>

HeaderEnd ==
    /\ hpc = "sleep"
    /\ hpc' = "over"
    /\ UNCHANGED <<tree, unpackVars, deleteVars, ppc, ypc, child>>

Header_ == HeaderStart \/ HeaderUnpack \/ HeaderUnpacked \/ HeaderCannotUnpack
           \/ HeaderCopy \/ HeaderCreate \/ HeaderEnd

-----------------------------------------------------------------------------
(* pylauncher.c                                                             *)

\* slip: delete_directory stays where it is
LauncherStaysIn == IF ppc \in {"create", "wait", "box", "delete"} THEN {base} ELSE {}

\* The directory pylauncher is in: the one it inherits from header, until
\* delete_directory makes it go to the root of the drive.
LauncherIn == IF ppc \in {"create", "wait", "box"} THEN {base} ELSE {}

OthersIn ==
    (IF hpc # "over" THEN {base} ELSE {}) \cup
    (IF ypc \in {"load", "python", "box"} \/ child THEN {Target} ELSE {})

LauncherCreate ==
    /\ ppc = "create"
    /\ \/ InTree(Target \o PyrunExe) /\ ppc' = "wait" /\ ypc' = "load"
       \/ ppc' = "box" /\ UNCHANGED ypc
    /\ UNCHANGED <<tree, unpackVars, deleteVars, hpc, child>>

\* WaitForSingleObject without a limit
LauncherWaited ==
    /\ ppc = "wait" /\ ypc = "over"
    /\ ppc' = "delete"
    /\ Enter(Target, <<>>)
    /\ UNCHANGED <<tree, unpackVars, hpc, ypc, child>>

LauncherDelete ==
    /\ ppc = "delete"
    /\ DeleteStep(OthersIn \cup LauncherIn, OthersIn)
    /\ UNCHANGED <<unpackVars, processes>>

\* slip: pylauncher insists
Deleted == stack = <<>> /\ Target \notin Paths
\* The result of delete_directory is ignored.
Returned == stack = <<>>

LauncherEnd ==
    /\ ppc = "delete" /\ Returned
    /\ ppc' = "over"
    /\ UNCHANGED <<tree, unpackVars, deleteVars, hpc, ypc, child>>

Launcher_ == LauncherCreate \/ LauncherWaited \/ LauncherDelete \/ LauncherEnd

-----------------------------------------------------------------------------
(* pyrun.c and the program                                                  *)

PyrunLoad ==
    /\ ypc = "load"
    /\ \/ InTree(Target \o PythonDll) /\ ypc' = "python"
       \/ ypc' = "box"
       \/ ypc' = "over"     \* no Py_Main
    /\ UNCHANGED <<tree, unpackVars, deleteVars, hpc, ppc, child>>

PythonStartsProgram ==
    /\ ypc = "python" /\ ~child
    /\ child' = TRUE
    /\ UNCHANGED <<tree, unpackVars, deleteVars, hpc, ppc, ypc>>

PythonEnds ==
    /\ ypc = "python"
    /\ ypc' = "over"
    /\ UNCHANGED <<tree, unpackVars, deleteVars, hpc, ppc, child>>

ProgramEnds ==
    /\ child
    /\ child' = FALSE
    /\ UNCHANGED <<tree, unpackVars, deleteVars, hpc, ppc, ypc>>

\* The user closes an error box.
CloseBox ==
    /\ \/ hpc = "box" /\ hpc' = "over" /\ UNCHANGED <<ppc, ypc>>
       \/ ppc = "box" /\ ppc' = "over" /\ UNCHANGED <<hpc, ypc>>
       \/ ypc = "box" /\ ypc' = "over" /\ UNCHANGED <<hpc, ppc>>
    /\ UNCHANGED <<tree, unpackVars, deleteVars, child>>

Next ==
    \/ Header_ \/ Launcher_ \/ PyrunLoad
    \/ PythonStartsProgram \/ PythonEnds \/ ProgramEnds \/ CloseBox

\* The processes run; the program may run forever, and so may a program it
\* started, and an error box may stay.
Spec == Init /\ [][Next]_lvars /\ WF_lvars(Header_) /\ WF_lvars(Launcher_) /\ WF_lvars(PyrunLoad)

-----------------------------------------------------------------------------

\* What is in the tree, where the processes are.
TypeOK ==
    /\ \A p \in Paths : tree[p].kind \in {"directory", "file", "partial"}
    /\ base \in {Target, Folder}
    /\ upc \in {"open", "directories", "files", "done", "failed"}
    /\ hindered \in BOOLEAN
    /\ hpc \in {"start", "unpack", "copy", "create", "sleep", "box", "over"}
    /\ ppc \in {"none", "create", "wait", "delete", "box", "over"}
    /\ ypc \in {"none", "load", "python", "box", "over"}
    /\ child \in BOOLEAN

\* Python runs only with every file of the archive whole in targetdir, each
\* with the bytes that were compressed, whatever failed on the way there.
PythonHasItsFiles ==
    ypc = "python" => base = Target /\ \A i \in FileItems : IsThere(i)

\* pylauncher deletes nothing outside of targetdir: what lies beside it, and
\* what was unpacked elsewhere because targetdir could not be made, stays.
OnlyTargetIsDeleted ==
    [][ppc = "delete" =>
          \A p \in Paths : ~IsPrefix(Target, p) => p \in Paths' /\ tree'[p] = tree[p]]_lvars

\* targetdir outlives a pylauncher that came to delete it only when a call
\* failed for a reason outside (a file in use, a process in the directory) or
\* a name in it begins with a dot.
LeftoverOnlyIfHindered ==
    ppc = "over" /\ ypc = "over" /\ Target \in Paths =>
        hindered \/ \E p \in Within(Target) : Last(p) \in Dotted

\* The recursion that deletes targetdir ends, and pylauncher with it.
DeletionEnds == (ppc = "wait" /\ ypc = "over") ~> ppc = "over"
=============================================================================
