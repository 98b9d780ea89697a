------------------------------ MODULE MCLauncher ------------------------------
(* Archives with one or two blocks, directories within directories, files    *)
(* that are empty or were emptied while they were compressed, a block        *)
(* without streams, and a name that begins with a dot.                       *)
EXTENDS Launcher

Data(name, size) == [name |-> name, size |-> size, dir |-> FALSE]
Dir(name) == [name |-> name, size |-> 0, dir |-> TRUE]
Exe == Data(LauncherExe, 2)
Run == Data(PyrunExe, 1)
Dll == Data(PythonDll, 3)
Lib == <<"lib">>
Package == <<"lib", "package">>
Module == <<"lib", "package", "module">>

Solid == [blocks |-> <<<<Data(Module, 1), Exe, Run, Dll>>>>, empty |-> {Dir(Lib), Dir(Package)}]
TwoBlocks ==
    [blocks |-> <<<<Data(Module, 2)>>, <<Exe, Run, Dll>>>>,
     empty |-> {Dir(Lib), Dir(Package), Data(Lib \o <<"empty">>, 0)}]
Emptied ==
    [blocks |-> <<<<Run, Data(<<"emptied">>, 0), Dll>>, <<Data(<<"locked">>, 0)>>, <<Exe>>>>,
     empty |-> {Dir(Lib)}]
DotFile == [blocks |-> <<<<Exe, Run>>, <<Dll, Data(Lib \o <<".dot">>, 1)>>>>, empty |-> {Dir(Lib)}]
Sizes(x, y, z) ==
    [blocks |-> <<<<Data(<<"a">>, x), Exe>>, <<Data(<<"b">>, y)>>, <<Run, Data(<<"c">>, z), Dll>>>>,
     empty |-> {}]

MCArchives == {Sizes(x, y, z) : x, y, z \in 0 .. 2} \cup {Solid, TwoBlocks, Emptied, DotFile}
MCDamages == {{}, {HeaderPart}, {1}, {2}}
MCDotted == {".", "..", ".dot"}
=============================================================================
