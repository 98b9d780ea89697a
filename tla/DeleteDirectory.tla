---------------------------- MODULE DeleteDirectory ----------------------------
(***************************************************************************)
(* _delete_directory() of pylauncher.exe (deletedir.c): a recursion that   *)
(* lists a directory, deletes what it finds, and then removes it.  The     *)
(* first call that fails ends all levels.                                  *)
(***************************************************************************)
EXTENDS TargetDirectory

CONSTANT Dotted   \* the names that begin with a dot
ASSUME DottedAssumption == {".", ".."} \subseteq Dotted

VARIABLES
    stack,      \* a frame for every directory that is being deleted
    hindered    \* a call failed, for a reason outside this program
deleteVars == <<stack, hindered>>

InitDelete == stack = <<>> /\ hindered = FALSE

\* FindFirstFile and FindNextFile of dir\*.*
Listing(dir) == NamesIn(dir) \cup {".", ".."}
Entry(dir, name) ==
    IF name = "." THEN dir ELSE IF name = ".." THEN Parent(dir) ELSE Append(dir, name)

\* slip: "." alone is left out
ChosenParent(dir) == {name \in Listing(dir) : name # "."}
Chosen(dir) == {name \in Listing(dir) : name \notin Dotted}
Frame(dir) == [dir |-> dir, todo |-> Chosen(dir)]

Top == Last(stack)
TopWithout(name) == [stack EXCEPT ![Len(stack)].todo = @ \ {name}]

\* Called for dir, with the frames below; a directory that cannot be listed
\* counts as deleted.
Enter(dir, below) ==
    \/ stack' = Append(below, Frame(dir)) /\ UNCHANGED hindered
    \/ stack' = below /\ hindered' = TRUE

DeleteSubdirectory ==
    /\ stack # <<>>
    /\ \E name \in Top.todo :
           /\ IsDirectory(Entry(Top.dir, name))
           /\ Enter(Entry(Top.dir, name), TopWithout(name))
    /\ UNCHANGED tree

DeleteFile ==
    /\ stack # <<>>
    /\ \E name \in Top.todo :
           /\ ~IsDirectory(Entry(Top.dir, name))
           /\ stack' = TopWithout(name)
           /\ tree' = Without(Entry(Top.dir, name))
    /\ UNCHANGED hindered

\* Another program has the file open, memory runs out, the listing breaks off, or
\* attributes cannot be set; DeleteFile is called all the same.
CannotDelete ==
    /\ stack # <<>>
    /\ stack' = <<>>
    /\ hindered' = TRUE
    /\ \/ UNCHANGED tree
       \/ \E name \in Top.todo :
              /\ ~IsDirectory(Entry(Top.dir, name))
              /\ tree' = Without(Entry(Top.dir, name))

\* held: the directories some process is in.
RemoveDirectory(held) ==
    /\ stack # <<>> /\ Top.todo = {}
    /\ NamesIn(Top.dir) = {} /\ Top.dir \notin held
    /\ tree' = Without(Top.dir)
    /\ stack' = Front(stack)
    /\ UNCHANGED hindered

\* others: the directories some other process is in.
CannotRemove(held, others) ==
    /\ stack # <<>> /\ Top.todo = {}
    /\ NamesIn(Top.dir) # {} \/ Top.dir \in held
    /\ stack' = <<>>
    /\ hindered' = (hindered \/ Top.dir \in others)
    /\ UNCHANGED tree

DeleteStep(held, others) ==
    \/ DeleteSubdirectory \/ DeleteFile \/ CannotDelete
    \/ RemoveDirectory(held) \/ CannotRemove(held, others)
=============================================================================
