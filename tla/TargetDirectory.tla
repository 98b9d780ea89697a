---------------------------- MODULE TargetDirectory ----------------------------
(***************************************************************************)
(* The files the launcher works on: a tree of directories and files, whose *)
(* root <<>> is the directory for temporary files.  A path is the sequence *)
(* of its names.  The tree is Windows's; the operators say what the calls  *)
(* of pylauncher/*.c do to it.                                             *)
(***************************************************************************)
EXTENDS Naturals, Sequences, SequencesExt, Functions

VARIABLE tree   \* from the paths there are to what is there

Directory == [kind |-> "directory"]
File(bytes) == [kind |-> "file", bytes |-> bytes]
Partial == [kind |-> "partial"]     \* written in part

Paths == DOMAIN tree
IsDirectory(p) == p \in Paths /\ tree[p] = Directory
Parent(p) == Front(p)
Within(dir) == {p \in Paths : IsStrictPrefix(dir, p)}
NamesIn(dir) == {Last(p) : p \in {q \in Paths : q # <<>> /\ Parent(q) = dir}}

\* mkdir
CanMake(p) == p \notin Paths /\ IsDirectory(Parent(p))
\* open_file_w with CREATE_ALWAYS or "wb+"
CanWrite(p) == IsDirectory(Parent(p)) /\ ~IsDirectory(p)
With(p, what) == [q \in Paths \cup {p} |-> IF q = p THEN what ELSE tree[q]]
\* DeleteFile, RemoveDirectory
Without(p) == Restrict(tree, Paths \ {p})
=============================================================================
