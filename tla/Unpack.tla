--------------------------------- MODULE Unpack ---------------------------------
(***************************************************************************)
(* unpack() of header.exe (unpack.c, 7zExtract.c): opening the archive     *)
(* that is appended to the program, creating the directories from the last *)
(* item down to the second, and writing the files in the archive's order,  *)
(* each from the block that holds it, which stays decoded while it is      *)
(* needed.  The archive's header or a block may be damaged, memory may run *)
(* out and every call of the operating system may fail.                    *)
(***************************************************************************)
EXTENDS TargetDirectory, SevenZip

CONSTANTS
    Archives,   \* what pack.py may have appended: [blocks, empty: a set]
    Damages     \* sets of what may be damaged: HeaderPart and numbers of blocks

HeaderPart == 0   \* the start of the archive, or its header

Item == [name : Seq(STRING), size : Nat, dir : BOOLEAN]

\* pack.py packs at least its own programs; two items never share a name; a
\* directory is enumerated after it was added (EnumerateDirItems).
ASSUME ArchivesAssumption ==
    \A a \in Archives :
        /\ a.blocks \in Seq(Seq(Item))
        /\ a.empty \subseteq Item /\ IsFiniteSet(a.empty)
        /\ \A b \in DOMAIN a.blocks : \A k \in DOMAIN a.blocks[b] :
               ~a.blocks[b][k].dir /\ a.blocks[b][k].name # <<>>
        /\ \A e \in a.empty : e.size = 0 /\ e.name # <<>>
        /\ \A e \in a.empty : e.dir /\ Front(e.name) # <<>> =>
               \E d \in a.empty : d.dir /\ d.name = Front(e.name)
        /\ \A i, j \in DOMAIN FlattenSeq(a.blocks) :
               FlattenSeq(a.blocks)[i].name = FlattenSeq(a.blocks)[j].name => i = j
        /\ \A e \in a.empty : \A i \in DOMAIN FlattenSeq(a.blocks) :
               FlattenSeq(a.blocks)[i].name # e.name
        /\ \A d, e \in a.empty : d.name = e.name => d = e
        /\ FlattenSeq(a.blocks) # <<>>

VARIABLES
    archive,   \* as the compressor laid it out
    damaged,
    base,      \* the current directory, where everything is extracted
    upc,       \* "open", "directories", "files", "done" or "failed"
    index,     \* i of the two loops, from 1
    db,        \* what SzArchiveOpen makes of its header
    buffer,    \* the block in out_buffer, NoBlock if it is 0
    refused    \* the directories the operating system refused to make
unpackVars == <<archive, damaged, base, upc, index, db, buffer, refused>>

PathOf(i) == base \o Items(archive)[i].name

InitUnpack ==
    /\ \E a \in Archives : \E e \in Sorted(a.empty) : archive = [blocks |-> a.blocks, empty |-> e]
    /\ damaged \in Damages
    /\ upc = "open"
    /\ index = 0
    /\ db = ReadHeader(Header(archive))
    /\ buffer = NoBlock
    /\ refused = {}

Fail == upc' = "failed" /\ UNCHANGED index

-----------------------------------------------------------------------------
(* seek_beginning_of_archive and SzArchiveOpen                              *)

OpenArchive ==
    /\ upc = "open"
    /\ HeaderPart \notin damaged
    /\ ~db.error
    /\ upc' = "directories"
    /\ index' = Len(db.files)
    /\ UNCHANGED <<archive, damaged, base, db, buffer, refused, tree>>

\* Also when memory runs out.
CannotOpen ==
    /\ upc = "open"
    /\ Fail
    /\ UNCHANGED <<archive, damaged, base, db, buffer, refused, tree>>

-----------------------------------------------------------------------------
(* The first loop of unpack                                                 *)

\* i > 0 where the source counts from 0
MoreDirectories == index > 1

\* The result is ignored.
MakeDirectory ==
    /\ upc = "directories" /\ MoreDirectories
    /\ db.files[index].dir
    /\ \/ /\ CanMake(PathOf(index))
          /\ tree' = With(PathOf(index), Directory)
          /\ UNCHANGED refused
       \/ /\ CanMake(PathOf(index))
          /\ refused' = refused \cup {PathOf(index)}
          /\ UNCHANGED tree
       \/ ~CanMake(PathOf(index)) /\ UNCHANGED <<tree, refused>>
    /\ index' = index - 1
    /\ UNCHANGED <<archive, damaged, base, upc, db, buffer>>

SkipFile ==
    /\ upc = "directories" /\ MoreDirectories
    /\ ~db.files[index].dir
    /\ index' = index - 1
    /\ UNCHANGED <<archive, damaged, base, upc, db, buffer, refused, tree>>

DirectoriesMade ==
    /\ upc = "directories" /\ ~MoreDirectories
    /\ upc' = "files"
    /\ index' = 1
    /\ UNCHANGED <<archive, damaged, base, db, buffer, refused, tree>>

-----------------------------------------------------------------------------
(* The second loop                                                          *)

AtFile == upc = "files" /\ index <= Len(db.files) /\ ~db.files[index].dir

SkipDirectory ==
    /\ upc = "files" /\ index <= Len(db.files) /\ db.files[index].dir
    /\ index' = index + 1
    /\ UNCHANGED <<archive, damaged, base, upc, db, buffer, refused, tree>>

\* The block that is in out_buffer after SzExtract; a file without data frees
\* the buffer.
Buffered == db.map[index]

\* The bytes at the file's place there; those of a damaged block are others.
Garbage == [Nothing EXCEPT !.size = 1]
InBuffer ==
    IF Buffered # NoBlock /\ buffer # Buffered /\ Buffered \in damaged
    THEN Garbage ELSE Taken(db, index)

\* LzmaDecode or the CRC of the file tells when they are not those that were
\* compressed; a file without data has no CRC.
CrcMatches == InBuffer # Nothing => InBuffer = Content(archive, index)
Extracts == WithinBuffer(db, index) /\ CrcMatches

ExtractFile ==
    /\ AtFile
    /\ Extracts
    /\ CanWrite(PathOf(index))
    /\ buffer' = Buffered
    /\ tree' = With(PathOf(index), File(InBuffer))
    /\ index' = index + 1
    /\ UNCHANGED <<archive, damaged, base, upc, db, refused>>

\* A block is damaged, memory runs out or the file cannot be opened.
CannotExtract ==
    /\ AtFile
    /\ Fail
    /\ UNCHANGED <<archive, damaged, base, db, buffer, refused, tree>>

\* The disk is full, or the file cannot be closed.
CannotWrite ==
    /\ AtFile
    /\ Extracts
    /\ CanWrite(PathOf(index))
    /\ \E what \in {Partial, File(InBuffer)} : tree' = With(PathOf(index), what)
    /\ buffer' = Buffered
    /\ Fail
    /\ UNCHANGED <<archive, damaged, base, db, refused>>

AllExtracted ==
    /\ upc = "files" /\ index > Len(db.files)
    /\ upc' = "done"
    /\ UNCHANGED <<archive, damaged, base, index, db, buffer, refused, tree>>

UnpackStep ==
    \/ OpenArchive \/ CannotOpen
    \/ MakeDirectory \/ SkipFile \/ DirectoriesMade
    \/ SkipDirectory \/ ExtractFile \/ CannotExtract \/ CannotWrite \/ AllExtracted

-----------------------------------------------------------------------------

\* The files and directories of the archive, by what was compressed.
FileItems == {i \in 1 .. NumFiles(archive) : ~Items(archive)[i].dir}
DirectoryItems == {i \in 1 .. NumFiles(archive) : Items(archive)[i].dir}
IsThere(i) == PathOf(i) \in Paths /\ tree[PathOf(i)] = File(Content(archive, i))

\* The decoder takes the header for what the compressor compressed: items that
\* are directories, files with their place in a block, nothing else.
HeaderIsUnderstood ==
    /\ ~db.error
    /\ upc = "directories" =>
        /\ Len(db.files) = NumFiles(archive)
        /\ \A i \in 1 .. NumFiles(archive) :
               /\ db.files[i].dir <=> Items(archive)[i].dir
               /\ db.files[i].size = Items(archive)[i].size
               /\ i \in FileItems => Taken(db, i) = Content(archive, i) /\ WithinBuffer(db, i)

\* A directory that is missing when the files are written was refused, or one
\* above it was: the compressor writes the directories that are inside others
\* before these, the first loop runs backwards, and the item it leaves out is
\* no directory.
DirectoriesAreThere ==
    upc = "files" =>
        \A i \in DirectoryItems :
            IsDirectory(PathOf(i)) \/ \E p \in refused : IsPrefix(p, PathOf(i))
=============================================================================
