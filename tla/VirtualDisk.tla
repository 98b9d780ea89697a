------------------------------ MODULE VirtualDisk ------------------------------
(***************************************************************************)
(* create_virtual_disk of virtualdisk.py: one file is made, given its      *)
(* length at once, and its first and last blocks are written over, buffer  *)
(* by buffer.  Each call of the Windows API may fail, on a good handle     *)
(* too; a failure is logged and the function goes on.  Amounts are counted *)
(* in buffers of zero_file.                                                *)
(***************************************************************************)
EXTENDS Integers

CONSTANTS
    Size,      \* size_mb * 1024 * 1024
    Clear,     \* clear_bytes: 1 MB, of a disk of 256 MB at least
    FreeSpace  \* what the drive may have left, at most

ASSUME SizeAssumption == Size \in Nat /\ Clear \in Nat \ {0} /\ 2 * Clear <= Size
ASSUME FreeSpaceAssumption == FreeSpace \in Nat

VARIABLES
    room,     \* what is left on the drive
    bad,      \* the drive refuses every write from now on
    opened,   \* CreateFileW has returned a valid handle
    length,   \* of the file
    pos,      \* its file pointer
    failed,   \* history: the places SetFilePointerEx has not moved it to
    cleared,  \* bytes_cleared
    content,  \* the byte last written at each place, None if none was
    pc

disk == <<room, bad, length, content>>
dvars == <<disk, opened, pos, failed, cleared, pc>>

None == -1
WriteBuf == 48                       \* the character "0"
Extent == 0 .. Size + 2 * Clear - 1  \* both blocks may end up behind the disk

Init ==
    /\ room \in 0 .. FreeSpace /\ bad = FALSE
    /\ opened = FALSE /\ length = 0 /\ pos = 0 /\ failed = {} /\ cleared = 0
    /\ content = [i \in Extent |-> None]
    /\ pc = "create"

CreateFile ==
    /\ pc = "create"
    /\ opened' \in BOOLEAN
    /\ pc' = "to_size"
    /\ UNCHANGED <<disk, pos, failed, cleared>>

\* SetFilePointerEx moves the pointer of an open file or leaves it where it is;
\* the function goes on either way.
Seek(place, target, next) ==
    /\ pc = place
    /\ \/ opened /\ pos' = target /\ UNCHANGED failed
       \/ UNCHANGED pos /\ failed' = failed \cup {place}
    /\ cleared' = 0
    /\ pc' = next
    /\ UNCHANGED <<disk, opened>>

ToSize == Seek("to_size", Size, "set_end")
ToStart == Seek("to_start", 0, "zero_first")
StayAfterFirst == Seek("to_end", pos, "zero_last")
ToLastBlock == Seek("to_end", Size - Clear, "zero_last")

\* SetEndOfFile moves the end to the pointer, if the drive has room and lets it.
SetEndOfFile ==
    /\ pc = "set_end"
    /\ \/ opened /\ room >= pos /\ length' = pos /\ room' = room - pos
       \/ UNCHANGED <<length, room>>
    /\ pc' = "to_start"
    /\ UNCHANGED <<bad, opened, pos, failed, cleared, content>>

Zeroing == pc \in {"zero_first", "zero_last"}

\* What the file must grow by before one buffer can be written at its pointer.
Growth == IF pos < length THEN 0 ELSE pos + 1 - length

\* zero_file: one buffer is written; the pointer and the count move on.
WriteFileUncounted ==
    /\ Zeroing /\ cleared < Clear
    /\ opened /\ ~bad /\ Growth <= room
    /\ content' = [content EXCEPT ![pos] = WriteBuf]
    /\ room' = room - Growth /\ length' = length + Growth
    /\ pos' = pos + 1
    /\ UNCHANGED <<bad, opened, failed, cleared, pc>>
WriteFile ==
    /\ Zeroing /\ cleared < Clear
    /\ opened /\ ~bad /\ Growth <= room
    /\ content' = [content EXCEPT ![pos] = WriteBuf]
    /\ room' = room - Growth /\ length' = length + Growth
    /\ pos' = pos + 1 /\ cleared' = cleared + 1
    /\ UNCHANGED <<bad, opened, failed, pc>>

\* "WriteFile() failed!", for whatever reason: nothing is counted, and the loop
\* tries again.
WriteFails ==
    /\ Zeroing /\ cleared < Clear
    /\ UNCHANGED dvars

Cleared ==
    /\ Zeroing /\ cleared = Clear
    /\ pc' = IF pc = "zero_first" THEN "to_end" ELSE "closed"
    /\ UNCHANGED <<disk, opened, pos, failed, cleared>>

\* Other programs use the drive too.
OthersWrite ==
    /\ pc # "closed"
    /\ room' \in 0 .. FreeSpace /\ room' < room
    /\ UNCHANGED <<bad, opened, length, pos, failed, cleared, content, pc>>

\* From now on the drive refuses what is written to it.
DriveFails ==
    /\ pc # "closed" /\ ~bad
    /\ bad' = TRUE
    /\ UNCHANGED <<room, opened, length, pos, failed, cleared, content, pc>>

Thread ==
    CreateFile \/ ToSize \/ SetEndOfFile \/ ToStart \/ ToLastBlock
    \/ WriteFile \/ WriteFails \/ Cleared
Next == Thread \/ OthersWrite \/ DriveFails

\* The thread of the task list is always scheduled, and a write that the drive
\* has room for and does not refuse for good succeeds at some try.
Spec == Init /\ [][Next]_dvars /\ WF_dvars(Thread)

-----------------------------------------------------------------------------
\* Types, and the file pointer stays within two blocks behind the disk.
TypeOK ==
    /\ room \in 0 .. FreeSpace /\ bad \in BOOLEAN /\ opened \in BOOLEAN
    /\ length \in 0 .. Size + 2 * Clear /\ pos \in 0 .. Size + 2 * Clear
    /\ failed \subseteq {"to_size", "to_start", "to_end"} /\ cleared \in 0 .. Clear
    /\ content \in [Extent -> {None, WriteBuf}]
    /\ pc \in {"create", "to_size", "set_end", "to_start", "zero_first",
               "to_end", "zero_last", "closed"}

WrittenIn(a, b) == \A i \in Extent : a <= i /\ i < b => content[i] # None

\* The pointer is at the start for the first block: it was moved there, or it
\* had never been moved away.
AtStart == "to_start" \notin failed \/ "to_size" \in failed
AtLast == "to_end" \notin failed

\* A disk whose creation ends has its end blocks written and its size, whatever
\* became of the handle, of SetEndOfFile and of each write, and even if the seek
\* to its size failed.  Only the two seeks before the blocks count, each for its
\* own block: the code logs their failure and writes where the pointer is
\* (create_virtual_disk).
ClosedIsWhole ==
    pc = "closed" => /\ AtStart => WrittenIn(0, Clear)
                     /\ AtLast => WrittenIn(Size - Clear, Size) /\ length >= Size
                     /\ AtStart /\ AtLast => length = Size

\* Nothing between the two blocks is touched, so that the cost does not grow
\* with the disk ("Fast allocation of disk space"), unless the seek to the last
\* block failed: the second block then lies behind the first.
MiddleUntouched ==
    AtLast => \A i \in Extent : i >= Clear /\ i < Size - Clear => content[i] = None

\* Once the file has its length and the pointer is at its start, its creation
\* ends, even if other programs fill the drive meanwhile, single writes fail and
\* the seek to the last block fails; a drive that refuses every write keeps the
\* loop of zero_file going for ever.
LengthMeansEnd ==
    (pc = "zero_first" /\ pos = 0 /\ length = Size) ~> (pc = "closed" \/ bad)
=============================================================================
