--------------------------- MODULE VirtualDiskProofs ---------------------------
(***************************************************************************)
(* A virtual disk that has been made is whole, for every size, every length *)
(* of its end blocks and every drive, but for the blocks whose seek failed. *)
(* The argument follows the pointer: it is where the last seek left it plus *)
(* what zero_file has counted since, a seek that failed is known by its     *)
(* place, and what lies behind the pointer has been written.                *)
(***************************************************************************)
EXTENDS VirtualDisk, TLAPS

\* Where the blocks are really written.
First == IF AtStart THEN 0 ELSE Size
Last == IF AtLast THEN Size - Clear ELSE First + Clear

\* Each seek is made once: what has failed so far.
Sought ==
    /\ pc \in {"create", "to_size"} => failed = {}
    /\ pc \in {"set_end", "to_start"} => failed \subseteq {"to_size"}
    /\ pc \in {"zero_first", "to_end"} => AtLast

\* The pointer, the count and the length, phase by phase.
Pointer ==
    /\ pc \in {"create", "to_size"} => pos = 0
    /\ pc \in {"create", "to_size", "set_end"} => length = 0
    /\ pc \in {"set_end", "to_start"} => pos = IF "to_size" \in failed THEN 0 ELSE Size
    /\ pc = "zero_first" => pos = First + cleared
    /\ pc = "to_end" => pos = First + Clear
    /\ pc = "zero_last" => pos = Last + cleared
    /\ pc = "zero_last" /\ cleared > 0 => length >= pos
    /\ AtStart => length <= Size
    /\ pc = "closed" /\ AtLast => length >= Size

\* What has been written, phase by phase.
Written ==
    /\ AtStart => /\ pc = "zero_first" => WrittenIn(0, cleared)
                  /\ pc \in {"to_end", "zero_last", "closed"} => WrittenIn(0, Clear)
    /\ AtLast => /\ pc = "zero_last" => WrittenIn(Size - Clear, pos)
                 /\ pc = "closed" => WrittenIn(Size - Clear, Size)

DInv == TypeOK /\ Sought /\ Pointer /\ Written /\ MiddleUntouched

USE DEF None, WriteBuf

\* One buffer more: the pointer stays behind the block, and the block grows by it.
LEMMA WriteFileKeeps == DInv /\ WriteFile => DInv'
<1> SUFFICES ASSUME DInv, WriteFile PROVE DInv'
    OBVIOUS
<1> USE SizeAssumption, FreeSpaceAssumption
<1>a. /\ Size \in Int /\ Clear \in Int /\ 1 <= Clear /\ 2 * Clear <= Size
      /\ pos \in Int /\ cleared \in Int /\ length \in Int /\ room \in Int
      /\ 0 <= pos /\ 0 <= cleared /\ 0 <= length /\ length <= Size + 2 * Clear
      /\ 0 <= room /\ room <= FreeSpace
    BY DEF DInv, TypeOK
<1>b. \/ pc = "zero_first" /\ pos = First + cleared
      \/ pc = "zero_last" /\ pos = Last + cleared
    BY DEF DInv, Pointer, WriteFile, Zeroing
<1>c. cleared < Clear /\ pos' = pos + 1 /\ cleared' = cleared + 1 /\ pc' = pc
      /\ AtStart' = AtStart /\ AtLast' = AtLast /\ First' = First /\ Last' = Last
    BY DEF WriteFile, AtStart, AtLast, First, Last
<1>1. /\ pos < Size + 2 * Clear
      /\ AtStart => pos < Size
      /\ AtLast => pos < Clear \/ pos >= Size - Clear
    BY <1>a, <1>b, <1>c DEF First, Last
<1>2. /\ pos \in Extent /\ Growth \in Nat /\ length' \in Int
      /\ length' = IF pos < length THEN length ELSE pos + 1
    BY <1>a, <1>1 DEF WriteFile, Growth, Extent
<1>3. content' \in [Extent -> {None, WriteBuf}]
    BY DEF DInv, TypeOK, WriteFile
<1>4. \A i \in Extent : content'[i] = IF i = pos THEN WriteBuf ELSE content[i]
    BY DEF DInv, TypeOK, WriteFile
<1>5. TypeOK'
  <2>1. room' \in 0 .. FreeSpace
      BY <1>a, <1>2 DEF WriteFile
  <2>2. length' \in 0 .. Size + 2 * Clear /\ pos' \in 0 .. Size + 2 * Clear /\ cleared' \in 0 .. Clear
      BY <1>a, <1>c, <1>1, <1>2
  <2> QED
      BY <2>1, <2>2, <1>3 DEF DInv, TypeOK, WriteFile
<1>6. Sought' /\ Pointer'
  <2>1. Sought'
      BY <1>b, <1>c DEF DInv, Sought, WriteFile
  <2>2. AtStart => length' <= Size
      BY <1>a, <1>1, <1>2 DEF DInv, Pointer
  <2>3. length' >= pos'
      BY <1>a, <1>c, <1>2
  <2>4. pos' = (IF pc = "zero_first" THEN First ELSE Last) + cleared'
    <3>1. First \in Int /\ Last \in Int
        BY <1>a DEF First, Last
    <3> QED
        BY <3>1, <1>a, <1>b, <1>c
  <2> QED
      BY <2>1, <2>2, <2>3, <2>4, <1>b, <1>c DEF Pointer
<1>7. Written'
  <2>1. CASE pc = "zero_first"
    <3>1. AtStart => pos = cleared /\ WrittenIn(0, cleared)
        BY <2>1, <1>a, <1>b DEF DInv, Written, First
    <3>2. AtStart => \A i \in Extent : 0 <= i /\ i < cleared + 1 => content'[i] # None
        BY <3>1, <1>a, <1>4 DEF WrittenIn, Extent
    <3> QED
        BY <2>1, <3>2, <1>c DEF Written, WrittenIn
  <2>2. CASE pc = "zero_last"
    <3>1. AtLast => \A i \in Extent : Size - Clear <= i /\ i < pos + 1 => content'[i] # None
        BY <2>2, <1>a, <1>4 DEF DInv, Written, WrittenIn, Extent
    <3>2. AtStart => \A i \in Extent : 0 <= i /\ i < Clear => content'[i] # None
        BY <2>2, <1>4 DEF DInv, Written, WrittenIn
    <3> QED
        BY <2>2, <3>1, <3>2, <1>c DEF Written, WrittenIn
  <2> QED
      BY <2>1, <2>2, <1>b
<1>8. MiddleUntouched'
    BY <1>a, <1>1, <1>4, <1>c DEF DInv, TypeOK, MiddleUntouched, Extent
<1> QED
    BY <1>5, <1>6, <1>7, <1>8 DEF DInv

\* A seek moves the pointer or is remembered as failed.
LEMMA SeekKeeps == DInv /\ (ToSize \/ ToStart \/ ToLastBlock) => DInv'
<1> SUFFICES ASSUME DInv, ToSize \/ ToStart \/ ToLastBlock PROVE DInv'
    OBVIOUS
<1> USE SizeAssumption
<1>a. /\ Size \in Int /\ Clear \in Int /\ 1 <= Clear /\ 2 * Clear <= Size
      /\ pos \in Int /\ 0 <= pos /\ pos <= Size + 2 * Clear
      /\ 0 \in 0 .. Clear /\ 0 \in 0 .. Size + 2 * Clear
      /\ Size \in 0 .. Size + 2 * Clear /\ Size - Clear \in 0 .. Size + 2 * Clear
    BY DEF DInv, TypeOK
<1>b. \A a \in Int : WrittenIn(a, a)'
    BY DEF WrittenIn, Extent
<1>c. UNCHANGED disk /\ cleared' = 0 /\ pos' \in {pos, Size, 0, Size - Clear}
      /\ failed' \in {failed, failed \cup {pc}}
      /\ pc \in {"to_size", "to_start", "to_end"}
      /\ pc' \in {"set_end", "zero_first", "zero_last"}
    BY DEF ToSize, ToStart, ToLastBlock, Seek
<1>1. TypeOK'
    BY <1>a, <1>c DEF DInv, TypeOK, disk, ToSize, ToStart, ToLastBlock, Seek
<1>2. Sought'
    BY DEF DInv, Sought, AtLast, ToSize, ToStart, ToLastBlock, Seek
<1>3. Pointer'
  <2>1. CASE ToSize
      BY <2>1, <1>a DEF DInv, Sought, Pointer, AtStart, AtLast, disk, ToSize, Seek
  <2>2. CASE ToStart
      BY <2>2, <1>a DEF DInv, Sought, Pointer, AtStart, AtLast, First, disk, ToStart, Seek
  <2>3. CASE ToLastBlock
      BY <2>3, <1>a DEF DInv, Sought, Pointer, AtStart, AtLast, First, Last, disk, ToLastBlock, Seek
  <2> QED
      BY <2>1, <2>2, <2>3
<1>4. Written'
  <2>1. CASE ToSize
      BY <2>1 DEF Written, ToSize, Seek
  <2>2. CASE ToStart
      BY <2>2, <1>a, <1>b DEF Written, ToStart, Seek
  <2>3. CASE ToLastBlock
    <3>1. AtStart' = AtStart
        BY <2>3 DEF AtStart, ToLastBlock, Seek
    <3>2. AtLast' => pos' = Size - Clear
        BY <2>3 DEF AtLast, ToLastBlock, Seek
    <3>3. \A a, b : WrittenIn(a, b)' <=> WrittenIn(a, b)
        BY <1>c DEF WrittenIn, disk
    <3> QED
        BY <2>3, <3>1, <3>2, <3>3, <1>a, <1>b DEF DInv, Written, ToLastBlock, Seek
  <2> QED
      BY <2>1, <2>2, <2>3
<1>5. MiddleUntouched'
    BY <1>c DEF DInv, MiddleUntouched, AtLast, disk
<1> QED
    BY <1>1, <1>2, <1>3, <1>4, <1>5 DEF DInv

\* The steps that neither seek nor write leave pointer and content alone.
LEMMA OthersKeep ==
    ASSUME DInv,
           CreateFile \/ SetEndOfFile \/ WriteFails \/ Cleared \/ OthersWrite \/ DriveFails
    PROVE  DInv'
<1> USE SizeAssumption, FreeSpaceAssumption
        DEF DInv, TypeOK, Sought, Pointer, Written, WrittenIn, MiddleUntouched,
            AtStart, AtLast, First, Last, disk
<1>1. CASE CreateFile
    BY <1>1 DEF CreateFile
<1>2. CASE SetEndOfFile
    BY <1>2 DEF SetEndOfFile
<1>3. CASE WriteFails
    BY <1>3 DEF WriteFails, dvars
<1>4. CASE Cleared
    BY <1>4 DEF Cleared, Zeroing
<1>5. CASE OthersWrite
    BY <1>5 DEF OthersWrite
<1>6. CASE DriveFails
    BY <1>6 DEF DriveFails
<1> QED
    BY <1>1, <1>2, <1>3, <1>4, <1>5, <1>6

\* Types, pointer, what is written and what is not, in every reachable state of
\* create_virtual_disk.
THEOREM DiskInvariant == Spec => []DInv
<1>1. Init => DInv
  <2> SUFFICES ASSUME Init PROVE DInv
      OBVIOUS
  <2>1. /\ content = [i \in Extent |-> None] /\ pc = "create" /\ failed = {}
        /\ room \in 0 .. FreeSpace /\ bad = FALSE /\ opened = FALSE
        /\ length = 0 /\ pos = 0 /\ cleared = 0
      BY DEF Init
  <2>2. content \in [Extent -> {None, WriteBuf}] /\ \A i \in Extent : content[i] = None
      BY <2>1
  <2>3. /\ length \in 0 .. Size + 2 * Clear /\ pos \in 0 .. Size + 2 * Clear
        /\ cleared \in 0 .. Clear
      BY <2>1, SizeAssumption
  <2>4. bad \in BOOLEAN /\ opened \in BOOLEAN
      BY <2>1
  <2>5. TypeOK
      BY <2>1, <2>2, <2>3, <2>4, Zenon DEF TypeOK
  <2>6. Sought /\ Pointer /\ Written /\ MiddleUntouched
      BY <2>1, <2>2, SizeAssumption
      DEF Sought, Pointer, Written, MiddleUntouched, AtStart, AtLast
  <2> QED
      BY <2>5, <2>6 DEF DInv
<1>2. DInv /\ [Next]_dvars => DInv'
  <2> SUFFICES ASSUME DInv, [Next]_dvars PROVE DInv'
      OBVIOUS
  <2>1. CASE Next
      BY <2>1, WriteFileKeeps, SeekKeeps, OthersKeep DEF Next, Thread
  <2>2. CASE UNCHANGED dvars
      BY <2>2 DEF dvars, disk, DInv, TypeOK, Sought, Pointer, First, Last, AtStart, AtLast,
                  Written, WrittenIn, MiddleUntouched
  <2> QED
      BY <2>1, <2>2
<1> QED
    BY <1>1, <1>2, PTL DEF Spec

\* The file pointer and the end of the file never go further than two blocks
\* behind the disk, whichever calls fail.
THEOREM DiskTypeCorrect == Spec => []TypeOK
BY DiskInvariant, PTL DEF DInv

\* A creation that ends leaves each end block written whose seek did not fail,
\* and a disk of its length if neither did, whichever other calls failed and
\* whoever else filled the drive.
THEOREM DiskIsWhole == Spec => []ClosedIsWhole
<1>1. DInv => ClosedIsWhole
    BY SizeAssumption DEF DInv, TypeOK, Written, Pointer, ClosedIsWhole
<1> QED
    BY <1>1, DiskInvariant, PTL

\* Only the two end blocks are written, for every size of the disk, unless the
\* seek to the last one failed.
THEOREM MiddleIsUntouched == Spec => []MiddleUntouched
BY DiskInvariant, PTL DEF DInv
=============================================================================
