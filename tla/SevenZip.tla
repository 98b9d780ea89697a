-------------------------------- MODULE SevenZip --------------------------------
(***************************************************************************)
(* The 7z archive behind header.exe, as far as finding a file in it goes:  *)
(* what the compressor writes into the header, and how the decoder linked  *)
(* into header.exe reads it back.  An item is a file or a directory; the   *)
(* files with data are compressed in blocks ("folders" in the source), one *)
(* behind the other, and a file without data belongs to no block.  Items,  *)
(* blocks and streams are numbered from 1; NoBlock stands for (UInt32)-1.  *)
(***************************************************************************)
EXTENDS Naturals, Sequences, FiniteSets, SequencesExt, FiniteSetsExt

NoBlock == 0
Total(sizes) ==
    LET sum[i \in 0 .. Len(sizes)] == IF i = 0 THEN 0 ELSE sum[i - 1] + sizes[i]
    IN sum[Len(sizes)]
HasStream(item) == item.size > 0
\* The items with a stream, or those without.
Those(items, stream) ==
    LET those[i \in 0 .. Len(items)] ==
            IF i = 0 THEN <<>>
            ELSE IF HasStream(items[i]) = stream THEN Append(those[i - 1], items[i])
            ELSE those[i - 1]
    IN those[Len(items)]
SizesOf(items) == [i \in DOMAIN items |-> items[i].size]

-----------------------------------------------------------------------------
(* The compressor.  An archive has blocks, sequences of items among which a *)
(* file that was found empty while it was read has size 0, and the other    *)
(* items without data.                                                      *)

\* slip: directories by ascending name
SortsBeforeAscending(x, y) ==
    \/ ~x.dir /\ y.dir
    \/ x.dir /\ y.dir /\ IsStrictPrefix(x.name, y.name)
\* CompareEmptyItems: files first, then directories by descending name.
SortsBefore(x, y) ==
    \/ ~x.dir /\ y.dir
    \/ x.dir /\ y.dir /\ IsStrictPrefix(y.name, x.name)
Sorted(items) ==
    {s \in SetToSeqs(items) : \A i, j \in DOMAIN s : i < j => ~SortsBefore(s[j], s[i])}

Items(a) == FlattenSeq(a.blocks) \o a.empty
NumFiles(a) == Len(Items(a))
StreamsIn(block) == Those(block, TRUE)

\* WriteHeader and WriteSubStreamsInfo: the size of the last stream of a block
\* is not stored.
Header(a) ==
    LET items == Items(a)
        empty == Those(items, FALSE)
        sizes == [b \in DOMAIN a.blocks |-> SizesOf(StreamsIn(a.blocks[b]))]
    IN [streams |-> [b \in DOMAIN sizes |-> Len(sizes[b])],
        unpack |-> [b \in DOMAIN sizes |-> Total(sizes[b])],
        sizes |-> FlattenSeq([b \in DOMAIN sizes |->
                     IF sizes[b] = <<>> THEN <<>> ELSE Front(sizes[b])]),
        emptyStream |-> [i \in DOMAIN items |-> ~HasStream(items[i])],
        emptyFile |-> [i \in DOMAIN empty |-> ~empty[i].dir]]

-----------------------------------------------------------------------------
(* The decoder                                                              *)

\* SzReadSubStreamsInfo: what is left of the block is the last stream's.
ReadBlock(h, s, b) ==
    IF h.streams[b] = 0 THEN s
    ELSE LET n == h.streams[b] - 1
             stored == SubSeq(h.sizes, s.read + 1, s.read + n)
         IN [read |-> s.read + n,
             sizes |-> s.sizes \o Append(stored, h.unpack[b] - Total(stored))]
UnPackSizes(h) ==
    LET upto[b \in 0 .. Len(h.streams)] ==
            IF b = 0 THEN [read |-> 0, sizes |-> <<>>] ELSE ReadBlock(h, upto[b - 1], b)
    IN upto[Len(h.streams)].sizes

\* The last loop of SzReadHeader2: sizeIndex counts the items with a stream,
\* emptyFileIndex those without.
CountTo(flags, i) == Cardinality({j \in 1 .. i : flags[j]})
Files(h) ==
    [i \in DOMAIN h.emptyStream |->
        LET k == CountTo(h.emptyStream, i)
        IN IF h.emptyStream[i]
           THEN [stream |-> FALSE, dir |-> ~h.emptyFile[k], size |-> 0]
           ELSE [stream |-> TRUE, dir |-> FALSE, size |-> UnPackSizes(h)[i - k]]]

\* SzArDbExFill: block and inBlock are folderIndex and indexInFolder; "v4.07:
\* Loop for skipping empty folders".
NonEmptyFrom(h, block) == {b \in block .. Len(h.streams) : h.streams[b] # 0}

\* slip: one stream too many
EndsBlockLate(h, b, inBlock) == inBlock > h.streams[b]
EndsBlock(h, b, inBlock) == inBlock >= h.streams[b]

FillStream(h, s, i, stream) ==
    LET first == s.inBlock = 0
        b == IF first THEN Min(NonEmptyFrom(h, s.block)) ELSE s.block
        ends == stream /\ EndsBlock(h, b, s.inBlock + 1)
    IN [s EXCEPT
          !.map = Append(@, b),
          !.start = [c \in DOMAIN @ |-> IF first /\ c \in s.block .. b THEN i ELSE s.start[c]],
          !.block = IF ends THEN b + 1 ELSE b,
          !.inBlock = IF ends THEN 0 ELSE IF stream THEN @ + 1 ELSE @]

FillItem(h, s, i, stream) ==
    IF s.error THEN s
    ELSE IF ~stream /\ s.inBlock = 0 THEN [s EXCEPT !.map = Append(@, NoBlock)]
    ELSE IF s.inBlock = 0 /\ NonEmptyFrom(h, s.block) = {} THEN [s EXCEPT !.error = TRUE]
    ELSE FillStream(h, s, i, stream)

Fill(h) ==
    LET upto[i \in 0 .. Len(h.emptyStream)] ==
            IF i = 0
            THEN [error |-> FALSE, block |-> 1, inBlock |-> 0, map |-> <<>>,
                  start |-> [b \in DOMAIN h.streams |-> 0]]
            ELSE FillItem(h, upto[i - 1], i, ~h.emptyStream[i])
    IN upto[Len(h.emptyStream)]

\* What SzReadHeader makes of a header.
ReadHeader(h) ==
    LET filled == Fill(h)
    IN [error |-> filled.error, map |-> filled.map, start |-> filled.start,
        files |-> Files(h), unpack |-> h.unpack]

-----------------------------------------------------------------------------
(* Bytes: an extent of an unpacked block.                                   *)

Nothing == [block |-> NoBlock, offset |-> 0, size |-> 0]
Extent(block, offset, size) ==
    IF size = 0 THEN Nothing ELSE [block |-> block, offset |-> offset, size |-> size]

\* SzExtract: offset and outSizeProcessed in the block's bytes
Taken(db, i) ==
    IF db.map[i] = NoBlock THEN Nothing
    ELSE Extent(db.map[i],
                Total([k \in 1 .. (i - db.start[db.map[i]]) |->
                          db.files[db.start[db.map[i]] + k - 1].size]),
                db.files[i].size)
WithinBuffer(db, i) ==
    LET t == Taken(db, i) IN t.size > 0 => t.offset + t.size <= db.unpack[t.block]

\* What the compressor put there: its CRC is the one stored for the file.
BlockOf(a, i) ==
    LET upto(b) == Total([c \in 1 .. b |-> Len(a.blocks[c])])
    IN IF \E b \in DOMAIN a.blocks : i <= upto(b)
       THEN Min({b \in DOMAIN a.blocks : i <= upto(b)}) ELSE NoBlock
Content(a, i) ==
    IF BlockOf(a, i) = NoBlock THEN Nothing
    ELSE Extent(BlockOf(a, i),
                Total([j \in 1 .. (i - 1) |->
                          IF BlockOf(a, j) = BlockOf(a, i) THEN Items(a)[j].size ELSE 0]),
                Items(a)[i].size)
=============================================================================
