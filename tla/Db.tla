--------------------------------- MODULE Db ---------------------------------
(* db.c: object images in the file binary/objects, allocated in blocks from *)
(* a bitmap, and located through the dbm index binary/index (lookup.c).     *)
(* The index, the file and the mark binary/clean outlive the process; the   *)
(* bitmap, its size and last_free are rebuilt by init_db.                   *)
EXTENDS Integers, FiniteSets

CONSTANTS Dbrefs, Values, NoObj,
          SizeOf,       \* size_object: bytes in the packed form of a value
          BLOCK_SIZE,   \* bytes in a block
          DB_BITBLOCK,  \* blocks the bitmap grows by
          BYTE_BITS,    \* bits in a byte of the bitmap
          MaxBlocks     \* bound: the file stays below this many blocks

ASSUME DbAssumption ==
    /\ NoObj \notin Values
    /\ SizeOf \in [Values -> Nat \ {0}]
    /\ BLOCK_SIZE \in Nat \ {0} /\ DB_BITBLOCK \in Nat \ {0}
    /\ BYTE_BITS \in Nat \ {0} /\ DB_BITBLOCK % BYTE_BITS = 0
    /\ MaxBlocks \in Nat

VARIABLES up,           \* the process runs
          cleanFile,    \* binary/clean exists
          db_clean,     \* the process's own record of that
          index,        \* dbref -> [offset, size], in binary/index
          file,         \* what each block of binary/objects holds
          fileSize,     \* its length in bytes
          bitmap,       \* blocks marked busy
          bitmap_blocks,
          last_free

disk == <<cleanFile, index, file, fileSize>>
memory == <<db_clean, bitmap, bitmap_blocks, last_free>>
vars == <<up, disk, memory>>

(* Definitions named Bug_... are plausible mistakes, each in the place of    *)
(* the definition of its name; the properties have to notice them.          *)

Needed(size) == IF size % BLOCK_SIZE # 0 THEN size \div BLOCK_SIZE + 1
                                         ELSE size \div BLOCK_SIZE
RoundUp(a) == (a - 1) + BYTE_BITS - ((a - 1) % BYTE_BITS)
LogicalBlock(offset) == offset \div BLOCK_SIZE
Bug_BlockOffset(block) == block                   \* blocks taken for bytes
BlockOffset(block) == block * BLOCK_SIZE

Blocks == 0 .. MaxBlocks - 1
Span(start, n) == start .. start + n - 1
Extent(e) == Span(LogicalBlock(e.offset), Needed(e.size))
Used(ix) == UNION {Extent(ix[d]) : d \in DOMAIN ix}

Blank == <<>>
Image(d, v, k) == <<d, v, k>>      \* the k-th block of d's packed value v

Bug_Grown(old, blocks) ==       \* one step too few at the boundary
    {new \in {old + k * DB_BITBLOCK : k \in 0 .. MaxBlocks} :
        /\ \A b \in blocks : b <= new
        /\ new > old => \E b \in blocks : b >= new - DB_BITBLOCK}

(* What grow_bitmap, called until each of some blocks has a bit, makes of   *)
(* the size of the bitmap: whole steps, and none too many.                  *)
Grown(old, blocks) ==
    {new \in {old + k * DB_BITBLOCK : k \in 0 .. MaxBlocks} :
        /\ \A b \in blocks : b < new
        /\ new > old => \E b \in blocks : b >= new - DB_BITBLOCK}

Bug_Fits(marks, start, n) == start \notin marks   \* looks at the first block only
Fits(marks, start, n) == Span(start, n) \cap marks = {}

(* db_unmark                                                                *)
Bug_Unmark(marks, e) ==         \* forgets the last, partial block
    marks \ Span(LogicalBlock(e.offset), e.size \div BLOCK_SIZE)
Unmark(marks, e) == marks \ Extent(e)

(* db_alloc: the first run of n free blocks at or after last_free that      *)
(* starts inside the bitmap, else the first one from block 0.  A run that   *)
(* reaches the end of the bitmap grows it, and the new blocks are free.     *)
AllocatedAt(marks, from, n, start) ==
    /\ Fits(marks, start, n)
    /\ IF \E s \in from .. bitmap_blocks - 1 : Fits(marks, s, n)
       THEN /\ start \in from .. bitmap_blocks - 1
            /\ \A s \in from .. start - 1 : ~Fits(marks, s, n)
       ELSE \A s \in 0 .. start - 1 : ~Fits(marks, s, n)

-----------------------------------------------------------------------------
Init ==
    /\ up = FALSE /\ cleanFile = FALSE /\ db_clean = FALSE
    /\ index = <<>> /\ fileSize = 0
    /\ file = [b \in Blocks |-> Blank]
    /\ bitmap = {} /\ bitmap_blocks = 0 /\ last_free = 0

(* init_db: without a good binary/clean the file and the index are          *)
(* truncated; the bitmap is rebuilt from the index that is left.            *)
InitDb ==
    /\ ~up /\ up' = TRUE
    /\ IF cleanFile THEN UNCHANGED <<index, file, fileSize>>
       ELSE index' = <<>> /\ fileSize' = 0 /\ file' = [b \in Blocks |-> Blank]
    /\ bitmap' = Used(index')
    /\ bitmap_blocks' \in
          Grown(RoundUp(LogicalBlock(fileSize') + DB_BITBLOCK), Used(index'))
    /\ last_free' = 0
    /\ cleanFile' = TRUE /\ db_clean' = TRUE

(* The process is gone, and its memory with it.                             *)
Forget ==
    /\ up' = FALSE /\ db_clean' = FALSE
    /\ bitmap' = {} /\ bitmap_blocks' = 0 /\ last_free' = 0

Put(f, d, v, start) ==
    [b \in Blocks |-> IF b \in Span(start, Needed(SizeOf[v]))
                      THEN Image(d, v, b - start) ELSE f[b]]

Entry(start, v) == [offset |-> BlockOffset(start), size |-> SizeOf[v]]
Indexed(d, e) == [x \in DOMAIN index \cup {d} |-> IF x = d THEN e ELSE index[x]]
Unindexed(d) == [x \in DOMAIN index \ {d} |-> index[x]]

Bug_DbIsDirty == UNCHANGED cleanFile /\ db_clean' = FALSE   \* mark not removed

(* db_is_dirty: the mark goes before the first change after a flush.        *)
DbIsDirty ==
    /\ cleanFile' = IF db_clean THEN FALSE ELSE cleanFile
    /\ db_clean' = FALSE

(* db_is_clean writes the mark only if the process thinks it is not there.  *)
DbIsClean ==
    /\ cleanFile' = IF db_clean THEN cleanFile ELSE TRUE
    /\ db_clean' = TRUE

Bug_InPlace(d, v) ==            \* off by one
    d \in DOMAIN index /\ Needed(SizeOf[v]) <= Needed(index[d].size) + 1

(* An image that still fits stays where it is; the marks of a tail it no    *)
(* longer needs stay too.                                                   *)
InPlace(d, v) ==
    d \in DOMAIN index /\ Needed(SizeOf[v]) <= Needed(index[d].size)

DbPutInPlace(d, v) ==
    /\ InPlace(d, v)
    /\ index' = Indexed(d, [index[d] EXCEPT !.size = SizeOf[v]])
    /\ file' = Put(file, d, v, LogicalBlock(index[d].offset))
    /\ UNCHANGED <<bitmap, bitmap_blocks, last_free, fileSize>>

(* A new image, or one that has outgrown its blocks, is allocated.  The old *)
(* blocks are freed first, so the new run may overlap them.                 *)
DbPutAllocated(d, v) ==
    LET marks == IF d \in DOMAIN index THEN Unmark(bitmap, index[d]) ELSE bitmap
        from == IF d \in DOMAIN index THEN LogicalBlock(index[d].offset)
                                      ELSE last_free
        n == Needed(SizeOf[v])
    IN  /\ ~InPlace(d, v)
        /\ \E start \in 0 .. MaxBlocks - n :
            /\ AllocatedAt(marks, from, n, start)
            /\ bitmap' = marks \cup Span(start, n)
            /\ bitmap_blocks' \in Grown(bitmap_blocks, start .. start + n)
            /\ last_free' = start + n
            /\ index' = Indexed(d, Entry(start, v))
            /\ file' = Put(file, d, v, start)
            /\ LET end == BlockOffset(start) + SizeOf[v] IN
               fileSize' = IF end > fileSize THEN end ELSE fileSize

DbPut(d, v) ==
    /\ up /\ DbIsDirty
    /\ DbPutInPlace(d, v) \/ DbPutAllocated(d, v)
    /\ UNCHANGED up

(* db_del: the index entry, then the mark, then the blocks.                 *)
DbDel(d) ==
    /\ up /\ d \in DOMAIN index
    /\ index' = Unindexed(d)
    /\ DbIsDirty
    /\ bitmap' = Unmark(bitmap, index[d])
    /\ last_free' = LogicalBlock(index[d].offset)
    /\ file' = [file EXCEPT ![LogicalBlock(index[d].offset)] = <<"delobj">>]
    /\ UNCHANGED <<up, bitmap_blocks, fileSize>>

DbFlush == up /\ DbIsClean /\ UNCHANGED <<up, index, file, fileSize, bitmap,
                                          bitmap_blocks, last_free>>

(* db_close ends with db_is_clean, and the process with db_close.           *)
DbClose ==
    /\ up /\ Forget
    /\ cleanFile' = IF db_clean THEN cleanFile ELSE TRUE
    /\ UNCHANGED <<index, file, fileSize>>

Crash == up /\ Forget /\ UNCHANGED disk

(* The process dies inside db_put, after db_is_dirty.  Whatever it had      *)
(* written by then the next init_db truncates, so nothing of it is kept.    *)
CrashInPut ==
    /\ up /\ Forget
    /\ cleanFile' = FALSE
    /\ UNCHANGED <<index, file, fileSize>>

(* It dies inside db_del, before db_is_dirty.                               *)
CrashInDel(d) ==
    /\ up /\ d \in DOMAIN index
    /\ Forget
    /\ index' = Unindexed(d)
    /\ UNCHANGED <<cleanFile, file, fileSize>>

Next ==
    \/ InitDb \/ DbFlush \/ DbClose \/ Crash \/ CrashInPut
    \/ \E d \in Dbrefs : DbDel(d) \/ CrashInDel(d)
    \/ \E d \in Dbrefs, v \in Values : DbPut(d, v)

Spec == Init /\ [][Next]_vars

-----------------------------------------------------------------------------
TypeOK ==
    /\ up \in BOOLEAN /\ cleanFile \in BOOLEAN /\ db_clean \in BOOLEAN
    /\ DOMAIN index \subseteq Dbrefs
    /\ \A d \in DOMAIN index :
          /\ index[d] \in [offset : Nat, size : Nat \ {0}]
          /\ index[d].offset % BLOCK_SIZE = 0
          /\ Extent(index[d]) \subseteq Blocks
    /\ DOMAIN file = Blocks /\ fileSize \in Nat
    /\ bitmap \subseteq Blocks
    /\ bitmap_blocks \in Nat /\ last_free \in Nat

(* No two objects share a block of the file: a write of one object can      *)
(* never damage another, whatever was freed, outgrown or reloaded before.   *)
ExtentsDisjoint ==
    \A d, e \in DOMAIN index :
        d # e => Extent(index[d]) \cap Extent(index[e]) = {}

(* Every block of a stored object is marked, so db_alloc cannot hand it out *)
(* again (db_mark at start, db_alloc and db_unmark afterwards).             *)
LiveBlocksMarked == up => Used(index) \subseteq bitmap

(* bitmap[b >> 3] is only read and written inside the bitmap_blocks / 8     *)
(* bytes allocated for it: every mark, and the block where the next search  *)
(* begins, lie below bitmap_blocks, and that is a whole number of bytes.    *)
BitmapInBounds ==
    up => /\ \A b \in bitmap : b < bitmap_blocks
          /\ last_free < bitmap_blocks
          /\ bitmap_blocks % BYTE_BITS = 0

(* A block can stay marked without an owner (until the next start rebuilds  *)
(* the bitmap), but only as the tail of an image rewritten shorter in       *)
(* place: deleting an object, or moving it, gives all its blocks back.      *)
Leaked == IF up THEN bitmap \ Used(index) ELSE {}

LeakOnlyByShrinking ==
    [][\A b \in Leaked' \ Leaked :
          \E d \in DOMAIN index \cap DOMAIN index' :
              /\ b \in Extent(index[d])
              /\ index'[d].offset = index[d].offset
              /\ index'[d].size < index[d].size]_vars

(* What db_get unpacks for d, starting at the block the index names.        *)
Unpacked(ix, f, d) ==
    LET start == LogicalBlock(ix[d].offset)
        read == {v \in Values : \A k \in 0 .. Needed(SizeOf[v]) - 1 :
                     start + k \in Blocks /\ f[start + k] = Image(d, v, k)}
    IN  CHOOSE v \in Values \cup {"garbled"} :
            IF read = {} THEN v = "garbled" ELSE v \in read

StoreOf ==
    [d \in Dbrefs |-> IF d \notin DOMAIN index \/ (~up /\ ~cleanFile)
                      THEN NoObj ELSE Unpacked(index, file, d)]

DS == INSTANCE DiskStore WITH store <- StoreOf, clean <- cleanFile

(* The blocks, the bitmap and the index together are a map from dbrefs to   *)
(* images: db_get returns what the last db_put of that object wrote, and a  *)
(* clean file returns it after a restart.                                   *)
DiskStoreSpec == DS!Spec
=============================================================================
