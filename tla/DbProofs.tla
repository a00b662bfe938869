------------------------------ MODULE DbProofs ------------------------------
(* Proofs about db.c as modelled in Db: the bitmap and the index agree, and *)
(* the extents of objects do not overlap, for every number of objects,      *)
(* sizes, blocks and bytes.                                                 *)
EXTENDS Db, TLAPS

-----------------------------------------------------------------------------
(* Arithmetic of blocks and bytes.                                          *)

(* BLOCK_OFFSET and LOGICAL_BLOCK are inverse to each other.                *)
LEMMA DivOfMultiple ==
    ASSUME NEW b \in Int, NEW s \in Nat \ {0}
    PROVE  (b * s) \div s = b
  BY SMT

LEMMA ModOfMultiple ==
    ASSUME NEW b \in Int, NEW s \in Nat \ {0}
    PROVE  (b * s) % s = 0
  BY SMT

LEMMA MultipleOfDiv ==
    ASSUME NEW a \in Int, NEW s \in Nat \ {0}, a % s = 0
    PROVE  (a \div s) * s = a
  BY SMT

LEMMA ProductIsNat ==
    ASSUME NEW a \in Nat, NEW s \in Nat
    PROVE  a * s \in Nat
  BY SMT

LEMMA QuotientIsNat ==
    ASSUME NEW a \in Nat, NEW s \in Nat \ {0}
    PROVE  a \div s \in Nat
  BY SMT

(* Growing by a whole number of bytes keeps a whole number of bytes.        *)
LEMMA ModOfSum ==
    ASSUME NEW a \in Int, NEW k \in Int, NEW c \in Int, NEW s \in Nat \ {0},
           a % s = 0, c % s = 0
    PROVE  (a + k * c) % s = 0
<1> DEFINE p == a \div s
           q == c \div s
<1>1. p \in Int /\ q \in Int
  BY SMT
<1>2. p * s = a /\ q * s = c
  BY MultipleOfDiv
<1> HIDE DEF p, q
<1>3. a + k * c = (p + k * q) * s
  BY <1>1, <1>2, SMT
<1>4. p + k * q \in Int
  BY <1>1, SMT
<1> QED BY <1>3, <1>4, ModOfMultiple

LEMMA ModOfRound ==
    ASSUME NEW a \in Int, NEW s \in Nat \ {0}
    PROVE  /\ (a + s - (a % s)) % s = 0
           /\ a + s - (a % s) \in Int
           /\ a + s - (a % s) > a
<1> DEFINE q == a \div s
<1>1. /\ q \in Int /\ a % s \in Int /\ a % s < s
  BY SMT
<1>2. a = q * s + (a % s)
  BY SMT
<1> HIDE DEF q
<1>3. a + s - (a % s) = (q + 1) * s
  BY <1>1, <1>2, SMT
<1>4. ((q + 1) * s) % s = 0
  BY <1>1, ModOfMultiple
<1>5. /\ a + s - (a % s) \in Int
      /\ a + s - (a % s) > a
  BY <1>1, SMT
<1> QED BY <1>3, <1>4, <1>5

(* A packed object needs at least one block.                                *)
LEMMA NeededType ==
    ASSUME NEW size \in Nat \ {0}
    PROVE  Needed(size) \in Nat \ {0}
<1> DEFINE q == size \div BLOCK_SIZE
<1>1. BLOCK_SIZE \in Nat \ {0}
  BY DbAssumption
<1>2. q \in Nat
  BY <1>1, QuotientIsNat
<1>3. ASSUME size % BLOCK_SIZE = 0
      PROVE  q # 0
  <2>1. q * BLOCK_SIZE = size
    BY <1>1, <1>3, MultipleOfDiv
  <2> HIDE DEF q
  <2> QED BY <1>1, <2>1, SMT
<1>4. Needed(size) = IF size % BLOCK_SIZE # 0 THEN q + 1 ELSE q
  BY DEF Needed
<1> HIDE DEF q
<1> QED BY <1>2, <1>3, <1>4, SMT

LEMMA SizeOfType ==
    ASSUME NEW v \in Values
    PROVE  SizeOf[v] \in Nat \ {0} /\ Needed(SizeOf[v]) \in Nat \ {0}
BY DbAssumption, NeededType

-----------------------------------------------------------------------------
(* Entries of the index.                                                    *)
Located(e) ==
    /\ e \in [offset : Nat, size : Nat \ {0}]
    /\ e.offset % BLOCK_SIZE = 0
    /\ Extent(e) \subseteq Blocks

LEMMA LocatedStart ==
    ASSUME NEW e, Located(e)
    PROVE  /\ LogicalBlock(e.offset) \in Nat
           /\ Needed(e.size) \in Nat \ {0}
           /\ LogicalBlock(e.offset) \in Extent(e)
<1>1. e.offset \in Nat /\ e.size \in Nat \ {0}
  BY DEF Located
<1>2. LogicalBlock(e.offset) \in Nat
  BY <1>1, DbAssumption, QuotientIsNat DEF LogicalBlock
<1>3. Needed(e.size) \in Nat \ {0}
  BY <1>1, NeededType
<1> QED BY <1>2, <1>3, SMT DEF Extent, Span

(* What db_alloc returned, stored as an offset, is read back as the same    *)
(* blocks.                                                                  *)
LEMMA EntryLocated ==
    ASSUME NEW v \in Values, NEW start \in 0 .. MaxBlocks - Needed(SizeOf[v])
    PROVE  /\ Located(Entry(start, v))
           /\ Extent(Entry(start, v)) = Span(start, Needed(SizeOf[v]))
<1> DEFINE n == Needed(SizeOf[v])
<1>1. SizeOf[v] \in Nat \ {0} /\ n \in Nat \ {0} /\ start \in Nat
      /\ BLOCK_SIZE \in Nat \ {0} /\ MaxBlocks \in Nat
  BY SizeOfType, DbAssumption
<1>2. /\ Entry(start, v).offset = start * BLOCK_SIZE
      /\ Entry(start, v).size = SizeOf[v]
      /\ Entry(start, v) = [offset |-> start * BLOCK_SIZE, size |-> SizeOf[v]]
  BY DEF Entry, BlockOffset
<1>3. start * BLOCK_SIZE \in Nat
  BY <1>1, ProductIsNat
<1>4. (start * BLOCK_SIZE) \div BLOCK_SIZE = start
      /\ (start * BLOCK_SIZE) % BLOCK_SIZE = 0
  BY <1>1, DivOfMultiple, ModOfMultiple
<1>5. Extent(Entry(start, v)) = Span(start, n)
  BY <1>2, <1>4 DEF Extent, LogicalBlock
<1>6. Span(start, n) \subseteq Blocks
  <2> HIDE DEF n
  <2>1. start \in 0 .. MaxBlocks - n
    BY DEF n
  <2> QED BY <1>1, <2>1, SMT DEF Span, Blocks
<1> QED BY <1>1, <1>2, <1>3, <1>4, <1>5, <1>6 DEF Located

-----------------------------------------------------------------------------
(* The inductive invariant.  It is what the runs check, in the parts that   *)
(* an action can disturb: the index by itself, the marks against the index, *)
(* the marks against the size of the bitmap, and the types of the rest.     *)
IndexSound(ix) ==
    /\ DOMAIN ix \subseteq Dbrefs
    /\ \A d \in DOMAIN ix : Located(ix[d])
    /\ \A d, e \in DOMAIN ix : d # e => Extent(ix[d]) \cap Extent(ix[e]) = {}

MarksSound(marks, blocks, free, ix) ==
    /\ marks \subseteq Blocks
    /\ Used(ix) \subseteq marks
    /\ \A b \in marks : b < blocks
    /\ blocks \in Nat /\ blocks % BYTE_BITS = 0
    /\ free \in Nat /\ free < blocks

Forgotten == bitmap = {} /\ bitmap_blocks = 0 /\ last_free = 0

IInv ==
    /\ up \in BOOLEAN /\ cleanFile \in BOOLEAN /\ db_clean \in BOOLEAN
    /\ DOMAIN file = Blocks /\ fileSize \in Nat
    /\ IndexSound(index)
    /\ IF up THEN MarksSound(bitmap, bitmap_blocks, last_free, index)
             ELSE Forgotten

LEMMA IInvIsStronger ==
    ASSUME IInv
    PROVE  TypeOK /\ ExtentsDisjoint /\ LiveBlocksMarked /\ BitmapInBounds
BY DEF IInv, TypeOK, ExtentsDisjoint, LiveBlocksMarked, BitmapInBounds,
       IndexSound, MarksSound, Forgotten, Located

(* An entry that keeps clear of the others leaves the index sound.          *)
LEMMA IndexedSound ==
    ASSUME IndexSound(index), NEW d \in Dbrefs, NEW e, Located(e),
           \A x \in DOMAIN index \ {d} : Extent(index[x]) \cap Extent(e) = {}
    PROVE  /\ IndexSound(Indexed(d, e))
           /\ Used(Indexed(d, e)) \subseteq (Used(index) \cup Extent(e))
           /\ \A x \in DOMAIN index \ {d} :
                 x \in DOMAIN Indexed(d, e) /\ Indexed(d, e)[x] = index[x]
<1> DEFINE ix == Indexed(d, e)
<1>1. /\ DOMAIN ix = DOMAIN index \cup {d}
      /\ ix[d] = e
      /\ \A x \in DOMAIN index \ {d} : ix[x] = index[x]
  BY DEF Indexed
<1> HIDE DEF ix
<1>2. IndexSound(ix)
  BY <1>1 DEF IndexSound
<1>3. Used(ix) \subseteq (Used(index) \cup Extent(e))
  BY <1>1 DEF Used
<1> QED BY <1>1, <1>2, <1>3 DEF ix

LEMMA UnindexedSound ==
    ASSUME IndexSound(index), NEW d \in DOMAIN index
    PROVE  /\ IndexSound(Unindexed(d))
           /\ Used(Unindexed(d)) \subseteq Used(index)
           /\ Used(Unindexed(d)) \cap Extent(index[d]) = {}
<1> DEFINE ix == Unindexed(d)
<1>1. /\ DOMAIN ix = DOMAIN index \ {d}
      /\ \A x \in DOMAIN ix : ix[x] = index[x]
  BY DEF Unindexed
<1> HIDE DEF ix
<1>2. IndexSound(ix) /\ Used(ix) \subseteq Used(index)
  BY <1>1 DEF IndexSound, Used
<1>3. Used(ix) \cap Extent(index[d]) = {}
  BY <1>1 DEF IndexSound, Used
<1> QED BY <1>2, <1>3 DEF ix

(* What growing the bitmap makes of its size.                               *)
LEMMA GrownSize ==
    ASSUME NEW old \in Nat, old % BYTE_BITS = 0, NEW blocks,
           NEW new \in Grown(old, blocks)
    PROVE  /\ new \in Nat /\ new % BYTE_BITS = 0 /\ new >= old
           /\ \A b \in blocks : b < new
<1>1. PICK k \in 0 .. MaxBlocks : new = old + k * DB_BITBLOCK
  BY DEF Grown
<1>2. /\ DB_BITBLOCK \in Nat /\ DB_BITBLOCK % BYTE_BITS = 0
      /\ BYTE_BITS \in Nat \ {0} /\ k \in Nat
  BY <1>1, DbAssumption
<1>3. k * DB_BITBLOCK \in Nat
  BY <1>2, ProductIsNat
<1>4. new % BYTE_BITS = 0
  <2>1. k \in Int /\ old \in Int /\ DB_BITBLOCK \in Int
    BY <1>2
  <2>2. (old + k * DB_BITBLOCK) % BYTE_BITS = 0
    BY <1>2, <2>1, ModOfSum
  <2> QED BY <1>1, <2>2
<1>5. new \in Nat /\ new >= old
  BY <1>1, <1>3
<1>6. \A b \in blocks : b < new
  BY DEF Grown
<1> QED BY <1>4, <1>5, <1>6

-----------------------------------------------------------------------------
(* The initial state and each action keep the invariant.                    *)
LEMMA InitIInv == Init => IInv
<1> SUFFICES ASSUME Init PROVE IInv
  OBVIOUS
<1>1. DOMAIN index = {}
  BY DEF Init
<1>2. IndexSound(index)
  BY <1>1 DEF IndexSound
<1> QED BY <1>2 DEF Init, IInv, Forgotten

LEMMA InitDbIInv ==
    ASSUME IInv, InitDb
    PROVE  IInv'
<1>1. IndexSound(index')
  <2>1. CASE cleanFile
    BY <2>1 DEF InitDb, IInv
  <2>2. CASE ~cleanFile
    <3>1. DOMAIN index' = {}
      BY <2>2 DEF InitDb
    <3> QED BY <3>1 DEF IndexSound
  <2> QED BY <2>1, <2>2
<1>2. fileSize' \in Nat /\ DOMAIN file' = Blocks
  BY DEF InitDb, IInv
<1> DEFINE a == LogicalBlock(fileSize') + DB_BITBLOCK
           old == RoundUp(a)
<1>3. old \in Nat /\ old > 0 /\ old % BYTE_BITS = 0
  <2>1. BLOCK_SIZE \in Nat \ {0} /\ DB_BITBLOCK \in Nat \ {0} /\ BYTE_BITS \in Nat \ {0}
    BY DbAssumption
  <2>2. LogicalBlock(fileSize') \in Nat
    BY <1>2, <2>1, QuotientIsNat DEF LogicalBlock
  <2>3. a \in Nat /\ a - 1 \in Nat /\ a - 1 \in Int
    BY <2>1, <2>2
  <2> HIDE DEF a
  <2>4. /\ old % BYTE_BITS = 0
        /\ old \in Int
        /\ old > a - 1
    BY <2>1, <2>3, ModOfRound DEF RoundUp
  <2> QED BY <2>3, <2>4
<1>4. bitmap_blocks' \in Grown(old, Used(index'))
  BY DEF InitDb
<1> HIDE DEF old, a
<1>5. /\ bitmap_blocks' \in Nat /\ bitmap_blocks' % BYTE_BITS = 0
      /\ bitmap_blocks' >= old
      /\ \A b \in Used(index') : b < bitmap_blocks'
  BY <1>3, <1>4, GrownSize
<1>6. bitmap' = Used(index') /\ last_free' = 0
  BY DEF InitDb
<1>7. Used(index') \subseteq Blocks
  BY <1>1 DEF Used, IndexSound, Located
<1>8. MarksSound(bitmap', bitmap_blocks', last_free', index')
  BY <1>3, <1>5, <1>6, <1>7 DEF MarksSound
<1> QED BY <1>1, <1>2, <1>8 DEF InitDb, IInv

LEMMA DbDelIInv ==
    ASSUME IInv, NEW d \in Dbrefs, DbDel(d)
    PROVE  IInv'
<1>1. /\ up /\ d \in DOMAIN index /\ IndexSound(index)
      /\ MarksSound(bitmap, bitmap_blocks, last_free, index)
  BY DEF DbDel, IInv
<1>2. /\ index' = Unindexed(d) /\ bitmap' = bitmap \ Extent(index[d])
      /\ bitmap_blocks' = bitmap_blocks
      /\ last_free' = LogicalBlock(index[d].offset)
  BY DEF DbDel, Unmark
<1>3. /\ IndexSound(index') /\ Used(index') \subseteq Used(index)
      /\ Used(index') \cap Extent(index[d]) = {}
  BY <1>1, <1>2, UnindexedSound
<1>4. last_free' \in Nat /\ last_free' \in bitmap
  <2>1. Located(index[d]) /\ Extent(index[d]) \subseteq bitmap
    BY <1>1 DEF IndexSound, MarksSound, Used
  <2> QED BY <1>2, <2>1, LocatedStart
<1>5. MarksSound(bitmap', bitmap_blocks', last_free', index')
  BY <1>1, <1>2, <1>3, <1>4 DEF MarksSound
<1>6. /\ DOMAIN file' = Blocks /\ fileSize' \in Nat /\ up' = up
      /\ cleanFile' \in BOOLEAN /\ db_clean' \in BOOLEAN
  BY DEF DbDel, DbIsDirty, IInv
<1> QED BY <1>1, <1>3, <1>5, <1>6 DEF IInv

(* What db_put makes of the index and the file: an entry of the right size, *)
(* clear of every other object, and the packed value at its blocks.         *)
PutAt(d, v, e) ==
    /\ Located(e) /\ e.size = SizeOf[v]
    /\ \A x \in DOMAIN index \ {d} : Extent(index[x]) \cap Extent(e) = {}
    /\ index' = Indexed(d, e)
    /\ file' = Put(file, d, v, LogicalBlock(e.offset))

(* An image that shrinks or keeps its blocks stays within them.             *)
LEMMA InPlaceEntry ==
    ASSUME IInv, NEW d \in Dbrefs, NEW v \in Values, DbPutInPlace(d, v)
    PROVE  \E e : PutAt(d, v, e) /\ Extent(e) \subseteq Used(index)
<1> DEFINE e == [index[d] EXCEPT !.size = SizeOf[v]]
<1>1. /\ d \in DOMAIN index /\ IndexSound(index) /\ Located(index[d])
      /\ Needed(SizeOf[v]) <= Needed(index[d].size)
  BY DEF DbPutInPlace, InPlace, IInv, IndexSound
<1>2. SizeOf[v] \in Nat \ {0} /\ Needed(SizeOf[v]) \in Nat \ {0}
  BY SizeOfType
<1>3. /\ e \in [offset : Nat, size : Nat \ {0}]
      /\ e.offset = index[d].offset /\ e.size = SizeOf[v]
  BY <1>1, <1>2 DEF Located
<1>4. /\ index' = Indexed(d, e)
      /\ file' = Put(file, d, v, LogicalBlock(index[d].offset))
  BY DEF DbPutInPlace
<1> HIDE DEF e
<1>5. Extent(e) \subseteq Extent(index[d])
  BY <1>1, <1>2, <1>3, LocatedStart DEF Extent, Span
<1>6. Located(e)
  BY <1>1, <1>3, <1>5 DEF Located
<1>7. \A x \in DOMAIN index \ {d} : Extent(index[x]) \cap Extent(e) = {}
  BY <1>1, <1>5 DEF IndexSound
<1>8. Extent(e) \subseteq Used(index)
  BY <1>1, <1>5 DEF Used
<1> QED BY <1>3, <1>4, <1>6, <1>7, <1>8 DEF PutAt

LEMMA DbPutInPlaceIInv ==
    ASSUME IInv, NEW d \in Dbrefs, NEW v \in Values,
           up, UNCHANGED up, DbIsDirty, DbPutInPlace(d, v)
    PROVE  IInv'
<1>1. PICK e : PutAt(d, v, e) /\ Extent(e) \subseteq Used(index)
  BY InPlaceEntry
<1>2. IndexSound(index) /\ MarksSound(bitmap, bitmap_blocks, last_free, index)
  BY DEF IInv
<1>3. /\ IndexSound(index')
      /\ Used(index') \subseteq (Used(index) \cup Extent(e))
  BY <1>1, <1>2, IndexedSound DEF PutAt
<1>4. /\ UNCHANGED <<bitmap, bitmap_blocks, last_free, fileSize>>
      /\ DOMAIN file' = Blocks
  BY DEF DbPutInPlace, Put
<1>5. MarksSound(bitmap', bitmap_blocks', last_free', index')
  BY <1>1, <1>2, <1>3, <1>4 DEF MarksSound
<1> QED BY <1>3, <1>4, <1>5 DEF IInv, DbIsDirty

(* A run that db_alloc finds is free of marks, so it is clear of every      *)
(* other object, whether or not it overlaps the blocks d had.               *)
Freed(d) == IF d \in DOMAIN index THEN Unmark(bitmap, index[d]) ELSE bitmap

LEMMA AllocatedEntry ==
    ASSUME IInv, NEW d \in Dbrefs, NEW v \in Values, up, DbPutAllocated(d, v)
    PROVE  \E start \in 0 .. MaxBlocks - Needed(SizeOf[v]) :
              /\ PutAt(d, v, Entry(start, v))
              /\ \A x \in DOMAIN index \ {d} : Extent(index[x]) \subseteq Freed(d)
              /\ Extent(Entry(start, v)) = Span(start, Needed(SizeOf[v]))
              /\ bitmap' = Freed(d) \cup Span(start, Needed(SizeOf[v]))
              /\ bitmap_blocks' \in
                    Grown(bitmap_blocks, start .. start + Needed(SizeOf[v]))
              /\ last_free' = start + Needed(SizeOf[v])
              /\ fileSize' \in {fileSize, BlockOffset(start) + SizeOf[v]}
<1> DEFINE n == Needed(SizeOf[v])
           from == IF d \in DOMAIN index THEN LogicalBlock(index[d].offset)
                                         ELSE last_free
<1>1. PICK start \in 0 .. MaxBlocks - n :
          /\ AllocatedAt(Freed(d), from, n, start)
          /\ bitmap' = Freed(d) \cup Span(start, n)
          /\ bitmap_blocks' \in Grown(bitmap_blocks, start .. start + n)
          /\ last_free' = start + n
          /\ index' = Indexed(d, Entry(start, v))
          /\ file' = Put(file, d, v, start)
          /\ LET end == BlockOffset(start) + SizeOf[v] IN
             fileSize' = IF end > fileSize THEN end ELSE fileSize
  BY Zenon DEF DbPutAllocated, Freed
<1> DEFINE e == Entry(start, v)
<1>2. /\ IndexSound(index)
      /\ MarksSound(bitmap, bitmap_blocks, last_free, index)
  BY DEF IInv
<1>3. Located(e) /\ Extent(e) = Span(start, n)
  BY EntryLocated
<1>4. Span(start, n) \cap Freed(d) = {}
  BY <1>1 DEF AllocatedAt, Fits
<1>5. e.size = SizeOf[v] /\ LogicalBlock(e.offset) = start
  BY DbAssumption, DivOfMultiple DEF Entry, BlockOffset, LogicalBlock
<1> HIDE DEF e, n
<1>6. \A x \in DOMAIN index \ {d} : Extent(index[x]) \subseteq Freed(d)
  BY <1>2 DEF IndexSound, MarksSound, Used, Unmark, Freed
<1>7. \A x \in DOMAIN index \ {d} : Extent(index[x]) \cap Extent(e) = {}
  BY <1>3, <1>4, <1>6
<1>8. PutAt(d, v, e)
  BY <1>1, <1>3, <1>5, <1>7 DEF PutAt, e
<1> QED BY <1>1, <1>3, <1>6, <1>8 DEF e, n

LEMMA DbPutAllocatedIInv ==
    ASSUME IInv, NEW d \in Dbrefs, NEW v \in Values,
           up, UNCHANGED up, DbIsDirty, DbPutAllocated(d, v)
    PROVE  IInv'
<1> DEFINE n == Needed(SizeOf[v])
<1>1. PICK start \in 0 .. MaxBlocks - n :
          /\ PutAt(d, v, Entry(start, v))
          /\ \A x \in DOMAIN index \ {d} : Extent(index[x]) \subseteq Freed(d)
          /\ Extent(Entry(start, v)) = Span(start, n)
          /\ bitmap' = Freed(d) \cup Span(start, n)
          /\ bitmap_blocks' \in Grown(bitmap_blocks, start .. start + n)
          /\ last_free' = start + n
          /\ fileSize' \in {fileSize, BlockOffset(start) + SizeOf[v]}
  BY AllocatedEntry
<1> DEFINE e == Entry(start, v)
<1>2. /\ IndexSound(index)
      /\ MarksSound(bitmap, bitmap_blocks, last_free, index)
  BY DEF IInv
<1>3. SizeOf[v] \in Nat \ {0} /\ n \in Nat \ {0} /\ start \in Nat
  BY SizeOfType
<1> HIDE DEF e, n
<1>4. /\ IndexSound(index')
      /\ \A x \in DOMAIN index' : x = d \/ (x \in DOMAIN index /\ index'[x] = index[x])
      /\ index'[d] = e
  <2>1. IndexSound(index')
    BY <1>1, <1>2, IndexedSound DEF PutAt, e
  <2> QED BY <1>1, <2>1 DEF Indexed, PutAt, e
<1>5. Used(index') \subseteq bitmap'
  BY <1>1, <1>4 DEF Used, e
<1>6. /\ bitmap_blocks' \in Nat /\ bitmap_blocks' % BYTE_BITS = 0
      /\ bitmap_blocks' >= bitmap_blocks
      /\ \A b \in start .. start + n : b < bitmap_blocks'
  BY <1>1, <1>2, GrownSize DEF MarksSound
<1>7. \A b \in bitmap' : b < bitmap_blocks'
  <2>1. \A b \in Span(start, n) : b < bitmap_blocks'
    BY <1>3, <1>6 DEF Span
  <2>2. \A b \in bitmap : b \in Int /\ b < bitmap_blocks
    BY <1>2, DbAssumption DEF MarksSound, Blocks
  <2>3. \A b \in Freed(d) : b < bitmap_blocks'
    BY <1>2, <1>6, <2>2 DEF MarksSound, Freed, Unmark
  <2> QED BY <1>1, <2>1, <2>3
<1>8. bitmap' \subseteq Blocks
  BY <1>1, <1>2 DEF MarksSound, Located, Unmark, Freed, PutAt
<1>9. last_free' \in Nat /\ last_free' < bitmap_blocks'
  <2>1. start + n \in start .. start + n /\ start + n \in Nat
    BY <1>3
  <2> QED BY <1>1, <1>6, <2>1
<1>10. MarksSound(bitmap', bitmap_blocks', last_free', index')
  BY <1>5, <1>6, <1>7, <1>8, <1>9 DEF MarksSound
<1>11. DOMAIN file' = Blocks
  BY <1>1 DEF Put, PutAt
<1>12. fileSize' \in Nat
  <2>1. BlockOffset(start) \in Nat
    BY <1>3, DbAssumption, ProductIsNat DEF BlockOffset
  <2> QED BY <1>1, <1>3, <2>1 DEF IInv
<1> QED BY <1>4, <1>10, <1>11, <1>12 DEF IInv, DbIsDirty

(* Ends of the process keep the files; the index may lose an entry.         *)
LEMMA EndIInv ==
    ASSUME IInv, DbClose \/ Crash \/ CrashInPut \/ \E d \in Dbrefs : CrashInDel(d)
    PROVE  IInv'
<1>1. Forget /\ UNCHANGED <<file, fileSize>> /\ cleanFile' \in BOOLEAN
  BY DEF DbClose, Crash, CrashInPut, CrashInDel, IInv, disk
<1>2. IndexSound(index')
  <2>1. CASE UNCHANGED index
    BY <2>1 DEF IInv
  <2>2. ASSUME NEW d \in Dbrefs, CrashInDel(d)
        PROVE  IndexSound(index')
    BY <2>2, UnindexedSound DEF CrashInDel, IInv
  <2> QED BY <2>1, <2>2 DEF DbClose, Crash, CrashInPut, disk
<1> QED BY <1>1, <1>2 DEF Forget, Forgotten, IInv

LEMMA NextIInv == IInv /\ [Next]_vars => IInv'
<1> SUFFICES ASSUME IInv, [Next]_vars PROVE IInv'
  OBVIOUS
<1>1. CASE InitDb
  BY <1>1, InitDbIInv
<1>2. CASE DbFlush
  BY <1>2 DEF DbFlush, DbIsClean, IInv
<1>3. CASE DbClose \/ Crash \/ CrashInPut \/ \E d \in Dbrefs : CrashInDel(d)
  BY <1>3, EndIInv
<1>4. ASSUME NEW d \in Dbrefs, DbDel(d)
      PROVE  IInv'
  BY <1>4, DbDelIInv
<1>5. ASSUME NEW d \in Dbrefs, NEW v \in Values, DbPut(d, v)
      PROVE  IInv'
  BY <1>5, DbPutInPlaceIInv, DbPutAllocatedIInv DEF DbPut
<1>6. CASE UNCHANGED vars
  BY <1>6 DEF vars, disk, memory, IInv, Forgotten
<1> QED BY <1>1, <1>2, <1>3, <1>4, <1>5, <1>6 DEF Next

(* The invariant holds in every state of every behaviour.                   *)
LEMMA SpecIInv == Spec => []IInv
BY InitIInv, NextIInv, PTL DEF Spec

(* The state of db.c keeps its types: in particular every indexed object    *)
(* lies on a block boundary, inside the file's blocks.                      *)
THEOREM TypeCorrect == Spec => []TypeOK
BY SpecIInv, IInvIsStronger, PTL

(* No two objects ever share a block of binary/objects, after whatever      *)
(* history of allocations, moves, deletions, crashes and restarts.          *)
THEOREM ObjectsNeverOverlap == Spec => []ExtentsDisjoint
BY SpecIInv, IInvIsStronger, PTL

(* A block that holds part of an object is always marked in the bitmap.     *)
THEOREM AllocatedBlocksAreMarked == Spec => []LiveBlocksMarked
BY SpecIInv, IInvIsStronger, PTL

(* The bitmap is never indexed outside the memory it was given.             *)
THEOREM BitmapAccessesInBounds == Spec => []BitmapInBounds
BY SpecIInv, IInvIsStronger, PTL

-----------------------------------------------------------------------------
(* Where marks without an owner come from.                                  *)
LEMMA QuotientMonotone ==
    ASSUME NEW a \in Nat, NEW b \in Nat, NEW s \in Nat \ {0}, a <= b
    PROVE  a \div s <= b \div s
  BY SMT

(* More bytes never need fewer blocks.                                      *)
LEMMA NeededMonotone ==
    ASSUME NEW s \in Nat \ {0}, NEW t \in Nat \ {0}, s <= t
    PROVE  Needed(s) <= Needed(t)
<1> DEFINE p == s \div BLOCK_SIZE
           q == t \div BLOCK_SIZE
<1>1. BLOCK_SIZE \in Nat \ {0}
  BY DbAssumption
<1>2. p \in Nat /\ q \in Nat /\ p <= q
  BY <1>1, QuotientIsNat, QuotientMonotone
<1>3. ASSUME t % BLOCK_SIZE = 0, p = q
      PROVE  s % BLOCK_SIZE = 0
  <2>1. /\ t = q * BLOCK_SIZE + (t % BLOCK_SIZE)
        /\ s = p * BLOCK_SIZE + (s % BLOCK_SIZE)
        /\ s % BLOCK_SIZE \in Nat
    BY <1>1, SMT
  <2> HIDE DEF p, q
  <2>2. t = s - (s % BLOCK_SIZE)
    BY <1>1, <1>3, <2>1, <1>2, SMT
  <2> QED BY <2>1, <2>2
<1>4. /\ Needed(s) = IF s % BLOCK_SIZE # 0 THEN p + 1 ELSE p
      /\ Needed(t) = IF t % BLOCK_SIZE # 0 THEN q + 1 ELSE q
  BY DEF Needed
<1> HIDE DEF p, q
<1> QED BY <1>2, <1>3, <1>4

(* An object that stays in place and does not shrink keeps its blocks.      *)
LEMMA ExtentGrows ==
    ASSUME NEW e, NEW g, Located(e), Located(g),
           e.offset = g.offset, e.size <= g.size
    PROVE  Extent(e) \subseteq Extent(g)
<1>1. /\ LogicalBlock(e.offset) \in Nat
      /\ Needed(e.size) \in Nat /\ Needed(g.size) \in Nat
  BY LocatedStart
<1>2. Needed(e.size) <= Needed(g.size)
  BY NeededMonotone DEF Located
<1> QED BY <1>1, <1>2 DEF Extent, Span

Shrinks ==
    \A b \in Leaked' \ Leaked :
        \E d \in DOMAIN index \cap DOMAIN index' :
            /\ b \in Extent(index[d])
            /\ index'[d].offset = index[d].offset
            /\ index'[d].size < index[d].size

LEMMA PutInPlaceShrinks ==
    ASSUME IInv, IInv', NEW d \in Dbrefs, NEW v \in Values,
           DbPut(d, v), DbPutInPlace(d, v)
    PROVE  Shrinks
<1> SUFFICES ASSUME NEW b \in Leaked', b \notin Leaked
             PROVE  \E x \in DOMAIN index \cap DOMAIN index' :
                       /\ b \in Extent(index[x])
                       /\ index'[x].offset = index[x].offset
                       /\ index'[x].size < index[x].size
  BY DEF Shrinks
<1>1. /\ up /\ up' = up /\ bitmap' = bitmap /\ d \in DOMAIN index
      /\ index' = Indexed(d, [index[d] EXCEPT !.size = SizeOf[v]])
  BY DEF DbPut, DbPutInPlace, InPlace
<1>2. b \in Used(index) /\ b \notin Used(index')
  BY <1>1 DEF Leaked
<1>3. /\ DOMAIN index' = DOMAIN index
      /\ \A x \in DOMAIN index \ {d} : index'[x] = index[x]
      /\ index'[d] = [index[d] EXCEPT !.size = SizeOf[v]]
  BY <1>1 DEF Indexed
<1>4. b \in Extent(index[d]) /\ b \notin Extent(index'[d])
  BY <1>1, <1>2, <1>3 DEF Used
<1>5. Located(index[d]) /\ Located(index'[d])
  BY <1>1, <1>3 DEF IInv, IndexSound
<1>6. index'[d].offset = index[d].offset
  BY <1>3, <1>5 DEF Located
<1>7. ~(index[d].size <= index'[d].size)
  BY <1>4, <1>5, <1>6, ExtentGrows
<1>8. index'[d].size < index[d].size
  BY <1>5, <1>7 DEF Located
<1> QED BY <1>1, <1>3, <1>4, <1>6, <1>8

LEMMA PutAllocatedShrinks ==
    ASSUME IInv, NEW d \in Dbrefs, NEW v \in Values,
           DbPut(d, v), DbPutAllocated(d, v)
    PROVE  Leaked' \subseteq Leaked
<1>1. up /\ up' = up
  BY DEF DbPut
<1>2. PICK start \in 0 .. MaxBlocks - Needed(SizeOf[v]) :
         /\ bitmap' = (IF d \in DOMAIN index THEN Unmark(bitmap, index[d])
                                             ELSE bitmap)
                      \cup Span(start, Needed(SizeOf[v]))
         /\ index' = Indexed(d, Entry(start, v))
  BY DEF DbPutAllocated
<1>3. /\ DOMAIN index' = DOMAIN index \cup {d}
      /\ \A x \in DOMAIN index \ {d} : index'[x] = index[x]
      /\ Extent(index'[d]) = Span(start, Needed(SizeOf[v]))
  BY <1>2, EntryLocated DEF Indexed
<1>4. ASSUME NEW b \in Leaked'
      PROVE  b \in Leaked
  <2>1. b \in bitmap' /\ b \notin Used(index')
    BY <1>1, <1>4 DEF Leaked
  <2>2. b \notin Span(start, Needed(SizeOf[v]))
    BY <1>3, <2>1 DEF Used
  <2>3. b \in bitmap /\ (d \in DOMAIN index => b \notin Extent(index[d]))
    BY <1>2, <2>1, <2>2 DEF Unmark
  <2>4. b \notin Used(index)
    BY <1>3, <2>1, <2>3 DEF Used
  <2> QED BY <1>1, <2>3, <2>4 DEF Leaked
<1> QED BY <1>4

LEMMA DelShrinks ==
    ASSUME NEW d \in Dbrefs, DbDel(d)
    PROVE  Leaked' \subseteq Leaked
<1>1. /\ up /\ up' = up /\ bitmap' = bitmap \ Extent(index[d])
      /\ index' = Unindexed(d)
  BY DEF DbDel, Unmark
<1>2. /\ DOMAIN index' = DOMAIN index \ {d}
      /\ \A x \in DOMAIN index' : index'[x] = index[x]
  BY <1>1 DEF Unindexed
<1>3. ASSUME NEW b \in Leaked'
      PROVE  b \in Leaked
  <2>1. b \in bitmap /\ b \notin Extent(index[d]) /\ b \notin Used(index')
    BY <1>1, <1>3 DEF Leaked
  <2>2. b \notin Used(index)
    BY <1>2, <2>1 DEF Used
  <2> QED BY <1>1, <2>1, <2>2 DEF Leaked
<1> QED BY <1>3

LEMMA NextShrinks == IInv /\ IInv' /\ [Next]_vars => Shrinks
<1> SUFFICES ASSUME IInv, IInv', [Next]_vars PROVE Shrinks
  OBVIOUS
<1>1. CASE InitDb
  BY <1>1 DEF InitDb, Shrinks, Leaked
<1>2. CASE DbFlush
  BY <1>2 DEF DbFlush, Shrinks, Leaked, Used
<1>3. CASE DbClose \/ Crash \/ CrashInPut \/ \E d \in Dbrefs : CrashInDel(d)
  BY <1>3 DEF DbClose, Crash, CrashInPut, CrashInDel, Forget, Shrinks, Leaked
<1>4. ASSUME NEW d \in Dbrefs, DbDel(d)
      PROVE  Shrinks
  BY <1>4, DelShrinks DEF Shrinks
<1>5. ASSUME NEW d \in Dbrefs, NEW v \in Values, DbPut(d, v)
      PROVE  Shrinks
  <2>1. CASE DbPutInPlace(d, v)
    BY <1>5, <2>1, PutInPlaceShrinks
  <2>2. CASE DbPutAllocated(d, v)
    BY <1>5, <2>2, PutAllocatedShrinks DEF Shrinks
  <2> QED BY <1>5, <2>1, <2>2 DEF DbPut
<1>6. CASE UNCHANGED vars
  BY <1>6 DEF vars, disk, memory, Shrinks, Leaked, Used
<1> QED BY <1>1, <1>2, <1>3, <1>4, <1>5, <1>6 DEF Next

(* A block is marked without an owner only as the tail of an image that was *)
(* rewritten shorter in its place; no move and no deletion leaks a block.   *)
THEOREM OnlyShrinkingLeaks == Spec => LeakOnlyByShrinking
<1>1. IInv /\ IInv' /\ [Next]_vars => [Shrinks]_vars
  BY NextShrinks
<1>2. LeakOnlyByShrinking <=> [][Shrinks]_vars
  BY PTL DEF LeakOnlyByShrinking, Shrinks
<1> QED BY <1>1, <1>2, SpecIInv, PTL DEF Spec

-----------------------------------------------------------------------------
(* db.c implements the map of DiskStore: each of its actions, seen through  *)
(* StoreOf, is the action of the map with the same name or none at all.     *)

(* The file holds, at d's blocks, the packed form of v.                     *)
Holds(ix, f, d, v) ==
    /\ ix[d].size = SizeOf[v]
    /\ \A k \in 0 .. Needed(SizeOf[v]) - 1 :
          f[LogicalBlock(ix[d].offset) + k] = Image(d, v, k)

Readable(ix, f) == \A d \in DOMAIN ix : \E v \in Values : Holds(ix, f, d, v)

(* Beyond IInv: a database that will be believed can be read, and the       *)
(* process knows whether binary/clean is there.                             *)
RInv ==
    /\ IInv
    /\ up \/ cleanFile => Readable(index, file)
    /\ up => (db_clean = cleanFile)

-----------------------------------------------------------------------------
(* What is read back is the value that was written: the image names it.     *)
LEMMA UnpackedHolds ==
    ASSUME NEW ix, NEW f, NEW d, NEW v \in Values,
           Located(ix[d]), Holds(ix, f, d, v)
    PROVE  Unpacked(ix, f, d) = v
<1> DEFINE start == LogicalBlock(ix[d].offset)
           Read(w) == \A k \in 0 .. Needed(SizeOf[w]) - 1 :
                          start + k \in Blocks /\ f[start + k] = Image(d, w, k)
           read == {w \in Values : Read(w)}
<1>1. start \in Nat
  BY LocatedStart
<1>2. \A k \in 0 .. Needed(SizeOf[v]) - 1 : start + k \in Blocks
  <2>1. Needed(SizeOf[v]) \in Nat /\ ix[d].size = SizeOf[v]
    BY SizeOfType DEF Holds
  <2>2. Span(start, Needed(SizeOf[v])) \subseteq Blocks
    BY <2>1 DEF Located, Extent
  <2> HIDE DEF start
  <2> QED BY <1>1, <2>1, <2>2, SMT DEF Span
<1>3. Read(v)
  BY <1>2 DEF Holds
<1>4. ASSUME NEW w \in Values, Read(w)
      PROVE  w = v
  <2>1. 0 \in 0 .. Needed(SizeOf[w]) - 1 /\ 0 \in 0 .. Needed(SizeOf[v]) - 1
    BY SizeOfType
  <2>2. Image(d, w, 0) = Image(d, v, 0)
    BY <1>3, <1>4, <2>1
  <2> QED BY <2>2 DEF Image
<1>5. read = {v}
  BY <1>3, <1>4
<1>6. Unpacked(ix, f, d) = CHOOSE w \in Values \cup {"garbled"} :
                              IF read = {} THEN w = "garbled" ELSE w \in read
  BY DEF Unpacked
<1> HIDE DEF read
<1> QED BY <1>5, <1>6

(* An object whose entry and blocks are left alone is read as before.       *)
LEMMA HoldsFrame ==
    ASSUME NEW ix, NEW f, NEW iy, NEW g, NEW x, NEW v \in Values,
           Located(ix[x]), Holds(ix, f, x, v),
           iy[x] = ix[x], \A b \in Extent(ix[x]) : g[b] = f[b]
    PROVE  Holds(iy, g, x, v)
<1> DEFINE start == LogicalBlock(ix[x].offset)
<1>1. start \in Nat /\ Needed(SizeOf[v]) \in Nat
  BY LocatedStart, SizeOfType
<1>2. Extent(ix[x]) = Span(start, Needed(SizeOf[v]))
  BY DEF Extent, Holds
<1> HIDE DEF start
<1>3. \A k \in 0 .. Needed(SizeOf[v]) - 1 : start + k \in Extent(ix[x])
  BY <1>1, <1>2 DEF Span
<1> QED BY <1>3 DEF Holds, start

(* The store of a database that can be read.                                *)
LEMMA StoreValue ==
    ASSUME RInv, up \/ cleanFile, NEW d \in DOMAIN index
    PROVE  \E v \in Values : Holds(index, file, d, v) /\ StoreOf[d] = v
<1>1. PICK v \in Values : Holds(index, file, d, v)
  BY DEF RInv, Readable
<1>2. Located(index[d]) /\ d \in Dbrefs
  BY DEF RInv, IInv, IndexSound
<1>3. Unpacked(index, file, d) = v
  BY <1>1, <1>2, UnpackedHolds
<1>4. StoreOf[d] = v
  BY <1>2, <1>3 DEF StoreOf
<1> QED BY <1>1, <1>4

-----------------------------------------------------------------------------
(* db_put changes the value of its object, and of no other.                 *)
LEMMA PutReadable ==
    ASSUME RInv, up, NEW d \in Dbrefs, NEW v \in Values, NEW e, PutAt(d, v, e)
    PROVE  /\ Holds(index', file', d, v)
           /\ \A x \in DOMAIN index \ {d}, w \in Values :
                 Holds(index, file, x, w) => Holds(index', file', x, w)
           /\ DOMAIN index' = DOMAIN index \cup {d}
<1>1. /\ Located(e) /\ e.size = SizeOf[v]
      /\ \A x \in DOMAIN index \ {d} : Extent(index[x]) \cap Extent(e) = {}
      /\ index' = Indexed(d, e)
      /\ file' = Put(file, d, v, LogicalBlock(e.offset))
  BY DEF PutAt
<1>2. /\ DOMAIN index' = DOMAIN index \cup {d} /\ index'[d] = e
      /\ \A x \in DOMAIN index \ {d} : index'[x] = index[x]
  BY <1>1 DEF Indexed
<1> DEFINE start == LogicalBlock(e.offset)
<1>3. /\ start \in Nat /\ Needed(SizeOf[v]) \in Nat \ {0}
      /\ Span(start, Needed(SizeOf[v])) \subseteq Blocks
      /\ Extent(e) = Span(start, Needed(SizeOf[v]))
  BY <1>1, LocatedStart DEF Located, Extent
<1>4. \A b \in Blocks : file'[b] = IF b \in Extent(e) THEN Image(d, v, b - start)
                                                       ELSE file[b]
  BY <1>1, <1>3 DEF Put
<1>5. Holds(index', file', d, v)
  <2> HIDE DEF start
  <2>1. ASSUME NEW k \in 0 .. Needed(SizeOf[v]) - 1
        PROVE  file'[start + k] = Image(d, v, k)
    <3>1. start + k \in Extent(e) /\ start + k \in Blocks
      BY <1>3 DEF Span
    <3>2. (start + k) - start = k
      BY <1>3
    <3> QED BY <1>4, <3>1, <3>2
  <2> QED BY <1>1, <1>2, <2>1 DEF Holds, start
<1>6. ASSUME NEW x \in DOMAIN index \ {d}, NEW w \in Values, Holds(index, file, x, w)
      PROVE  Holds(index', file', x, w)
  <2>1. Located(index[x])
    BY DEF RInv, IInv, IndexSound
  <2>2. \A b \in Extent(index[x]) : b \in Blocks /\ b \notin Extent(e)
    BY <1>1, <2>1 DEF Located
  <2>3. \A b \in Extent(index[x]) : file'[b] = file[b]
    BY <1>4, <2>2
  <2> QED BY <1>2, <1>6, <2>1, <2>3, HoldsFrame
<1> QED BY <1>2, <1>5, <1>6

(* Objects other than those an action touches keep the value they have.     *)
LEMMA StoreFrame ==
    ASSUME RInv, RInv', up \/ cleanFile, (up \/ cleanFile)', NEW x \in Dbrefs,
           (x \in DOMAIN index) <=> (x \in DOMAIN index'),
           \A w \in Values : x \in DOMAIN index /\ Holds(index, file, x, w)
                                => Holds(index', file', x, w)
    PROVE  StoreOf'[x] = StoreOf[x]
<1>1. CASE x \notin DOMAIN index
  BY <1>1 DEF StoreOf
<1>2. CASE x \in DOMAIN index
  <2>1. PICK w \in Values : Holds(index, file, x, w) /\ StoreOf[x] = w
    BY <1>2, StoreValue
  <2>2. Holds(index', file', x, w) /\ Located(index'[x])
    BY <1>2, <2>1 DEF RInv, IInv, IndexSound
  <2>3. Unpacked(index', file', x) = w
    BY <2>2, UnpackedHolds
  <2> QED BY <1>2, <2>1, <2>3 DEF StoreOf
<1> QED BY <1>1, <1>2

(* What is not in a usable index is not in the store.                       *)
LEMMA StoreNothing ==
    /\ (DOMAIN index = {} \/ (~up /\ ~cleanFile)) => StoreOf = DS!Nothing
    /\ (DOMAIN index = {} \/ (~up /\ ~cleanFile))' => StoreOf' = DS!Nothing
BY DEF StoreOf, DS!Nothing

-----------------------------------------------------------------------------
(* The invariant.                                                           *)
LEMMA InitRInv == Init => RInv
<1> SUFFICES ASSUME Init PROVE RInv
  OBVIOUS
<1>1. IInv
  BY InitIInv
<1> QED BY <1>1 DEF Init, RInv

LEMMA PutRInv ==
    ASSUME RInv, NEW d \in Dbrefs, NEW v \in Values, DbPut(d, v)
    PROVE  RInv' /\ \E e : PutAt(d, v, e)
<1>1. IInv /\ IInv'
  BY NextIInv DEF RInv, Next
<1>2. PICK e : PutAt(d, v, e)
  BY <1>1, InPlaceEntry, AllocatedEntry DEF DbPut
<1>3. Readable(index, file) /\ (db_clean = cleanFile)
  BY DEF RInv, DbPut
<1>3a. up
  BY DEF DbPut
<1>4. Readable(index', file')
  <2>1. Holds(index', file', d, v) /\ DOMAIN index' = DOMAIN index \cup {d}
    BY <1>2, <1>3a, PutReadable
  <2>2. ASSUME NEW x \in DOMAIN index \ {d}
        PROVE  \E w \in Values : Holds(index', file', x, w)
    <3>1. PICK w \in Values : Holds(index, file, x, w)
      BY <1>3 DEF Readable
    <3>2. Holds(index', file', x, w)
      BY <1>2, <1>3a, <3>1, PutReadable
    <3> QED BY <3>2
  <2> QED BY <2>1, <2>2 DEF Readable
<1>5. db_clean' = FALSE /\ cleanFile' = FALSE
  BY <1>1, <1>3 DEF DbPut, DbIsDirty, IInv
<1>6. RInv'
  BY <1>1, <1>4, <1>5 DEF RInv
<1> QED BY <1>2, <1>6

(* A deleted object leaves the entries and the blocks of the others alone.  *)
LEMMA UnindexedReadable ==
    ASSUME RInv, NEW d \in DOMAIN index, index' = Unindexed(d),
           \A b \in Blocks \ Extent(index[d]) : file'[b] = file[b]
    PROVE  /\ DOMAIN index' = DOMAIN index \ {d}
           /\ \A x \in DOMAIN index', w \in Values :
                 Holds(index, file, x, w) => Holds(index', file', x, w)
<1>1. /\ DOMAIN index' = DOMAIN index \ {d}
      /\ \A x \in DOMAIN index' : index'[x] = index[x]
  BY DEF Unindexed
<1>2. ASSUME NEW x \in DOMAIN index', NEW w \in Values, Holds(index, file, x, w)
      PROVE  Holds(index', file', x, w)
  <2>1. Located(index[x]) /\ Extent(index[x]) \cap Extent(index[d]) = {}
    BY <1>1 DEF RInv, IInv, IndexSound
  <2>2. \A b \in Extent(index[x]) : file'[b] = file[b]
    BY <2>1 DEF Located
  <2> QED BY <1>1, <1>2, <2>1, <2>2, HoldsFrame
<1> QED BY <1>1, <1>2

LEMMA DelEffect ==
    ASSUME RInv, NEW d \in Dbrefs, DbDel(d) \/ CrashInDel(d)
    PROVE  /\ d \in DOMAIN index /\ DOMAIN index' = DOMAIN index \ {d}
           /\ \A x \in DOMAIN index', w \in Values :
                 Holds(index, file, x, w) => Holds(index', file', x, w)
<1>1. d \in DOMAIN index /\ index' = Unindexed(d)
  BY DEF DbDel, CrashInDel
<1>2. \A b \in Blocks \ Extent(index[d]) : file'[b] = file[b]
  <2>1. LogicalBlock(index[d].offset) \in Extent(index[d]) /\ DOMAIN file = Blocks
    BY <1>1, LocatedStart DEF RInv, IInv, IndexSound
  <2> QED BY <2>1 DEF DbDel, CrashInDel
<1> QED BY <1>1, <1>2, UnindexedReadable

LEMMA NextRInv == RInv /\ [Next]_vars => RInv'
<1> SUFFICES ASSUME RInv, [Next]_vars PROVE RInv'
  OBVIOUS
<1>1. IInv /\ IInv'
  BY NextIInv DEF RInv
<1>2. CASE InitDb
  <2>1. Readable(index', file')
    BY <1>2 DEF InitDb, RInv, Readable
  <2> QED BY <1>1, <1>2, <2>1 DEF InitDb, RInv
<1>3. CASE DbFlush
  BY <1>1, <1>3 DEF DbFlush, DbIsClean, RInv, IInv, Readable, Holds
<1>4. CASE DbClose \/ Crash \/ CrashInPut
  BY <1>1, <1>4 DEF DbClose, Crash, CrashInPut, Forget, RInv, Readable, Holds, disk
<1>5. ASSUME NEW d \in Dbrefs, DbDel(d) \/ CrashInDel(d)
      PROVE  RInv'
  <2>1. up
    BY <1>5 DEF DbDel, CrashInDel
  <2>2. Readable(index', file')
    BY <1>5, <2>1, DelEffect DEF RInv, Readable
  <2> QED BY <1>1, <1>5, <2>1, <2>2 DEF DbDel, CrashInDel, DbIsDirty, Forget, RInv, IInv
<1>6. ASSUME NEW d \in Dbrefs, NEW v \in Values, DbPut(d, v)
      PROVE  RInv'
  BY <1>6, PutRInv
<1>7. CASE UNCHANGED vars
  BY <1>1, <1>7 DEF vars, disk, memory, RInv, Readable, Holds
<1> QED BY <1>2, <1>3, <1>4, <1>5, <1>6, <1>7 DEF Next

LEMMA SpecRInv == Spec => []RInv
BY InitRInv, NextRInv, PTL DEF Spec

-----------------------------------------------------------------------------
(* Each step, seen through StoreOf.                                         *)
LEMMA StoreIsFunction ==
    /\ DOMAIN StoreOf = Dbrefs /\ StoreOf = [x \in Dbrefs |-> StoreOf[x]]
    /\ DOMAIN StoreOf' = Dbrefs /\ StoreOf' = [x \in Dbrefs |-> StoreOf'[x]]
BY DEF StoreOf

(* Index and file untouched, and believed before and after.                 *)
LEMMA StoreKept ==
    ASSUME RInv, RInv', up \/ cleanFile, (up \/ cleanFile)',
           UNCHANGED <<index, file>>
    PROVE  StoreOf' = StoreOf
<1>1. ASSUME NEW x \in Dbrefs
      PROVE  StoreOf'[x] = StoreOf[x]
  <2>1. \A w \in Values : Holds(index, file, x, w) => Holds(index', file', x, w)
    OBVIOUS
  <2> QED BY <2>1, StoreFrame
<1> QED BY <1>1, StoreIsFunction

LEMMA InitRefines == Init => DS!Init
<1> SUFFICES ASSUME Init PROVE DS!Init
  OBVIOUS
<1>1. StoreOf = DS!Nothing
  BY StoreNothing DEF Init
<1> QED BY <1>1 DEF Init, DS!Init

LEMMA PutRefines ==
    ASSUME RInv, NEW d \in Dbrefs, NEW v \in Values, DbPut(d, v)
    PROVE  DS!Put(d, v)
<1>1. RInv' /\ \E e : PutAt(d, v, e)
  BY PutRInv
<1>2. PICK e : PutAt(d, v, e)
  BY <1>1
<1>3. up /\ up' = up
  BY DEF DbPut
<1>4. cleanFile' = FALSE
  BY <1>3 DEF RInv, IInv, DbPut, DbIsDirty
<1>5. /\ Holds(index', file', d, v)
      /\ \A x \in DOMAIN index \ {d}, w \in Values :
            Holds(index, file, x, w) => Holds(index', file', x, w)
      /\ DOMAIN index' = DOMAIN index \cup {d}
  BY <1>2, <1>3, PutReadable
<1>6. StoreOf'[d] = v
  <2>1. Located(index'[d])
    BY <1>1, <1>5 DEF RInv, IInv, IndexSound
  <2>2. Unpacked(index', file', d) = v
    BY <1>5, <2>1, UnpackedHolds
  <2> QED BY <1>3, <1>5, <2>2 DEF StoreOf
<1>7. ASSUME NEW x \in Dbrefs, x # d
      PROVE  StoreOf'[x] = StoreOf[x]
  BY <1>1, <1>3, <1>5, <1>7, StoreFrame
<1>8. StoreOf' = [StoreOf EXCEPT ![d] = v]
  BY <1>6, <1>7, StoreIsFunction
<1> QED BY <1>3, <1>4, <1>8 DEF DS!Put

(* db_del removes its object from the store, and no other.                  *)
LEMMA DelStore ==
    ASSUME RInv, RInv', NEW d \in Dbrefs, DbDel(d) \/ CrashInDel(d),
           (up \/ cleanFile)'
    PROVE  StoreOf[d] # NoObj /\ StoreOf' = [StoreOf EXCEPT ![d] = NoObj]
<1>1. up
  BY DEF DbDel, CrashInDel
<1>2. /\ d \in DOMAIN index /\ DOMAIN index' = DOMAIN index \ {d}
      /\ \A x \in DOMAIN index', w \in Values :
            Holds(index, file, x, w) => Holds(index', file', x, w)
  BY DelEffect
<1>3. StoreOf[d] # NoObj
  BY <1>1, <1>2, StoreValue, DbAssumption
<1>4. StoreOf'[d] = NoObj
  BY <1>2 DEF StoreOf
<1>5. ASSUME NEW x \in Dbrefs, x # d
      PROVE  StoreOf'[x] = StoreOf[x]
  BY <1>1, <1>2, <1>5, StoreFrame
<1>6. StoreOf' = [StoreOf EXCEPT ![d] = NoObj]
  BY <1>4, <1>5, StoreIsFunction
<1> QED BY <1>3, <1>6

LEMMA DelRefines ==
    ASSUME RInv, RInv', NEW d \in Dbrefs, DbDel(d)
    PROVE  DS!Del(d)
<1>1. up /\ up' = up
  BY DEF DbDel
<1>2. cleanFile' = FALSE
  BY <1>1 DEF RInv, IInv, DbDel, DbIsDirty
<1>3. StoreOf[d] # NoObj /\ StoreOf' = [StoreOf EXCEPT ![d] = NoObj]
  BY <1>1, DelStore
<1> QED BY <1>1, <1>2, <1>3 DEF DS!Del

LEMMA CrashInDelRefines ==
    ASSUME RInv, RInv', NEW d \in Dbrefs, CrashInDel(d)
    PROVE  DS!CrashInDel(d)
<1>1. up /\ up' = FALSE /\ cleanFile' = cleanFile /\ d \in DOMAIN index
  BY DEF CrashInDel, Forget
<1>2. StoreOf[d] # NoObj
  BY <1>1, StoreValue, DbAssumption
<1>3. CASE cleanFile
  <2>1. StoreOf' = [StoreOf EXCEPT ![d] = NoObj]
    BY <1>1, <1>3, DelStore
  <2> QED BY <1>1, <1>2, <1>3, <2>1 DEF DS!CrashInDel
<1>4. CASE ~cleanFile
  <2>1. StoreOf' = DS!Nothing
    BY <1>1, <1>4, StoreNothing
  <2> QED BY <1>1, <1>2, <1>4, <2>1 DEF DS!CrashInDel
<1> QED BY <1>3, <1>4

LEMMA InitDbRefines ==
    ASSUME RInv, RInv', InitDb
    PROVE  DS!Start
<1>1. ~up /\ up' = TRUE /\ cleanFile' = TRUE
  BY DEF InitDb
<1>2. CASE cleanFile
  <2>1. UNCHANGED <<index, file>>
    BY <1>2 DEF InitDb
  <2>2. StoreOf' = StoreOf
    BY <1>1, <1>2, <2>1, StoreKept
  <2> QED BY <1>1, <1>2, <2>2 DEF DS!Start
<1>3. CASE ~cleanFile
  <2>1. DOMAIN index' = {}
    BY <1>3 DEF InitDb
  <2>2. StoreOf' = DS!Nothing
    BY <2>1, StoreNothing
  <2> QED BY <1>1, <1>3, <2>2 DEF DS!Start
<1> QED BY <1>2, <1>3

LEMMA FlushRefines == ASSUME RInv, RInv', DbFlush PROVE DS!Flush
<1>1. up /\ up' = up /\ UNCHANGED <<index, file>>
  BY DEF DbFlush
<1>2. cleanFile' = TRUE
  BY <1>1 DEF DbFlush, DbIsClean, RInv, IInv
<1>3. StoreOf' = StoreOf
  BY <1>1, StoreKept
<1> QED BY <1>1, <1>2, <1>3 DEF DS!Flush

LEMMA CloseRefines == ASSUME RInv, RInv', DbClose PROVE DS!Close
<1>1. up /\ up' = FALSE /\ UNCHANGED <<index, file>>
  BY DEF DbClose, Forget
<1>2. cleanFile' = TRUE
  BY <1>1 DEF DbClose, RInv, IInv
<1>3. StoreOf' = StoreOf
  BY <1>1, <1>2, StoreKept
<1> QED BY <1>1, <1>2, <1>3 DEF DS!Close

LEMMA CrashRefines == ASSUME RInv, RInv', Crash PROVE DS!Crash
<1>1. up /\ up' = FALSE /\ cleanFile' = cleanFile /\ UNCHANGED <<index, file>>
  BY DEF Crash, Forget, disk
<1>2. CASE cleanFile
  <2>1. StoreOf' = StoreOf
    BY <1>1, <1>2, StoreKept
  <2> QED BY <1>1, <1>2, <2>1 DEF DS!Crash
<1>3. CASE ~cleanFile
  <2>1. StoreOf' = DS!Nothing
    BY <1>1, <1>3, StoreNothing
  <2> QED BY <1>1, <1>3, <2>1 DEF DS!Crash
<1> QED BY <1>2, <1>3

LEMMA CrashInPutRefines == ASSUME CrashInPut PROVE DS!CrashInPut
<1>1. up /\ up' = FALSE /\ cleanFile' = FALSE
  BY DEF CrashInPut, Forget
<1>2. StoreOf' = DS!Nothing
  BY <1>1, StoreNothing
<1> QED BY <1>1, <1>2 DEF DS!CrashInPut

LEMMA StutterRefines == ASSUME UNCHANGED vars PROVE UNCHANGED DS!diskVars
<1>1. up' = up /\ cleanFile' = cleanFile /\ index' = index /\ file' = file
  BY DEF vars, disk
<1>2. StoreOf' = StoreOf
  BY <1>1 DEF StoreOf, Unpacked
<1> QED BY <1>1, <1>2 DEF DS!diskVars

LEMMA StepRefines ==
    RInv /\ RInv' /\ [Next]_vars => [DS!Next]_DS!diskVars
<1> SUFFICES ASSUME RInv, RInv', [Next]_vars PROVE DS!Next \/ UNCHANGED DS!diskVars
  OBVIOUS
<1>1. CASE InitDb
  BY <1>1, InitDbRefines DEF DS!Next
<1>2. CASE DbFlush
  BY <1>2, FlushRefines DEF DS!Next
<1>3. CASE DbClose
  BY <1>3, CloseRefines DEF DS!Next
<1>4. CASE Crash
  BY <1>4, CrashRefines DEF DS!Next
<1>5. CASE CrashInPut
  BY <1>5, CrashInPutRefines DEF DS!Next
<1>6. ASSUME NEW d \in Dbrefs, DbDel(d)
      PROVE  DS!Next
  BY <1>6, DelRefines DEF DS!Next
<1>7. ASSUME NEW d \in Dbrefs, CrashInDel(d)
      PROVE  DS!Next
  BY <1>7, CrashInDelRefines DEF DS!Next
<1>8. ASSUME NEW d \in Dbrefs, NEW v \in Values, DbPut(d, v)
      PROVE  DS!Next
  BY <1>8, PutRefines DEF DS!Next
<1>9. CASE UNCHANGED vars
  BY <1>9, StutterRefines
<1> QED BY <1>1, <1>2, <1>3, <1>4, <1>5, <1>6, <1>7, <1>8, <1>9 DEF Next

(* db.c implements the map: whatever is stored, outgrown, deleted, flushed  *)
(* or crashed, for every block size and every set of objects and images,    *)
(* a read returns what the last db_put wrote, and a restart keeps all of it *)
(* if binary/clean vouches for it (less one object, if the process died     *)
(* inside its db_del) and otherwise nothing.                                *)
THEOREM ImplementsDiskStore == Spec => DiskStoreSpec
<1>1. Init => DS!Init
  BY InitRefines
<1>2. RInv /\ RInv' /\ [Next]_vars => [DS!Next]_DS!diskVars
  BY StepRefines
<1> QED BY <1>1, <1>2, SpecRInv, PTL DEF Spec, DiskStoreSpec, DS!Spec
=============================================================================
