------------------------------- MODULE Memory --------------------------------
(* The allocators of memory.c over malloc: trays of small pieces of one size *)
(* each (tmalloc, tfree) and a pile whose pieces are freed together          *)
(* (pmalloc, pfree). Sizes are in words, of which a Tlist and an Align       *)
(* are one each.                                                             *)
EXTENDS Integers, FiniteSets, SequencesExt

CONSTANTS NumTrays,         \* NUM_TRAYS (4)
          TrayElem,         \* TRAY_ELEM (508)
          PileBlockSize,    \* PILE_BLOCK_SIZE (254)
          MaxPileBlocks,    \* MAX_PILE_BLOCKS (8)
          MaxRegions,       \* bound: regions that malloc has given at a time
          MaxPieces,        \* bound: pieces in use when another is asked for
          MaxWords          \* bound: size of a request

OversizedWords == 2     \* sizeof(Oversized), from a tray

ASSUME MemoryAssumption ==
    /\ {NumTrays, TrayElem, PileBlockSize, MaxPileBlocks, MaxRegions,
        MaxPieces, MaxWords} \subseteq Nat \ {0}
    /\ OversizedWords <= NumTrays /\ NumTrays <= TrayElem

VARIABLES regions,  \* the size of each region that malloc has given
          trays,    \* the free elements of each tray, first to last
          blocks,   \* the blocks of the pile, first to last: [at, pos]
          over,     \* its oversized blocks: [at, node]
          live      \* history: pieces in use [at, off, words, pile]

memoryVars == <<regions, trays, blocks, over, live>>

MaxUseTray == NumTrays
Trays == 0 .. NumTrays - 1
Piece(at, off, words, pile) == [at |-> at, off |-> off, words |-> words, pile |-> pile]

Unmapped(given) == (1 .. MaxRegions) \ DOMAIN given
emalloc(given, words) ==
    LET at == Min(Unmapped(given)) IN
    [at |-> at, regions |-> [r \in DOMAIN given \cup {at} |-> IF r = at THEN words ELSE given[r]]]
free(given, ats) == [r \in DOMAIN given \ ats |-> given[r]]

Bug_NewTray(at, n) ==
    [i \in 1 .. TrayElem \div n + 1 |-> Piece(at, (i - 1) * n, n, FALSE)]
NewTray(at, n) == [i \in 1 .. TrayElem \div n |-> Piece(at, (i - 1) * n, n, FALSE)]

tmalloc(given, free_lists, words) ==
    IF words > MaxUseTray
    THEN LET new == emalloc(given, words)
         IN  [regions |-> new.regions, trays |-> free_lists, piece |-> Piece(new.at, 0, words, FALSE)]
    ELSE LET t == words - 1
             new == emalloc(given, TrayElem)
             list == IF free_lists[t] = <<>> THEN NewTray(new.at, words) ELSE free_lists[t]
         IN  [regions |-> IF free_lists[t] = <<>> THEN new.regions ELSE given,
              trays |-> [free_lists EXCEPT ![t] = Tail(list)], piece |-> Head(list)]
NeedsRegion(words) == words > MaxUseTray \/ trays[words - 1] = <<>>

tfree(free_lists, piece) == [free_lists EXCEPT ![piece.words - 1] = <<piece>> \o @]
------------------------------------------------------------------------------
MemoryInit ==   \* after new_pile
    /\ regions = [r \in {1} |-> PileBlockSize]
    /\ trays = [t \in Trays |-> <<>>]
    /\ blocks = <<[at |-> 1, pos |-> 0]>>
    /\ over = <<>>
    /\ live = {}

Tmalloc(words) ==
    /\ NeedsRegion(words) => Unmapped(regions) # {}
    /\ LET got == tmalloc(regions, trays, words) IN
        /\ regions' = got.regions
        /\ trays' = got.trays
        /\ live' = live \cup {got.piece}
    /\ UNCHANGED <<blocks, over>>

Tfree(piece) ==
    /\ ~piece.pile /\ \A i \in DOMAIN over : over[i].node # piece
    /\ live' = live \ {piece}
    /\ IF piece.words > MaxUseTray
       THEN regions' = free(regions, {piece.at}) /\ UNCHANGED trays
       ELSE trays' = tfree(trays, piece) /\ UNCHANGED regions
    /\ UNCHANGED <<blocks, over>>

Oversized(words) ==
    /\ words > PileBlockSize
    /\ Cardinality(Unmapped(regions)) >= 2
    /\ LET node == tmalloc(regions, trays, OversizedWords)
           new == emalloc(node.regions, words)
       IN  /\ regions' = new.regions
           /\ trays' = node.trays
           /\ over' = <<[at |-> new.at, node |-> node.piece]>> \o over
           /\ live' = live \cup {node.piece, Piece(new.at, 0, words, TRUE)}
    /\ UNCHANGED blocks

Bug_Fits(words) == {i \in DOMAIN blocks : blocks[i].pos + words <= PileBlockSize + 1}
Fits(words) == {i \in DOMAIN blocks : blocks[i].pos + words <= PileBlockSize}

InABlock(words) ==
    /\ words <= PileBlockSize /\ Fits(words) # {}
    /\ LET i == Min(Fits(words)) IN
        /\ blocks' = [blocks EXCEPT ![i].pos = @ + words]
        /\ live' = live \cup {Piece(blocks[i].at, blocks[i].pos, words, TRUE)}
    /\ UNCHANGED <<regions, trays, over>>

InANewBlock(words) ==
    /\ words <= PileBlockSize /\ Fits(words) = {} /\ Unmapped(regions) # {}
    /\ LET new == emalloc(regions, PileBlockSize) IN
        /\ regions' = new.regions
        /\ blocks' = <<[at |-> new.at, pos |-> words]>> \o blocks
        /\ live' = live \cup {Piece(new.at, 0, words, TRUE)}
    /\ UNCHANGED <<trays, over>>

Pmalloc(words) == Oversized(words) \/ InABlock(words) \/ InANewBlock(words)

NodesFreed ==   \* TFREE of each Oversized, from the first
    [trays EXCEPT ![OversizedWords - 1] = Reverse([i \in DOMAIN over |-> over[i].node]) \o @]
KeptBlocks == SubSeq(blocks, 1, Min({MaxPileBlocks, Len(blocks)}))
GoneBlocks == SubSeq(blocks, MaxPileBlocks + 1, Len(blocks))

Pfree ==
    /\ regions' = free(regions, {over[i].at : i \in DOMAIN over}
                                \cup {GoneBlocks[i].at : i \in DOMAIN GoneBlocks})
    /\ trays' = NodesFreed
    /\ over' = <<>>
    /\ blocks' = [i \in DOMAIN KeptBlocks |-> [KeptBlocks[i] EXCEPT !.pos = 0]]
    /\ live' = {p \in live : ~p.pile /\ \A i \in DOMAIN over : over[i].node # p}

MemoryNext ==
    \/ Pfree
    \/ /\ Cardinality(live) < MaxPieces
       /\ \E words \in 1 .. MaxWords : Tmalloc(words) \/ Pmalloc(words)
    \/ \E piece \in live : Tfree(piece)

MemorySpec == MemoryInit /\ [][MemoryNext]_memoryVars
------------------------------------------------------------------------------
Inside(p) == p.at \in DOMAIN regions /\ p.off + p.words <= regions[p.at]
Words(p) == {<<p.at, w>> : w \in p.off .. p.off + p.words - 1}
FreePieces == UNION {ToSet(trays[t]) : t \in Trays}

(* Two pieces in use share no word, whatever was allocated and freed and by  *)
(* which allocator; each lies in a region that malloc gave and has not had   *)
(* back; and none is on a tray's list of free elements, nor anything twice.  *)
MemoryApart ==
    /\ \A p \in live \cup FreePieces : Inside(p)
    /\ \A p, q \in live \cup FreePieces : p # q => Words(p) \cap Words(q) = {}
    /\ live \cap FreePieces = {}
    /\ \A t \in Trays : IsInjective(trays[t]) /\ \A p \in ToSet(trays[t]) : p.words = t + 1
==============================================================================
