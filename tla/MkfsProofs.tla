----------------------------- MODULE MkfsProofs -----------------------------
(***************************************************************************)
(* Theorems about Mkfs.  The arithmetic comes first: what the counts of    *)
(* the superblock are, as a function of the size, as long as they fit in   *)
(* their 32 bits (CountsFit).  The invariant then follows the offset       *)
(* through the sections; what it says of the order of the writes and of    *)
(* the block numbers holds of larger images as well.                       *)
(***************************************************************************)
EXTENDS Mkfs, TLAPS

-----------------------------------------------------------------------------
(* The counts.                                                             *)

\* idiv_ceil(a, b) is the least number of b's that make a, here for the two
\* divisors of the code.
LEMMA CeilBlock ==
  ASSUME NEW a \in Nat
  PROVE  LET q == idiv_ceil(a, InodesPerBlock) IN
           /\ q \in Nat
           /\ a <= q * InodesPerBlock
           /\ q * InodesPerBlock < a + InodesPerBlock
           /\ a % InodesPerBlock = 0 => a = q * InodesPerBlock
BY DEF idiv_ceil, InodesPerBlock

LEMMA CeilBits ==
  ASSUME NEW a \in Nat
  PROVE  LET q == idiv_ceil(a, BitsPerBlock) IN
           /\ q \in Nat
           /\ a <= q * BitsPerBlock
           /\ q * BitsPerBlock < a + BitsPerBlock
BY DEF idiv_ceil, BitsPerBlock

\* A uint32_t holds a natural number, and holds it unchanged if it is small.
LEMMA Narrow ==
  ASSUME NEW n \in Int
  PROVE  Uint32(n) \in 0 .. Wide - 1 /\ (n \in 0 .. Wide - 1 => Uint32(n) = n)
BY WideAssumption DEF Uint32, InodesPerBlock

\* Whatever the size, the counts are natural numbers and the first data block is
\* no further than the counts of the superblock say.
LEMMA Types ==
  ASSUME size \in Nat
  PROVE  /\ nr_blocks \in Nat /\ nr_inodes \in Nat
         /\ nr_inodes < nr_blocks + InodesPerBlock
         /\ nr_istore_blocks \in Nat /\ nr_ifree_blocks \in Nat
         /\ nr_bfree_blocks \in Nat
         /\ FirstDataBlock \in Nat \ {0}
         /\ nr_blocks <= FitBound => FirstDataBlock + 3 <= BitsPerBlock
<1>1. nr_blocks \in Nat
  BY Narrow DEF nr_blocks
<1>2. nr_inodes \in Nat /\ nr_inodes < nr_blocks + InodesPerBlock
  <2> DEFINE n == nr_blocks + (nr_blocks % InodesPerBlock)
  <2>1. n \in Nat /\ n < nr_blocks + InodesPerBlock
    BY <1>1 DEF InodesPerBlock
  <2> HIDE DEF n
  <2>2. Uint32(n) \in Nat /\ Uint32(n) <= n
    BY <2>1, WideAssumption DEF Uint32, InodesPerBlock
  <2>3. nr_inodes = Uint32(n)
    BY DEF nr_inodes, n
  <2> QED
    BY <1>1, <2>1, <2>2, <2>3 DEF InodesPerBlock
<1>3. /\ nr_istore_blocks \in Nat
      /\ nr_istore_blocks * InodesPerBlock < nr_inodes + InodesPerBlock
  BY <1>2, CeilBlock DEF nr_istore_blocks
<1>4. /\ nr_ifree_blocks \in Nat
      /\ nr_ifree_blocks * BitsPerBlock < nr_inodes + BitsPerBlock
  BY <1>2, CeilBits DEF nr_ifree_blocks
<1>5. /\ nr_bfree_blocks \in Nat
      /\ nr_bfree_blocks * BitsPerBlock < nr_blocks + BitsPerBlock
  BY <1>1, CeilBits DEF nr_bfree_blocks
<1>6. FirstDataBlock \in Nat \ {0}
  BY <1>3, <1>4, <1>5 DEF FirstDataBlock
<1>7. nr_blocks <= FitBound => FirstDataBlock + 3 <= BitsPerBlock
  BY <1>1, <1>2, <1>3, <1>4, <1>5
     DEF FirstDataBlock, FitBound, InodesPerBlock, BitsPerBlock
<1> QED
  BY <1>1, <1>2, <1>3, <1>4, <1>5, <1>6, <1>7

\* The inodes are at least as many as the blocks, and fewer than one block of
\* inodes more.
LEMMA InodeCount ==
  ASSUME size \in Nat, CountsFit
  PROVE  /\ nr_blocks = size
         /\ nr_inodes \in Nat
         /\ nr_blocks <= nr_inodes
         /\ nr_inodes < nr_blocks + InodesPerBlock
<1>1. size % InodesPerBlock \in 0 .. InodesPerBlock - 1
  BY DEF InodesPerBlock
<1>2. nr_blocks = size
  BY <1>1, Narrow, WideAssumption DEF nr_blocks, CountsFit, InodesPerBlock
<1>3. nr_inodes = size + (size % InodesPerBlock)
  BY <1>1, <1>2, Narrow, WideAssumption DEF nr_inodes, CountsFit, InodesPerBlock
<1> QED
  BY <1>1, <1>2, <1>3 DEF InodesPerBlock

Aligned == nr_inodes % InodesPerBlock = 0

\* What main's size check gives the functions after it: each section has a block
\* at least, room for what it holds, and the sections leave free blocks.
LEMMA Counts ==
  ASSUME size \in Nat, CountsFit, size >= MinBlocks
  PROVE  /\ nr_blocks = size
         /\ nr_inodes \in Nat /\ nr_blocks <= nr_inodes
         /\ nr_istore_blocks \in Nat \ {0} /\ nr_ifree_blocks \in Nat \ {0}
         /\ nr_bfree_blocks \in Nat \ {0}
         /\ nr_inodes <= nr_istore_blocks * InodesPerBlock
         /\ Aligned => nr_inodes = nr_istore_blocks * InodesPerBlock
         /\ nr_inodes <= nr_ifree_blocks * BitsPerBlock
         /\ nr_blocks <= nr_bfree_blocks * BitsPerBlock
         /\ FirstDataBlock \in Nat
         /\ nr_free_blocks = nr_blocks - FirstDataBlock - 3
         /\ nr_free_blocks > 0
<1>1. nr_inodes \in Nat /\ nr_blocks <= nr_inodes /\ nr_blocks = size
      /\ nr_inodes < nr_blocks + InodesPerBlock
  BY InodeCount
<1>2. /\ nr_istore_blocks \in Nat
      /\ nr_inodes <= nr_istore_blocks * InodesPerBlock
      /\ nr_istore_blocks * InodesPerBlock < nr_inodes + InodesPerBlock
      /\ Aligned => nr_inodes = nr_istore_blocks * InodesPerBlock
  BY <1>1, CeilBlock DEF nr_istore_blocks, Aligned
<1>3. /\ nr_ifree_blocks \in Nat
      /\ nr_inodes <= nr_ifree_blocks * BitsPerBlock
      /\ nr_ifree_blocks * BitsPerBlock < nr_inodes + BitsPerBlock
  BY <1>1, CeilBits DEF nr_ifree_blocks
<1>4. /\ nr_bfree_blocks \in Nat
      /\ nr_blocks <= nr_bfree_blocks * BitsPerBlock
      /\ nr_bfree_blocks * BitsPerBlock < nr_blocks + BitsPerBlock
  BY <1>1, CeilBits DEF nr_bfree_blocks
<1>5. nr_istore_blocks # 0 /\ nr_ifree_blocks # 0 /\ nr_bfree_blocks # 0
  BY <1>1, <1>2, <1>3, <1>4 DEF MinBlocks, InodesPerBlock, BitsPerBlock
<1>6. nr_blocks - FirstDataBlock - 3 > 0 /\ FirstDataBlock \in Nat
  BY <1>1, <1>2, <1>3, <1>4
     DEF FirstDataBlock, MinBlocks, InodesPerBlock, BitsPerBlock
<1>7. nr_data_blocks = nr_blocks - FirstDataBlock
  <2> DEFINE n == nr_blocks - 1 - nr_istore_blocks - nr_ifree_blocks
                            - nr_bfree_blocks
  <2>1. n = nr_blocks - FirstDataBlock /\ n \in Int /\ n > 0 /\ n <= size
    BY <1>1, <1>2, <1>3, <1>4, <1>6 DEF FirstDataBlock
  <2>2. size < Wide
    BY WideAssumption DEF CountsFit, InodesPerBlock
  <2>3. nr_data_blocks = Uint32(n)
    BY DEF nr_data_blocks
  <2> HIDE DEF n
  <2> QED
    BY <2>1, <2>2, <2>3, Narrow, WideAssumption
<1>8. nr_free_blocks = nr_blocks - FirstDataBlock - 3
  <2> DEFINE n == nr_data_blocks - 3
  <2>1. n = nr_blocks - FirstDataBlock - 3 /\ n \in Int /\ n > 0 /\ n <= size
    BY <1>1, <1>6, <1>7
  <2>2. size < Wide
    BY WideAssumption DEF CountsFit, InodesPerBlock
  <2>3. nr_free_blocks = Uint32(n)
    BY DEF nr_free_blocks
  <2> HIDE DEF n
  <2> QED
    BY <2>1, <2>2, <2>3, Narrow, WideAssumption
<1> QED
  BY <1>1, <1>2, <1>3, <1>4, <1>5, <1>6, <1>8

\* The counts only depend on the size of the image.
LEMMA CountsKept ==
  ASSUME UNCHANGED size
  PROVE  UNCHANGED <<nr_blocks, nr_inodes, nr_istore_blocks, nr_ifree_blocks,
                     nr_bfree_blocks, nr_free_blocks, FirstDataBlock,
                     CountsFit, Aligned>>
BY DEF nr_blocks, Uint32, CountsFit, Aligned, nr_inodes, nr_istore_blocks, nr_ifree_blocks, nr_bfree_blocks,
       nr_data_blocks, nr_free_blocks, FirstDataBlock, idiv_ceil

\* ... and so do the places of the sections.
LEMMA PlacesKept ==
  ASSUME UNCHANGED size
  PROVE  UNCHANGED <<Place, UsedBlocks>>
BY CountsKept DEF Place, UsedBlocks

-----------------------------------------------------------------------------
(* The invariant.                                                          *)

\* main accepted the size before anything was written
SizeInv == Accepted => size >= MinBlocks

\* The offset is where the section that comes next belongs, or before it when
\* the inode store ended early or the block bitmap was cut short.
PosInv ==
  /\ pc = "check" => pos = 0
  /\ pc \in Sections /\ CountsFit =>
       /\ pos <= Place[pc] * InodesPerBlock
       /\ Aligned /\ "bfree" \notin short => pos = Place[pc] * InodesPerBlock

\* The sections are written in order; the block bitmap is the only one that main
\* may go on without.
OrderInv ==
  /\ pc \in {"check"} \cup Sections => ret = "success"
  /\ pc \notin {"check", "sb", "done"} => at["sb"] # Unwritten
  /\ pc \notin {"check", "sb", "istore", "done"} => at["istore"] # Unwritten
  /\ pc \in {"bfree", "root", "foo_index", "foo"} => at["ifree"] # Unwritten
  /\ pc \in {"root", "foo_index", "foo"} =>
       at["bfree"] # Unwritten \/ nr_bfree_blocks > 1
  /\ pc = "foo" => at["foo_index"] # Unwritten
  /\ at["root"] # Unwritten => at["istore"] # Unwritten
  /\ at["foo_index"] # Unwritten => at["istore"] # Unwritten
  /\ at["foo"] # Unwritten => at["foo_index"] # Unwritten

\* the block numbers in the inodes and in foo's index block
IndexInv ==
  /\ at["istore"] # Unwritten => /\ index["root"] = FirstDataBlock
                                 /\ index["foo"] = FirstDataBlock + 1
  /\ at["foo_index"] # Unwritten => index["foo_data"] = FirstDataBlock + 2

IInv == /\ TypeOK /\ SizeInv /\ PosInv /\ OrderInv /\ IndexInv
        /\ StaysInImage /\ SectionsInPlace /\ BitmapMatchesCount
        /\ UsedBlocksFit /\ SuccessIsComplete

LEMMA InitIInv == Init => IInv
<1> SUFFICES ASSUME Init PROVE IInv
  OBVIOUS
<1>1. TypeOK
  BY SizesAssumption DEF Init, TypeOK, Sections, Unwritten
<1>2. PosInv /\ OrderInv /\ IndexInv
  BY DEF Init, PosInv, OrderInv, IndexInv, Sections, Unwritten
<1>3. SizeInv /\ StaysInImage /\ SectionsInPlace
  BY <1>1, SizesAssumption
     DEF Init, SizeInv, Accepted, StaysInImage, SectionsInPlace, InPlace,
         Sections, Unwritten, InodesPerBlock
<1>4. BitmapMatchesCount /\ UsedBlocksFit /\ SuccessIsComplete
  BY DEF Init, BitmapMatchesCount, UsedBlocksFit, SuccessIsComplete, Sections,
         Unwritten
<1> QED
  BY <1>1, <1>2, <1>3, <1>4 DEF IInv

-----------------------------------------------------------------------------
(* Its preservation, one lemma for each function of mkfs.                  *)

\* main's check lets only the images that are large enough go on.
LEMMA CheckStep == IInv /\ Check => IInv'
<1> SUFFICES ASSUME IInv, Check PROVE IInv'
  OBVIOUS
<1>1. TypeOK /\ pc = "check" /\ ret = "success" /\ pos = 0
  BY DEF IInv, PosInv, OrderInv, Check
<1>2. size \in Nat
  BY <1>1, SizesAssumption DEF TypeOK
<1>3. UNCHANGED <<nr_blocks, nr_inodes, nr_istore_blocks, nr_ifree_blocks,
                  nr_bfree_blocks, nr_free_blocks, FirstDataBlock, Place,
                  UsedBlocks, CountsFit, Aligned>>
  BY CountsKept, PlacesKept DEF Check
<1>4. CASE TooSmall
  <2>1. UNCHANGED <<size, rest, pos, at, used, index, overrun, short>>
        /\ pc' = "done" /\ ret' = "failure"
    BY <1>4 DEF Check, Fail, ExitFailure
  <2>2. TypeOK' /\ SizeInv' /\ StaysInImage'
    BY <1>1, <1>3, <2>1
       DEF IInv, TypeOK, SizeInv, Accepted, StaysInImage, Sections
  <2>3. PosInv' /\ OrderInv' /\ IndexInv'
    BY <1>1, <1>3, <2>1 DEF IInv, PosInv, OrderInv, IndexInv, Sections
  <2>4. SectionsInPlace' /\ BitmapMatchesCount' /\ UsedBlocksFit'
    BY <1>1, <1>3, <2>1
       DEF IInv, SectionsInPlace, InPlace, BitmapMatchesCount, UsedBlocksFit
  <2>5. SuccessIsComplete'
    BY <2>1 DEF SuccessIsComplete
  <2> QED
    BY <2>2, <2>3, <2>4, <2>5 DEF IInv
<1>5. CASE ~TooSmall
  <2>1. UNCHANGED <<size, rest, pos, at, used, index, overrun, short>>
        /\ pc' = "sb" /\ ret' = "success"
    BY <1>1, <1>5 DEF Check, Goto
  <2>2. TypeOK' /\ SizeInv' /\ StaysInImage'
    BY <1>1, <1>2, <1>3, <1>5, <2>1
       DEF IInv, TypeOK, SizeInv, StaysInImage, Sections, TooSmall, MinBlocks
  <2>3. PosInv' /\ OrderInv' /\ IndexInv'
    BY <1>1, <1>3, <2>1
       DEF IInv, PosInv, OrderInv, IndexInv, Sections, Place, InodesPerBlock
  <2>4. SectionsInPlace' /\ BitmapMatchesCount' /\ UsedBlocksFit'
    BY <1>1, <1>3, <2>1
       DEF IInv, SectionsInPlace, InPlace, BitmapMatchesCount, UsedBlocksFit
  <2>5. SuccessIsComplete'
    BY <2>1 DEF SuccessIsComplete
  <2> QED
    BY <2>2, <2>3, <2>4, <2>5 DEF IInv
<1> QED
  BY <1>4, <1>5

\* What every function that writes can count on: lengths that are not 0, and, when
\* the counts fit, sections that have room and end inside the image.
LEMMA Writing ==
  ASSUME IInv, pc \in Sections
  PROVE  /\ size \in Nat /\ size >= MinBlocks /\ nr_blocks \in Nat
         /\ nr_inodes \in Nat
         /\ nr_istore_blocks \in Nat /\ nr_ifree_blocks \in Nat
         /\ nr_bfree_blocks \in Nat
         /\ FirstDataBlock \in Nat \ {0}
         /\ FirstDataBlock = 1 + nr_istore_blocks + nr_ifree_blocks
                               + nr_bfree_blocks
         /\ InodeStoreLength \in Nat \ {0}
         /\ AtLeast(1, nr_ifree_blocks) \in Nat \ {0}
         /\ AtLeast(1, nr_bfree_blocks) \in Nat \ {0}
         /\ CountsFit =>
              /\ nr_inodes # 0
              /\ nr_istore_blocks # 0 /\ nr_ifree_blocks # 0
              /\ nr_bfree_blocks # 0
              /\ nr_inodes <= nr_istore_blocks * InodesPerBlock
              /\ Aligned => nr_inodes = nr_istore_blocks * InodesPerBlock
              /\ FirstDataBlock + 3 < size
              /\ InodeStoreLength = nr_inodes
              /\ AtLeast(1, nr_ifree_blocks) = nr_ifree_blocks
              /\ AtLeast(1, nr_bfree_blocks) = nr_bfree_blocks
         /\ ret = "success"
         /\ TypeOK
<1>1. TypeOK /\ ret = "success" /\ size >= MinBlocks
  BY DEF IInv, SizeInv, Accepted, OrderInv, Sections
<1>2. size \in Nat
  BY <1>1, SizesAssumption DEF TypeOK
<1>3. /\ nr_blocks \in Nat /\ nr_inodes \in Nat
      /\ nr_istore_blocks \in Nat /\ nr_ifree_blocks \in Nat
      /\ nr_bfree_blocks \in Nat /\ FirstDataBlock \in Nat \ {0}
  BY <1>2, Types
<1>4. /\ InodeStoreLength \in Nat \ {0}
      /\ AtLeast(1, nr_ifree_blocks) \in Nat \ {0}
      /\ AtLeast(1, nr_bfree_blocks) \in Nat \ {0}
  BY <1>3 DEF InodeStoreLength, AtLeast
<1>5. ASSUME CountsFit
      PROVE  /\ nr_inodes # 0
             /\ nr_istore_blocks # 0 /\ nr_ifree_blocks # 0
             /\ nr_bfree_blocks # 0
             /\ nr_inodes <= nr_istore_blocks * InodesPerBlock
             /\ Aligned => nr_inodes = nr_istore_blocks * InodesPerBlock
             /\ FirstDataBlock + 3 < size
             /\ InodeStoreLength = nr_inodes
             /\ AtLeast(1, nr_ifree_blocks) = nr_ifree_blocks
             /\ AtLeast(1, nr_bfree_blocks) = nr_bfree_blocks
  <2>1. /\ nr_blocks = size /\ nr_blocks <= nr_inodes
        /\ nr_istore_blocks # 0 /\ nr_ifree_blocks # 0 /\ nr_bfree_blocks # 0
        /\ nr_inodes <= nr_istore_blocks * InodesPerBlock
        /\ Aligned => nr_inodes = nr_istore_blocks * InodesPerBlock
        /\ nr_free_blocks = nr_blocks - FirstDataBlock - 3 /\ nr_free_blocks > 0
    BY <1>1, <1>2, <1>5, Counts
  <2>2. nr_inodes >= MinBlocks /\ FirstDataBlock + 3 < size
    BY <1>1, <1>2, <1>3, <2>1 DEF MinBlocks
  <2> QED
    BY <1>3, <2>1, <2>2 DEF MinBlocks, InodeStoreLength, AtLeast
<1>6. FirstDataBlock = 1 + nr_istore_blocks + nr_ifree_blocks + nr_bfree_blocks
  BY DEF FirstDataBlock
<1> QED
  BY <1>1, <1>2, <1>3, <1>4, <1>5, <1>6

\* The superblock, the inode store and the inode bitmap: a write is complete and
\* the next section follows, or main fails and nothing does.
LEMMA SuperblockStep == IInv /\ write_superblock => IInv'
<1> SUFFICES ASSUME IInv, write_superblock PROVE IInv'
  OBVIOUS
<1>1. UNCHANGED <<size, nr_blocks, nr_inodes, nr_istore_blocks, nr_ifree_blocks,
                  nr_bfree_blocks, nr_free_blocks, FirstDataBlock, Place,
                  UsedBlocks, CountsFit, Aligned>>
  BY CountsKept, PlacesKept DEF write_superblock
<1>2. pc = "sb" /\ pc \in Sections
  BY DEF write_superblock, Sections
<1>3. CASE Written("sb", InodesPerBlock) /\ Goto("istore")
  <2>1. /\ at' = [at EXCEPT !["sb"] = pos] /\ pos' = pos + InodesPerBlock
        /\ short' = short /\ pc' = "istore" /\ ret' = "success"
    BY <1>2, <1>3, Writing DEF Written, Goto
  <2>2. TypeOK' /\ SizeInv'
    BY <1>1, <1>2, <2>1, Writing
       DEF write_superblock, TypeOK, SizeInv, Sections, Unwritten,
           InodesPerBlock
  <2>3. PosInv' /\ StaysInImage'
    BY <1>1, <1>2, <2>1, Writing
       DEF write_superblock, IInv, TypeOK, PosInv, StaysInImage, Place, Aligned,
           Sections, Unwritten, InodesPerBlock
  <2>4. OrderInv' /\ IndexInv'
    BY <1>1, <1>2, <2>1, Writing
       DEF write_superblock, IInv, TypeOK, OrderInv, IndexInv, Sections,
           Unwritten, InodesPerBlock
  <2>5. SectionsInPlace'
    BY <1>1, <1>2, <2>1, Writing
       DEF IInv, TypeOK, PosInv, SectionsInPlace, InPlace, Aligned, Sections,
           Unwritten, InodesPerBlock
  <2>6. BitmapMatchesCount' /\ UsedBlocksFit' /\ SuccessIsComplete'
    BY <1>1, <1>2, <2>1, Writing
       DEF write_superblock, IInv, TypeOK, BitmapMatchesCount, UsedBlocksFit,
           SuccessIsComplete, Sections, Unwritten, InodesPerBlock
  <2> QED
    BY <2>2, <2>3, <2>4, <2>5, <2>6 DEF IInv
<1>4. CASE CutShort("sb", 0, InodesPerBlock) /\ Fail
  <2>1. /\ pos' \in {pos, pos + InodesPerBlock - 1}
        /\ short' = short \cup {"sb"} /\ at' = at
        /\ pc' = "done" /\ ret' = "failure"
    BY <1>2, <1>4, Writing DEF CutShort, Fail, ExitFailure, TypeOK
  <2>2. TypeOK' /\ SizeInv'
    BY <1>1, <1>2, <2>1, Writing
       DEF write_superblock, TypeOK, SizeInv, Sections, Unwritten,
           InodesPerBlock
  <2>3. PosInv' /\ StaysInImage'
    BY <1>1, <1>2, <2>1, Writing
       DEF write_superblock, IInv, TypeOK, PosInv, StaysInImage, Place,
           Sections, Unwritten, InodesPerBlock
  <2>4. OrderInv' /\ IndexInv'
    BY <1>1, <1>2, <2>1, Writing
       DEF write_superblock, IInv, TypeOK, OrderInv, IndexInv, Sections,
           Unwritten, InodesPerBlock
  <2>5. SectionsInPlace'
    BY <1>1, <2>1 DEF IInv, SectionsInPlace, InPlace
  <2>6. BitmapMatchesCount' /\ UsedBlocksFit' /\ SuccessIsComplete'
    BY <1>1, <2>1
       DEF write_superblock, IInv, BitmapMatchesCount, UsedBlocksFit,
           SuccessIsComplete
  <2> QED
    BY <2>2, <2>3, <2>4, <2>5, <2>6 DEF IInv
<1> QED
  BY <1>3, <1>4 DEF write_superblock

\* ... the inode store also refers / and /foo to their blocks, and may end in the
\* middle of a block ...
LEMMA InodeStoreStep == IInv /\ write_inode_store => IInv'
<1> SUFFICES ASSUME IInv, write_inode_store PROVE IInv'
  OBVIOUS
<1>1. UNCHANGED <<size, nr_blocks, nr_inodes, nr_istore_blocks, nr_ifree_blocks,
                  nr_bfree_blocks, nr_free_blocks, FirstDataBlock, Place,
                  UsedBlocks, CountsFit, Aligned>>
  BY CountsKept, PlacesKept DEF write_inode_store
<1>2. pc = "istore" /\ pc \in Sections
  BY DEF write_inode_store, Sections
<1>3. CASE Written("istore", InodeStoreLength) /\ Goto("ifree")
  <2>1. /\ at' = [at EXCEPT !["istore"] = pos] /\ pos' = pos + InodeStoreLength
        /\ short' = short /\ pc' = "ifree" /\ ret' = "success"
    BY <1>2, <1>3, Writing DEF Written, Goto
  <2>2. TypeOK' /\ SizeInv'
    BY <1>1, <1>2, <2>1, Writing
       DEF write_inode_store, TypeOK, SizeInv, InodeStoreLength, Sections,
           Unwritten, InodesPerBlock
  <2>3. PosInv' /\ StaysInImage'
    BY <1>1, <1>2, <2>1, Writing
       DEF write_inode_store, IInv, TypeOK, PosInv, StaysInImage, Place,
           Aligned, InodeStoreLength,
           Sections, Unwritten, InodesPerBlock
  <2>4. OrderInv' /\ IndexInv'
    BY <1>1, <1>2, <2>1, Writing
       DEF write_inode_store, IInv, TypeOK, OrderInv, IndexInv, Sections,
           Unwritten, InodesPerBlock
  <2>5. SectionsInPlace'
    BY <1>1, <1>2, <2>1, Writing
       DEF IInv, TypeOK, PosInv, SectionsInPlace, InPlace, Aligned, Sections,
           Unwritten, InodesPerBlock
  <2>6. BitmapMatchesCount' /\ UsedBlocksFit' /\ SuccessIsComplete'
    BY <1>1, <1>2, <2>1, Writing
       DEF write_inode_store, IInv, TypeOK, BitmapMatchesCount, UsedBlocksFit,
           SuccessIsComplete, Sections, Unwritten, InodesPerBlock
  <2> QED
    BY <2>2, <2>3, <2>4, <2>5, <2>6 DEF IInv
<1>4. CASE CutShort("istore", 0, InodeStoreLength) /\ Fail
  <2>1. /\ pos' \in {pos, pos + InodeStoreLength - 1}
        /\ short' = short \cup {"istore"} /\ at' = at
        /\ pc' = "done" /\ ret' = "failure"
    BY <1>2, <1>4, Writing DEF CutShort, Fail, ExitFailure, TypeOK
  <2>2. TypeOK' /\ SizeInv'
    BY <1>1, <1>2, <2>1, Writing
       DEF write_inode_store, TypeOK, SizeInv, InodeStoreLength, Sections,
           Unwritten, InodesPerBlock
  <2>3. PosInv' /\ StaysInImage'
    BY <1>1, <1>2, <2>1, Writing
       DEF write_inode_store, IInv, TypeOK, PosInv, StaysInImage, Place,
           InodeStoreLength, Sections, Unwritten, InodesPerBlock
  <2>4. OrderInv' /\ IndexInv'
    BY <1>1, <1>2, <2>1, Writing
       DEF write_inode_store, IInv, TypeOK, OrderInv, IndexInv, Sections,
           Unwritten, InodesPerBlock
  <2>5. SectionsInPlace'
    BY <1>1, <2>1 DEF IInv, SectionsInPlace, InPlace
  <2>6. BitmapMatchesCount' /\ UsedBlocksFit' /\ SuccessIsComplete'
    BY <1>1, <2>1
       DEF write_inode_store, IInv, BitmapMatchesCount, UsedBlocksFit,
           SuccessIsComplete
  <2> QED
    BY <2>2, <2>3, <2>4, <2>5, <2>6 DEF IInv
<1> QED
  BY <1>3, <1>4 DEF write_inode_store

\* ... the inode bitmap does not.
LEMMA InodeBitmapStep == IInv /\ write_ifree_blocks => IInv'
<1> SUFFICES ASSUME IInv, write_ifree_blocks PROVE IInv'
  OBVIOUS
<1>1. UNCHANGED <<size, nr_blocks, nr_inodes, nr_istore_blocks, nr_ifree_blocks,
                  nr_bfree_blocks, nr_free_blocks, FirstDataBlock, Place,
                  UsedBlocks, CountsFit, Aligned>>
  BY CountsKept, PlacesKept DEF write_ifree_blocks
<1>2. pc = "ifree" /\ pc \in Sections
  BY DEF write_ifree_blocks, Sections
<1>3. CASE Written("ifree", AtLeast(1, nr_ifree_blocks) * InodesPerBlock) /\ Goto("bfree")
  <2>1. /\ at' = [at EXCEPT !["ifree"] = pos]
        /\ pos' = pos + AtLeast(1, nr_ifree_blocks) * InodesPerBlock
        /\ short' = short /\ pc' = "bfree" /\ ret' = "success"
    BY <1>2, <1>3, Writing DEF Written, Goto
  <2>2. TypeOK' /\ SizeInv'
    BY <1>1, <1>2, <2>1, Writing
       DEF write_ifree_blocks, TypeOK, SizeInv, Sections, Unwritten,
           InodesPerBlock
  <2>3. PosInv' /\ StaysInImage'
    BY <1>1, <1>2, <2>1, Writing
       DEF write_ifree_blocks, IInv, TypeOK, PosInv, StaysInImage, Place,
           Aligned,
           Sections, Unwritten, InodesPerBlock
  <2>4. OrderInv' /\ IndexInv'
    BY <1>1, <1>2, <2>1, Writing
       DEF write_ifree_blocks, IInv, TypeOK, OrderInv, IndexInv, Sections,
           Unwritten, InodesPerBlock
  <2>5. SectionsInPlace'
    BY <1>1, <1>2, <2>1, Writing
       DEF IInv, TypeOK, PosInv, SectionsInPlace, InPlace, Aligned, Sections,
           Unwritten, InodesPerBlock
  <2>6. BitmapMatchesCount' /\ UsedBlocksFit' /\ SuccessIsComplete'
    BY <1>1, <1>2, <2>1, Writing
       DEF write_ifree_blocks, IInv, TypeOK, BitmapMatchesCount, UsedBlocksFit,
           SuccessIsComplete, Sections, Unwritten, InodesPerBlock
  <2> QED
    BY <2>2, <2>3, <2>4, <2>5, <2>6 DEF IInv
<1>4. CASE CutShort("ifree", 0, AtLeast(1, nr_ifree_blocks) * InodesPerBlock) /\ Fail
  <2>1. /\ pos' \in {pos, pos + AtLeast(1, nr_ifree_blocks) * InodesPerBlock - 1}
        /\ short' = short \cup {"ifree"} /\ at' = at
        /\ pc' = "done" /\ ret' = "failure"
    BY <1>2, <1>4, Writing DEF CutShort, Fail, ExitFailure, TypeOK
  <2>2. TypeOK' /\ SizeInv'
    BY <1>1, <1>2, <2>1, Writing
       DEF write_ifree_blocks, TypeOK, SizeInv, Sections, Unwritten,
           InodesPerBlock
  <2>3. PosInv' /\ StaysInImage'
    BY <1>1, <1>2, <2>1, Writing
       DEF write_ifree_blocks, IInv, TypeOK, PosInv, StaysInImage, Place,
           Sections, Unwritten, InodesPerBlock
  <2>4. OrderInv' /\ IndexInv'
    BY <1>1, <1>2, <2>1, Writing
       DEF write_ifree_blocks, IInv, TypeOK, OrderInv, IndexInv, Sections,
           Unwritten, InodesPerBlock
  <2>5. SectionsInPlace'
    BY <1>1, <2>1 DEF IInv, SectionsInPlace, InPlace
  <2>6. BitmapMatchesCount' /\ UsedBlocksFit' /\ SuccessIsComplete'
    BY <1>1, <2>1
       DEF write_ifree_blocks, IInv, BitmapMatchesCount, UsedBlocksFit,
           SuccessIsComplete
  <2> QED
    BY <2>2, <2>3, <2>4, <2>5, <2>6 DEF IInv
<1> QED
  BY <1>3, <1>4 DEF write_ifree_blocks

\* What write_bfree_blocks assumes, that the used blocks fit in the first block of
\* the bitmap, is a consequence of the counts up to the bound of UsedBlocksFit.
LEMMA UsedFit ==
  ASSUME IInv, pc \in Sections
  PROVE  /\ nr_blocks <= FitBound => UsedBlocks <= BitsPerBlock
         /\ UsedBlocks \in Nat
         /\ CountsFit => UsedBlocks + nr_free_blocks = size
<1>1. size \in Nat /\ size >= MinBlocks
  BY Writing
<1>2. UsedBlocks \in Nat /\ (nr_blocks <= FitBound => UsedBlocks <= BitsPerBlock)
  BY <1>1, Types DEF UsedBlocks
<1>3. CountsFit => UsedBlocks + nr_free_blocks = size
  BY <1>1, Counts DEF UsedBlocks
<1> QED
  BY <1>2, <1>3

\* The block bitmap: after a short write main stops or, past the first block, may
\* go on with the data blocks.
LEMMA BlockBitmapStep == IInv /\ write_bfree_blocks => IInv'
<1> SUFFICES ASSUME IInv, write_bfree_blocks PROVE IInv'
  OBVIOUS
<1> DEFINE length == AtLeast(1, nr_bfree_blocks) * InodesPerBlock
<1>1. UNCHANGED <<size, nr_blocks, nr_inodes, nr_istore_blocks, nr_ifree_blocks,
                  nr_bfree_blocks, nr_free_blocks, FirstDataBlock, Place,
                  UsedBlocks, CountsFit, Aligned>>
  BY CountsKept, PlacesKept DEF write_bfree_blocks
<1>2. /\ pc = "bfree" /\ pc \in Sections
      /\ used' = UsedBlocks /\ overrun' = (UsedBlocks > BitsPerBlock)
      /\ UNCHANGED <<rest, index>>
  BY DEF write_bfree_blocks, Sections
<1>3. UsedBlocksFit' /\ BitmapMatchesCount'
  <2>1. BitmapMatchesCount'
    BY <1>1, <1>2, UsedFit DEF BitmapMatchesCount
  <2>2. nr_blocks <= FitBound => ~(UsedBlocks > BitsPerBlock)
    BY <1>2, UsedFit DEF BitsPerBlock
  <2>3. UsedBlocksFit'
    BY <1>1, <1>2, <2>2 DEF UsedBlocksFit
  <2> QED
    BY <2>1, <2>3
<1>4. CASE pc' = "done" /\ UNCHANGED <<pos, at, short, ret>> /\ overrun'
  <2>1. TypeOK' /\ SizeInv' /\ StaysInImage'
    BY <1>1, <1>2, <1>4, UsedFit, Writing
       DEF IInv, TypeOK, SizeInv, StaysInImage, BitsPerBlock, Sections,
           Unwritten, InodesPerBlock
  <2>2. PosInv' /\ OrderInv' /\ IndexInv'
    BY <1>1, <1>2, <1>4 DEF IInv, PosInv, OrderInv, IndexInv, Sections
  <2>3. SectionsInPlace' /\ SuccessIsComplete'
    BY <1>1, <1>4 DEF IInv, SectionsInPlace, InPlace, SuccessIsComplete
  <2> QED
    BY <1>3, <2>1, <2>2, <2>3 DEF IInv
<1>5. CASE Written("bfree", length) /\ Goto("root")
  <2>1. /\ at' = [at EXCEPT !["bfree"] = pos] /\ pos' = pos + length
        /\ short' = short /\ pc' = "root" /\ ret' = "success"
    BY <1>2, <1>5, Writing DEF Written, Goto
  <2>2. TypeOK' /\ SizeInv'
    BY <1>1, <1>2, <2>1, UsedFit, Writing
       DEF TypeOK, SizeInv, BitsPerBlock, Sections, Unwritten, InodesPerBlock
  <2>3. PosInv' /\ StaysInImage'
    BY <1>1, <1>2, <2>1, Writing
       DEF IInv, TypeOK, PosInv, StaysInImage, Place, Aligned, Sections,
           Unwritten, InodesPerBlock
  <2>4. OrderInv' /\ IndexInv'
    BY <1>1, <1>2, <2>1, Writing
       DEF IInv, TypeOK, OrderInv, IndexInv, Sections, Unwritten, InodesPerBlock
  <2>5. SectionsInPlace'
    BY <1>1, <1>2, <2>1, Writing
       DEF IInv, TypeOK, PosInv, SectionsInPlace, InPlace, Aligned,
           Sections, Unwritten, InodesPerBlock
  <2>6. SuccessIsComplete'
    BY <2>1 DEF SuccessIsComplete
  <2> QED
    BY <1>3, <2>2, <2>3, <2>4, <2>5, <2>6 DEF IInv
<1>6. CASE /\ pos' \in pos .. pos + length
           /\ short' = short \cup {"bfree"} /\ at' = at
           /\ \/ Fail
              \/ nr_bfree_blocks > 1 /\ Goto("root")
  <2>1. /\ pos \in Nat /\ pos' \in Nat /\ pos' <= pos + length
        /\ \/ pc' = "done" /\ ret' = "failure"
           \/ nr_bfree_blocks > 1 /\ pc' = "root" /\ ret' = "success"
    BY <1>2, <1>6, Writing DEF Fail, Goto, ExitFailure, TypeOK, InodesPerBlock
  <2>2. TypeOK' /\ SizeInv'
    BY <1>1, <1>2, <1>6, <2>1, UsedFit, Writing
       DEF TypeOK, SizeInv, BitsPerBlock, Sections
  <2>3. PosInv' /\ StaysInImage'
    BY <1>1, <1>2, <1>6, <2>1, Writing
       DEF IInv, TypeOK, PosInv, StaysInImage, Place, Sections, Unwritten,
           InodesPerBlock
  <2>4. OrderInv' /\ IndexInv'
    BY <1>1, <1>2, <1>6, <2>1, Writing
       DEF IInv, TypeOK, OrderInv, IndexInv, Sections, Unwritten, InodesPerBlock
  <2>5. SectionsInPlace' /\ SuccessIsComplete'
    BY <1>1, <1>6, <2>1 DEF IInv, SectionsInPlace, SuccessIsComplete
  <2> QED
    BY <1>3, <2>2, <2>3, <2>4, <2>5 DEF IInv
<1> QED
  <2>1. pos \in Nat /\ AtLeast(1, nr_bfree_blocks) \in Nat \ {0}
    BY <1>2, Writing DEF TypeOK
  <2>2. CASE CutShort("bfree", 0, InodesPerBlock) /\ Fail
    BY <1>6, <2>1, <2>2 DEF CutShort, InodesPerBlock
  <2>3. CASE /\ nr_bfree_blocks > 1
             /\ CutShort("bfree", InodesPerBlock, length)
             /\ Fail \/ Goto("root")
    BY <1>6, <2>1, <2>3 DEF CutShort, InodesPerBlock
  <2> QED
    BY <1>4, <1>5, <2>2, <2>3 DEF write_bfree_blocks, FailsReported

\* The blocks of / and /foo: after a short write main goes on to its end, or fails.
\* The metadata is complete when it ends with success in either case.
LEMMA RootStep ==
  IInv /\ WriteData("root", "foo_index")
       /\ UNCHANGED index
    => IInv'
<1> SUFFICES ASSUME IInv, WriteData("root", "foo_index"),
                    UNCHANGED index
             PROVE  IInv'
  OBVIOUS
<1>1. UNCHANGED <<size, nr_blocks, nr_inodes, nr_istore_blocks, nr_ifree_blocks,
                  nr_bfree_blocks, nr_free_blocks, FirstDataBlock, Place,
                  UsedBlocks, CountsFit, Aligned>>
  BY CountsKept, PlacesKept DEF WriteData
<1>2. /\ pc = "root" /\ pc \in Sections
      /\ UNCHANGED <<rest, used, overrun>>
  BY DEF WriteData, Sections
<1>3. \/ /\ at' = [at EXCEPT !["root"] = pos] /\ pos' = pos + InodesPerBlock
         /\ short' = short /\ pc' = "foo_index" /\ ret' = "success"
      \/ /\ at' = at /\ pos' \in {pos, pos + InodesPerBlock - 1}
         /\ short' = short \cup {"root"} /\ pc' = "done"
         /\ ret' \in {"success", "failure"}
  BY <1>2, Writing
     DEF WriteData, Written, CutShort, Fail, Goto, ExitFailure, TypeOK
<1>4. TypeOK' /\ SizeInv'
  BY <1>1, <1>2, <1>3, Writing
     DEF TypeOK, SizeInv, Sections, Unwritten, InodesPerBlock
<1>5. PosInv' /\ StaysInImage'
  BY <1>1, <1>2, <1>3, Writing
     DEF IInv, TypeOK, PosInv, StaysInImage, Place, Aligned, Sections,
         Unwritten, InodesPerBlock
<1>6. OrderInv' /\ IndexInv'
  BY <1>1, <1>2, <1>3, Writing
     DEF IInv, TypeOK, OrderInv, IndexInv,
         Sections, Unwritten, InodesPerBlock
<1>7. SectionsInPlace'
  BY <1>1, <1>2, <1>3, Writing
     DEF IInv, TypeOK, PosInv, SectionsInPlace, InPlace, Aligned,
         Sections, Unwritten, InodesPerBlock
<1>8. BitmapMatchesCount' /\ UsedBlocksFit'
  BY <1>1, <1>2, <1>3, Writing
     DEF IInv, TypeOK, BitmapMatchesCount, UsedBlocksFit, Sections
<1>9. SuccessIsComplete'
  BY <1>1, <1>2, <1>3, Writing
     DEF IInv, TypeOK, OrderInv, SuccessIsComplete, Sections, Unwritten,
         InodesPerBlock
<1> QED
  BY <1>4, <1>5, <1>6, <1>7, <1>8, <1>9 DEF IInv

\* ... the second also refers foo to its data ...
LEMMA FooIndexStep ==
  IInv /\ WriteData("foo_index", "foo")
       /\ index' = [index EXCEPT !["foo_data"] = FooBlock]
    => IInv'
<1> SUFFICES ASSUME IInv, WriteData("foo_index", "foo"),
                    index' = [index EXCEPT !["foo_data"] = FooBlock]
             PROVE  IInv'
  OBVIOUS
<1>1. UNCHANGED <<size, nr_blocks, nr_inodes, nr_istore_blocks, nr_ifree_blocks,
                  nr_bfree_blocks, nr_free_blocks, FirstDataBlock, Place,
                  UsedBlocks, CountsFit, Aligned>>
  BY CountsKept, PlacesKept DEF WriteData
<1>2. /\ pc = "foo_index" /\ pc \in Sections
      /\ UNCHANGED <<rest, used, overrun>>
  BY DEF WriteData, Sections
<1>3. \/ /\ at' = [at EXCEPT !["foo_index"] = pos] /\ pos' = pos + InodesPerBlock
         /\ short' = short /\ pc' = "foo" /\ ret' = "success"
      \/ /\ at' = at /\ pos' \in {pos, pos + InodesPerBlock - 1}
         /\ short' = short \cup {"foo_index"} /\ pc' = "done"
         /\ ret' \in {"success", "failure"}
  BY <1>2, Writing
     DEF WriteData, Written, CutShort, Fail, Goto, ExitFailure, TypeOK
<1>4. TypeOK' /\ SizeInv'
  BY <1>1, <1>2, <1>3, Writing
     DEF TypeOK, SizeInv, FooBlock, Sections, Unwritten, InodesPerBlock
<1>5. PosInv' /\ StaysInImage'
  BY <1>1, <1>2, <1>3, Writing
     DEF IInv, TypeOK, PosInv, StaysInImage, Place, Aligned, Sections,
         Unwritten, InodesPerBlock
<1>6. OrderInv' /\ IndexInv'
  BY <1>1, <1>2, <1>3, Writing
     DEF IInv, TypeOK, OrderInv, IndexInv, FooBlock,
         Sections, Unwritten, InodesPerBlock
<1>7. SectionsInPlace'
  BY <1>1, <1>2, <1>3, Writing
     DEF IInv, TypeOK, PosInv, SectionsInPlace, InPlace, Aligned,
         Sections, Unwritten, InodesPerBlock
<1>8. BitmapMatchesCount' /\ UsedBlocksFit'
  BY <1>1, <1>2, <1>3, Writing
     DEF IInv, TypeOK, BitmapMatchesCount, UsedBlocksFit, Sections
<1>9. SuccessIsComplete'
  BY <1>1, <1>2, <1>3, Writing
     DEF IInv, TypeOK, OrderInv, SuccessIsComplete, Sections, Unwritten,
         InodesPerBlock
<1> QED
  BY <1>4, <1>5, <1>6, <1>7, <1>8, <1>9 DEF IInv

\* ... and after the third main returns.
LEMMA FooStep ==
  IInv /\ WriteData("foo", "done")
       /\ UNCHANGED index
    => IInv'
<1> SUFFICES ASSUME IInv, WriteData("foo", "done"),
                    UNCHANGED index
             PROVE  IInv'
  OBVIOUS
<1>1. UNCHANGED <<size, nr_blocks, nr_inodes, nr_istore_blocks, nr_ifree_blocks,
                  nr_bfree_blocks, nr_free_blocks, FirstDataBlock, Place,
                  UsedBlocks, CountsFit, Aligned>>
  BY CountsKept, PlacesKept DEF WriteData
<1>2. /\ pc = "foo" /\ pc \in Sections
      /\ UNCHANGED <<rest, used, overrun>>
  BY DEF WriteData, Sections
<1>3. \/ /\ at' = [at EXCEPT !["foo"] = pos] /\ pos' = pos + InodesPerBlock
         /\ short' = short /\ pc' = "done" /\ ret' = "success"
      \/ /\ at' = at /\ pos' \in {pos, pos + InodesPerBlock - 1}
         /\ short' = short \cup {"foo"} /\ pc' = "done"
         /\ ret' \in {"success", "failure"}
  BY <1>2, Writing
     DEF WriteData, Written, CutShort, Fail, Goto, ExitFailure, TypeOK
<1>4. TypeOK' /\ SizeInv'
  BY <1>1, <1>2, <1>3, Writing
     DEF TypeOK, SizeInv, Sections, Unwritten, InodesPerBlock
<1>5. PosInv' /\ StaysInImage'
  BY <1>1, <1>2, <1>3, Writing
     DEF IInv, TypeOK, PosInv, StaysInImage, Place, Aligned, Sections,
         Unwritten, InodesPerBlock
<1>6. OrderInv' /\ IndexInv'
  BY <1>1, <1>2, <1>3, Writing
     DEF IInv, TypeOK, OrderInv, IndexInv,
         Sections, Unwritten, InodesPerBlock
<1>7. SectionsInPlace'
  BY <1>1, <1>2, <1>3, Writing
     DEF IInv, TypeOK, PosInv, SectionsInPlace, InPlace, Aligned,
         Sections, Unwritten, InodesPerBlock
<1>8. BitmapMatchesCount' /\ UsedBlocksFit'
  BY <1>1, <1>2, <1>3, Writing
     DEF IInv, TypeOK, BitmapMatchesCount, UsedBlocksFit, Sections
<1>9. SuccessIsComplete'
  BY <1>1, <1>2, <1>3, Writing
     DEF IInv, TypeOK, OrderInv, SuccessIsComplete, Sections, Unwritten,
         InodesPerBlock
<1> QED
  BY <1>4, <1>5, <1>6, <1>7, <1>8, <1>9 DEF IInv

-----------------------------------------------------------------------------
(* The theorems.                                                           *)

\* The inductive invariant: wherever mkfs stops, what it wrote so far lies where
\* the counts of the superblock put it.
THEOREM MkfsInvariance == Spec => []IInv
<1>1. IInv /\ [Next]_vars => IInv'
  <2> SUFFICES ASSUME IInv, [Next]_vars PROVE IInv'
    OBVIOUS
  <2>1. CASE Check
    BY <2>1, CheckStep
  <2>2. CASE write_superblock
    BY <2>2, SuperblockStep
  <2>3. CASE write_inode_store
    BY <2>3, InodeStoreStep
  <2>4. CASE write_ifree_blocks
    BY <2>4, InodeBitmapStep
  <2>5. CASE write_bfree_blocks
    BY <2>5, BlockBitmapStep
  <2>6. CASE write_data_blocks
    BY <2>6, RootStep, FooIndexStep, FooStep DEF write_data_blocks
  <2>7. CASE UNCHANGED vars
    <3>1. UNCHANGED <<nr_blocks, nr_inodes, nr_istore_blocks, nr_ifree_blocks,
                      nr_bfree_blocks, nr_free_blocks, FirstDataBlock, Place,
                      CountsFit, Aligned>>
      BY <2>7, CountsKept, PlacesKept DEF vars
    <3>2. TypeOK' /\ SizeInv' /\ PosInv' /\ StaysInImage'
      BY <2>7, <3>1
         DEF vars, IInv, TypeOK, SizeInv, Accepted, PosInv, StaysInImage
    <3>3. OrderInv' /\ IndexInv' /\ SuccessIsComplete'
      BY <2>7, <3>1 DEF vars, IInv, OrderInv, IndexInv, SuccessIsComplete
    <3>4. SectionsInPlace' /\ BitmapMatchesCount' /\ UsedBlocksFit'
      BY <2>7, <3>1
         DEF vars, IInv, SectionsInPlace, InPlace, BitmapMatchesCount,
             UsedBlocksFit
    <3> QED
      BY <3>2, <3>3, <3>4 DEF IInv
  <2> QED
    BY <2>1, <2>2, <2>3, <2>4, <2>5, <2>6, <2>7 DEF Next, Exited
<1> QED
  BY InitIInv, <1>1, PTL DEF Spec

\* Type correctness.
THEOREM MkfsTypeCorrect == Spec => []TypeOK
BY MkfsInvariance, PTL DEF IInv

\* An accepted image whose counts fit in 32 bits has room for all that its
\* superblock counts, and its block bitmap marks as used exactly what is not
\* counted free.
THEOREM CountsAlwaysAgree == Spec => []CountsAgree
<1>1. IInv => RoomForAll
  <2> SUFFICES ASSUME IInv, Accepted, CountsFit PROVE RoomForAll
    BY DEF RoomForAll
  <2>1. size \in Nat /\ size >= MinBlocks
    BY SizesAssumption DEF IInv, TypeOK, SizeInv
  <2> QED
    BY <2>1, Counts DEF RoomForAll
<1>2. IInv => BitmapMatchesCount
  BY DEF IInv
<1>3. IInv => CountsAgree
  BY <1>1, <1>2 DEF CountsAgree
<1> QED
  BY MkfsInvariance, <1>3, PTL

\* mkfs never writes behind the end of an image whose counts fit in 32 bits.
THEOREM NeverGrowsImage == Spec => []StaysInImage
BY MkfsInvariance, PTL DEF IInv

\* Each section is where the counts put it, and the inodes and foo's index block
\* lead to the blocks that were written for them, while the counts fit in 32
\* bits, the inodes fill whole blocks and the block bitmap was not cut short.
THEOREM LayoutFollowsCounts == Spec => []LayoutMatches
<1>1. IInv => IndexesInPlace
  BY DEF IInv, OrderInv, IndexInv, SectionsInPlace, InPlace, IndexesInPlace,
         Place, Sections
<1>2. IInv => SectionsInPlace
  BY DEF IInv
<1>3. IInv => LayoutMatches
  BY <1>1, <1>2 DEF LayoutMatches
<1> QED
  BY MkfsInvariance, <1>3, PTL

\* write_bfree_blocks stays in its buffer for every image up to 30 GiB.
THEOREM BitmapStaysInBuffer == Spec => []UsedBlocksFit
BY MkfsInvariance, PTL DEF IInv

\* Success tells that the metadata was written in full, as far as main can see.
THEOREM SuccessTellsComplete == Spec => []SuccessIsComplete
BY MkfsInvariance, PTL DEF IInv
=============================================================================
