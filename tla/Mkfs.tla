-------------------------------- MODULE Mkfs --------------------------------
(***************************************************************************)
(* projet_pnl/src/mkfs-pnlfs.c: computes the superblock of a pnlFS image   *)
(* from its size, then writes superblock, inode store, inode bitmap, block *)
(* bitmap and data blocks one after the other, each at the offset where    *)
(* the one before it ended.  A write can fail or stop short; where the     *)
(* code then returns errno, which a short write does not set, that may be  *)
(* 0 and main goes on.                                                     *)
(*                                                                         *)
(* Offsets are counted in inodes: a block is InodesPerBlock of them.       *)
(***************************************************************************)
EXTENDS Integers

CONSTANTS
  ImageSizes,   \* st_size, in whole blocks
  Wide          \* a uint32_t holds 0 .. Wide - 1: 2^32

InodesPerBlock == 256     \* PNLFS_INODES_PER_BLOCK

ASSUME SizesAssumption == ImageSizes \subseteq Nat

ASSUME WideAssumption == Wide \in Nat /\ Wide >= 4 * InodesPerBlock

BitsPerBlock   == 32768   \* PNLFS_BLOCK_SIZE * 8
MinBlocks      == 100
FitBound       == 7864320   \* the blocks of 30 GiB, see UsedBlocksFit

Sections  == {"sb", "istore", "ifree", "bfree", "root", "foo_index", "foo"}
Unwritten == -1

VARIABLES
  size,        \* the whole blocks in the image
  rest,        \* st_size is larger than that
  pc,
  pos,         \* the offset in the image
  at,          \* at[s]: the offset that section s was written at
  used,        \* the bits cleared in the block bitmap
  index,       \* the blocks that the inodes and foo_block refer to
  ret,         \* the exit status
  overrun,     \* write_bfree_blocks wrote past the end of its buffer
  short        \* auxiliary: the sections that were not written in full

vars == <<size, rest, pc, pos, at, used, index, ret, overrun, short>>

TypeOK ==
  /\ size \in ImageSizes /\ rest \in BOOLEAN
  /\ pc \in Sections \cup {"check", "done"}
  /\ pos \in Nat /\ used \in Nat
  /\ at \in [Sections -> Nat \cup {Unwritten}]
  /\ index \in [{"root", "foo", "foo_data"} -> Nat]
  /\ ret \in {"success", "failure"}
  /\ overrun \in BOOLEAN /\ short \subseteq Sections

Init ==
  /\ size \in ImageSizes /\ rest \in BOOLEAN
  /\ pc = "check" /\ pos = 0 /\ used = 0
  /\ at = [s \in Sections |-> Unwritten]
  /\ index = [i \in {"root", "foo", "foo_data"} |-> 0]
  /\ ret = "success" /\ overrun = FALSE /\ short = {}

-----------------------------------------------------------------------------
(* The superblock.                                                         *)

FloorDiv(a, b) == a \div b   \* mutant: rounds down

idiv_ceil(a, b) == (a \div b) + (IF a % b # 0 THEN 1 ELSE 0)

\* a uint32_t keeps the low bits of what it is assigned
Uint32(n) == n % Wide

nr_blocks        == Uint32(size)
nr_inodes        == Uint32(nr_blocks + (nr_blocks % InodesPerBlock))
nr_istore_blocks == idiv_ceil(nr_inodes, InodesPerBlock)
nr_ifree_blocks  == idiv_ceil(nr_inodes, BitsPerBlock)
nr_bfree_blocks  == idiv_ceil(nr_blocks, BitsPerBlock)
nr_data_blocks   == Uint32(nr_blocks - 1 - nr_istore_blocks - nr_ifree_blocks
                                     - nr_bfree_blocks)
nr_free_blocks   == Uint32(nr_data_blocks - 3)

FirstDataBlock == 1 + nr_istore_blocks + nr_ifree_blocks + nr_bfree_blocks

-----------------------------------------------------------------------------
(* Writing.                                                                *)

Written(s, length) == /\ at' = [at EXCEPT ![s] = pos]
                      /\ pos' = pos + length
                      /\ UNCHANGED short

\* the first bytes of s are written: all of its first min inodes, and not all
CutShort(s, min, length) == /\ pos' \in {pos + min, pos + length - 1}
                            /\ short' = short \cup {s}
                            /\ UNCHANGED at

ExitFailure == "failure"

Fail == ret' = ExitFailure /\ pc' = "done"

Goto(s) == pc' = s /\ UNCHANGED ret

NeverTooSmall == FALSE   \* mutant: the size is not checked

\* the check is made on st_size itself
TooSmall == size < MinBlocks \/ (size = MinBlocks /\ ~rest)

Check == /\ pc = "check"
         /\ IF TooSmall THEN Fail ELSE Goto("sb")
         /\ UNCHANGED <<size, rest, pos, at, used, index, overrun, short>>

write_superblock ==
  /\ pc = "sb"
  /\ \/ Written("sb", InodesPerBlock) /\ Goto("istore")
     \/ CutShort("sb", 0, InodesPerBlock) /\ Fail
  /\ UNCHANGED <<size, rest, used, index, overrun>>

AtLeast(min, n) == IF n < min THEN min ELSE n

OneInodeShort == AtLeast(2, nr_inodes - 1)   \* mutant: the loop ends too early

\* the inodes of / and /foo are written whatever the count is
InodeStoreLength == AtLeast(2, nr_inodes)

\* the inodes of / and /foo, then empty ones
write_inode_store ==
  /\ pc = "istore"
  /\ index' = [index EXCEPT !["root"] = FirstDataBlock,
                            !["foo"]  = FirstDataBlock + 1]
  /\ \/ Written("istore", InodeStoreLength) /\ Goto("ifree")
     \/ CutShort("istore", 0, InodeStoreLength) /\ Fail
  /\ UNCHANGED <<size, rest, used, overrun>>

write_ifree_blocks ==
  LET length == AtLeast(1, nr_ifree_blocks) * InodesPerBlock
  IN  /\ pc = "ifree"
      /\ \/ Written("ifree", length) /\ Goto("bfree")
         \/ CutShort("ifree", 0, length) /\ Fail
      /\ UNCHANGED <<size, rest, used, index, overrun>>

UsedByInodes == nr_inodes + nr_ifree_blocks + nr_bfree_blocks + 4
  \* mutant: counts the inodes, not their blocks

UsedBlocks == FirstDataBlock + 3

FailsUnreported == FALSE   \* mutant: a failure of write_bfree_blocks is lost

\* in the first block of the bitmap a failure is reported
FailsReported == TRUE

\* the used blocks are assumed to fit in the first block of the bitmap; past
\* it, the behaviour is undefined and the model stops
write_bfree_blocks ==
  LET length == AtLeast(1, nr_bfree_blocks) * InodesPerBlock
  IN  /\ pc = "bfree"
      /\ used' = UsedBlocks
      /\ overrun' = (UsedBlocks > BitsPerBlock)
      /\ IF overrun'
           THEN pc' = "done" /\ UNCHANGED <<pos, at, short, ret>>
           ELSE \/ Written("bfree", length) /\ Goto("root")
                \/ /\ CutShort("bfree", 0, InodesPerBlock)
                   /\ IF FailsReported THEN Fail ELSE Goto("root")
                \/ /\ nr_bfree_blocks > 1
                   /\ CutShort("bfree", InodesPerBlock, length)
                   /\ Fail \/ Goto("root")
      /\ UNCHANGED <<size, rest, index>>

\* one block of write_data_blocks
WriteData(s, next) ==
  /\ pc = s
  /\ \/ Written(s, InodesPerBlock) /\ Goto(next)
     \/ CutShort(s, 0, InodesPerBlock) /\ (Fail \/ Goto("done"))
  /\ UNCHANGED <<size, rest, used, overrun>>

FooBlock == FirstDataBlock + 2

write_data_blocks ==
  \/ WriteData("root", "foo_index") /\ UNCHANGED index
  \/ /\ WriteData("foo_index", "foo")
     /\ index' = [index EXCEPT !["foo_data"] = FooBlock]
  \/ WriteData("foo", "done") /\ UNCHANGED index

Exited == pc = "done" /\ UNCHANGED vars

Next == \/ Check \/ write_superblock \/ write_inode_store \/ write_ifree_blocks
        \/ write_bfree_blocks \/ write_data_blocks \/ Exited

Spec == Init /\ [][Next]_vars

-----------------------------------------------------------------------------
(* Properties.                                                             *)

\* The counts of an image this small are those that the code computes without
\* losing a bit: nr_blocks is the size, and nr_inodes does not wrap (l.81, 89-93).
\* The check of the size (l.314) accepts larger images all the same.
CountsFit == size + (size % InodesPerBlock) < Wide

Accepted == pc \notin {"check", "done"} \/ at["sb"] # Unwritten

\* an inode for each block, a place in the store and a bit for each inode, a bit
\* for each block, and free blocks besides the three that / and /foo use
RoomForAll ==
  Accepted /\ CountsFit
    => /\ size <= nr_inodes
       /\ nr_inodes <= nr_istore_blocks * InodesPerBlock
       /\ nr_inodes <= nr_ifree_blocks * BitsPerBlock
       /\ size <= nr_bfree_blocks * BitsPerBlock
       /\ nr_free_blocks > 0

\* mkfs never makes the image longer, however its size was rounded (l.89, 314).
StaysInImage == CountsFit => pos <= size * InodesPerBlock

\* where pnlfs.h:14-30 places each section
Place == [sb        |-> 0,
          istore    |-> 1,
          ifree     |-> 1 + nr_istore_blocks,
          bfree     |-> 1 + nr_istore_blocks + nr_ifree_blocks,
          root      |-> FirstDataBlock,
          foo_index |-> FirstDataBlock + 1,
          foo       |-> FirstDataBlock + 2]

InPlace(s) == at[s] \in {Unwritten, Place[s] * InodesPerBlock}

\* every section is written where the superblock's counts put it
SectionsInPlace ==
  CountsFit /\ nr_inodes % InodesPerBlock = 0 /\ "bfree" \notin short
    => \A s \in Sections : InPlace(s)

\* the inodes of / and /foo and foo's index block refer to the blocks that were
\* written for them
IndexesInPlace ==
  CountsFit /\ nr_inodes % InodesPerBlock = 0 /\ "bfree" \notin short
    => /\ at["root"] \in {Unwritten, index["root"] * InodesPerBlock}
       /\ at["foo_index"] \in {Unwritten, index["foo"] * InodesPerBlock}
       /\ at["foo"] \in {Unwritten, index["foo_data"] * InodesPerBlock}

\* When the inodes fill whole blocks and the block bitmap is not cut short, what is
\* written, what the superblock counts and what the inodes refer to agree (l.93).
LayoutMatches == SectionsInPlace /\ IndexesInPlace

\* the block bitmap has as many used blocks as the superblock leaves
BitmapMatchesCount ==
  at["bfree"] # Unwritten /\ CountsFit => used + nr_free_blocks = size

\* An image that is accepted, and whose counts fit, has room for what its superblock counts, and its
\* block bitmap agrees with the count (l.89-107, 213).
CountsAgree == RoomForAll /\ BitmapMatchesCount

\* The used blocks fit in the first block of the bitmap, as write_bfree_blocks
\* supposes (l.219), up to an image of 30 GiB.
UsedBlocksFit == nr_blocks <= FitBound => ~overrun

\* An exit with success tells that superblock, inode store and inode bitmap are
\* complete, and the block bitmap too when it has a single block: of what follows
\* a short write is not always reported (l.243, 266, 273, 280).
SuccessIsComplete ==
  pc = "done" /\ ret = "success" /\ ~overrun
    => /\ \A s \in {"sb", "istore", "ifree"} : at[s] # Unwritten
       /\ at["bfree"] # Unwritten \/ nr_bfree_blocks > 1

\* pnlfs.h:14-30 lays the partition out in blocks: the inode bitmap starts
\* nr_istore_blocks after the inode store, and so on.
LayoutAsDocumented == short = {} => \A s \in Sections : InPlace(s)
=============================================================================
