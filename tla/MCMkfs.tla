------------------------------- MODULE MCMkfs -------------------------------
(* Image sizes around every boundary: the smallest image, whole and half     *)
(* inode blocks, one and two blocks of bitmap, the size at which the used    *)
(* blocks no longer fit in one block of bitmap, and sizes whose counts do    *)
(* not fit in a uint32_t, which has 23 bits here.                            *)
EXTENDS Mkfs

MCWide == 8388608

Boundaries == (1..8) \cup (95..520) \cup (32500..32900) \cup (65500..65700)
                \cup {7864320, 8300000}
                \cup {MCWide - 130, MCWide - 100, MCWide + 3, MCWide + 256}
=============================================================================
