------------------------------ MODULE Storage ------------------------------
(***************************************************************************)
(* The two images the kernel finds its files in, as sequences of bytes:    *)
(* the tar archive that the boot loader leaves in memory and the OREFS     *)
(* disk that tools/mkorefs.py writes, and the block layer of               *)
(* kernel/block.c, which reads whole sectors of the disk.                  *)
(*                                                                         *)
(* A file is a record of its name, a sequence of path components, and its  *)
(* size.  A byte is a tuple that tells what it is, <<"data", name, j>> for *)
(* the j-th byte of a file; a header or an entry is one byte, followed by  *)
(* the padding that its format has.                                        *)
(***************************************************************************)
EXTENDS Integers, Sequences, SequencesExt

CONSTANTS
    SECTOR,              \* bytes of a sector
    ENTRY_SIZE,          \* bytes of a directory entry of OREFS
    DATA_START_SECTOR,   \* the first sector files may lie in
    IMAGE_MIN,           \* the least size of a disk image
    TAR_BLOCK            \* bytes of a block of the archive

ASSUME StorageAssumption ==
    /\ SECTOR \in Nat \ {0} /\ ENTRY_SIZE \in Nat \ {0}
    /\ DATA_START_SECTOR \in Nat /\ IMAGE_MIN \in Nat /\ TAR_BLOCK \in Nat \ {0}

Ceil(n, unit) == (n + unit - 1) \div unit

Pad(s, unit) == s \o [k \in 1..Ceil(Len(s), unit) * unit - Len(s) |-> <<"pad">>]

Content(f) == [j \in 1..f.size |-> <<"data", f.name, j>>]

-----------------------------------------------------------------------------
(* The images. *)

\* Every file starts at a sector.
mkorefs(fs) ==
    LET entry_sectors == Ceil(Len(fs) * ENTRY_SIZE, SECTOR)
        start == (IF DATA_START_SECTOR > 1 + entry_sectors THEN DATA_START_SECTOR
                  ELSE 1 + entry_sectors) * SECTOR
        data == [k \in DOMAIN fs |-> Pad(Content(fs[k]), SECTOR)]
        offset(k) == start + Len(FlattenSeq(SubSeq(data, 1, k - 1)))
        entry == [k \in DOMAIN fs |-> <<"entry", [name |-> fs[k].name, offset |-> offset(k), size |-> fs[k].size]>>]
        head == Pad(<<<<"OREFS1", Len(fs)>>>>, SECTOR)
                \o FlattenSeq([k \in DOMAIN fs |-> Pad(<<entry[k]>>, ENTRY_SIZE)])
        image == Pad(head, start) \o FlattenSeq(data)
    IN  image \o [k \in 1..IMAGE_MIN - Len(image) |-> <<"pad">>]

\* The archive tar writes; it ends with an empty block.
tar(fs) ==
    FlattenSeq([k \in DOMAIN fs |-> Pad(<<<<"header", fs[k]>>>>, TAR_BLOCK) \o Pad(Content(fs[k]), TAR_BLOCK)])
    \o [k \in 1..TAR_BLOCK |-> <<"pad">>]

\* The files of an archive, at most max of them: a header, then the data in
\* whole blocks, until an empty block or the end.
initramfs_init(archive, max) ==
    LET scan[off \in 0..Len(archive)] ==
            IF off + TAR_BLOCK > Len(archive) THEN <<>>
            ELSE IF archive[off + 1][1] = "pad" THEN <<>>
            ELSE LET h == archive[off + 1][2]
                     data == off + TAR_BLOCK
                     rest == scan[data + Ceil(h.size, TAR_BLOCK) * TAR_BLOCK]
                 IN  IF h.dir THEN rest
                     ELSE <<[name |-> h.name, data |-> data, size |-> h.size]>> \o rest
    IN  SubSeq(scan[0], 1, IF Len(scan[0]) < max THEN Len(scan[0]) ELSE max)

-----------------------------------------------------------------------------
(* The block layer. *)

\* What a read gives: whether it succeeded and the bytes.
Failed == [ok |-> FALSE, bytes |-> <<>>]
Bytes(s) == [ok |-> TRUE, bytes |-> s]

block_count(disk) == Len(disk) \div SECTOR

\* The sectors from lba on, of the disk on device dev; broken: the device
\* reports an error or does not answer in time, which only ATA can.
block_root_read(dev, disk, lba, blocks, broken) ==
    IF dev = "none" \/ lba + blocks > block_count(disk) \/ blocks = 0 \/ (broken /\ dev = "ata")
    THEN Failed
    ELSE Bytes(SubSeq(disk, lba * SECTOR + 1, (lba + blocks) * SECTOR))

=============================================================================
