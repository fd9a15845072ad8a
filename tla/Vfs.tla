-------------------------------- MODULE Vfs --------------------------------
(***************************************************************************)
(* kernel/vfs.c: one tree of names over the archive in memory and, under   *)
(* /disk, the OREFS disk.  A path is a sequence of components, the first   *)
(* of which is "/" when the path is absolute.                              *)
(***************************************************************************)
EXTENDS Storage, FiniteSets

CONSTANTS
    OREFS_MAX_ENTRIES,   \* the size of the table of disk entries
    MAX_FILES            \* the size of the table of archive files

ASSUME VfsAssumption == OREFS_MAX_ENTRIES \in Nat /\ MAX_FILES \in Nat

VARIABLES
    archive,        \* the archive in memory
    disk,           \* the bytes of the disk
    dev,            \* the device of the block layer
    mounted,        \* whether the archive is mounted
    disk_mounted,   \* whether the disk is mounted
    files,          \* the table of archive files
    disk_entries    \* the table of disk entries

mountVars == <<archive, disk, dev, mounted, disk_mounted, files, disk_entries>>

FILE == 1
DIR == 2

NotFound == [type |-> 0, size |-> 0]

\* The entries behind the header, read as whole sectors; Failed when there is
\* no disk, no file system on it, more entries than the table has room for,
\* no memory for the sectors or an error of the device.
mount_disk(d, fault) ==
    LET sector == block_root_read(d, disk, 0, 1, fault = "header")
        super == sector.bytes[1]
        count == super[2]
        sectors == Ceil(count * ENTRY_SIZE, SECTOR)
        tmp == block_root_read(d, disk, 1, sectors, fault = "entries")
    IN  IF ~sector.ok \/ super[1] # "OREFS1" \/ count > OREFS_MAX_ENTRIES THEN Failed
        ELSE IF sectors = 0 THEN Bytes(<<>>)
        ELSE IF fault = "heap" \/ ~tmp.ok THEN Failed
        ELSE Bytes([k \in 1..count |-> tmp.bytes[(k - 1) * ENTRY_SIZE + 1][2]])

\* The order of kernel_main: initramfs_init, block_init, vfs_mount_initramfs.
vfs_mount_initramfs(d, fault) ==
    /\ ~mounted
    /\ mounted' = TRUE
    /\ files' = initramfs_init(archive, MAX_FILES)
    /\ dev' = IF block_count(disk) = 0 THEN "none" ELSE d
    /\ disk_mounted' = mount_disk(dev', fault).ok
    /\ disk_entries' = mount_disk(dev', fault).bytes
    /\ UNCHANGED <<archive, disk>>

-----------------------------------------------------------------------------
(* Names. *)

\* Without a leading slash.
Strip(p) == IF p # <<>> /\ p[1] = "/" THEN Tail(p) ELSE p

disk_path(p) == Len(p) >= 2 /\ p[1] = "/" /\ p[2] = "disk"
Rel(p) == SubSeq(p, 3, Len(p))

OnDisk(p) == disk_mounted /\ disk_path(p)

Lookup(table, q) == SelectInSeq(table, LAMBDA f : f.name = q)

initramfs_lookup_raw(p) == Lookup(files, Strip(p))

disk_lookup(r) == Lookup(disk_entries, Strip(IF disk_path(r) THEN Rel(r) ELSE r))

starts_with_dir(name, dir) == IsStrictPrefix(dir, name)

HasChildren(table, dir) == \E k \in DOMAIN table : starts_with_dir(table[k].name, dir)

path_has_children(dir) == HasChildren(files, dir)
disk_has_children(rel) == HasChildren(disk_entries, rel)

File(f) == [type |-> FILE, size |-> f.size]
Directory == [type |-> DIR, size |-> 0]

vfs_stat(p) ==
    LET table == IF OnDisk(p) THEN disk_entries ELSE files
        k == IF OnDisk(p) THEN disk_lookup(Rel(p)) ELSE initramfs_lookup_raw(p)
        children == IF OnDisk(p) THEN disk_has_children(Rel(p)) ELSE path_has_children(Strip(p))
    IN  IF ~mounted THEN NotFound
        ELSE IF p = <<"/">> \/ (OnDisk(p) /\ Rel(p) = <<>>) THEN Directory
        ELSE IF k # 0 THEN File(table[k])
        ELSE IF children THEN Directory ELSE NotFound

-----------------------------------------------------------------------------
(* Directories. *)

\* What the entry f shows of itself in dir.
direct_child(dir, f) ==
    LET x == f.name[Len(dir) + 1]
    IN  IF Len(f.name) > Len(dir) + 1 THEN [name |-> x, type |-> DIR, size |-> 0]
        ELSE [name |-> x, type |-> FILE, size |-> f.size]

IsChild(table, dir, k) == starts_with_dir(table[k].name, dir)

\* Compares only with the entry before.
Shown_Neighbour(table, dir) ==
    {i \in DOMAIN table :
        /\ IsChild(table, dir, i)
        /\ ~\E j \in {i - 1} \cap DOMAIN table :
               /\ IsChild(table, dir, j)
               /\ direct_child(dir, table[j]).name = direct_child(dir, table[i]).name}

\* The entries that are the first to show their child of dir.
Shown(table, dir) ==
    {i \in DOMAIN table :
        /\ IsChild(table, dir, i)
        /\ ~\E j \in 1..i - 1 : /\ IsChild(table, dir, j)
                                /\ direct_child(dir, table[j]).name = direct_child(dir, table[i]).name}

\* The child with the number index, from 0; <<>> behind the last.
vfs_readdir_path(p, index) ==
    LET table == IF OnDisk(p) THEN disk_entries ELSE files
        dir == IF OnDisk(p) THEN Rel(p) ELSE Strip(p)
        shown == Shown(table, dir)
        hit == {i \in shown : Cardinality({j \in shown : j < i}) = index}
    IN  IF ~mounted THEN <<>>
        ELSE IF hit # {} THEN LET i == CHOOSE i \in hit : TRUE IN <<direct_child(dir, table[i])>>
        ELSE IF ~OnDisk(p) /\ dir = <<>> /\ disk_mounted /\ index = Cardinality(shown)
        THEN <<[name |-> "disk", type |-> DIR, size |-> 0]>>
        ELSE <<>>

-----------------------------------------------------------------------------
(* Reading. *)

SectorsFor_Extra(lba_off, n) == (lba_off + n) \div SECTOR + 1

\* How many sectors hold n bytes from byte lba_off of the first one on.
SectorsFor(lba_off, n) == Ceil(lba_off + n, SECTOR)

\* Up to len bytes from offset on; Failed for -1.
vfs_read_file_at(p, offset, len, fault) ==
    LET table == IF OnDisk(p) THEN disk_entries ELSE files
        k == IF OnDisk(p) THEN disk_lookup(Rel(p)) ELSE initramfs_lookup_raw(p)
        f == table[k]
        n == IF f.size - offset < len THEN f.size - offset ELSE len
        at == f.offset + offset
        sectors == SectorsFor(at % SECTOR, n)
        tmp == block_root_read(dev, disk, at \div SECTOR, sectors, fault = "device")
    IN  IF ~mounted \/ k = 0 THEN Failed
        ELSE IF offset >= f.size THEN Bytes(<<>>)
        ELSE IF ~OnDisk(p) THEN Bytes(SubSeq(archive, f.data + offset + 1, f.data + offset + n))
        ELSE IF fault = "heap" \/ sectors = 0 \/ ~tmp.ok THEN Failed
        ELSE Bytes(SubSeq(tmp.bytes, (at % SECTOR) + 1, (at % SECTOR) + n))

=============================================================================
