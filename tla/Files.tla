------------------------------- MODULE Files -------------------------------
(***************************************************************************)
(* The file system calls of kernel/syscall.c over kernel/vfs.c: every      *)
(* process has a table of handles with a path and an offset each.  System  *)
(* calls are not preempted, so a call is one step.                         *)
(*                                                                         *)
(* Path and buffer pointers are abstracted to whether they are good.  The  *)
(* faults of a call are inputs: no memory for the sectors, or an error of  *)
(* the device.                                                             *)
(***************************************************************************)
EXTENDS Vfs

CONSTANTS
    Procs,
    ORE_MAX_HANDLES,
    TarFiles,     \* the files of the archive, with directories
    DiskFiles,    \* the files of the disk
    OtherDisks,   \* disks that are not mounted
    Paths,        \* the paths that are opened
    Lengths       \* the lengths that are asked for

ASSUME FilesAssumption == ORE_MAX_HANDLES \in Nat \ {0} /\ Lengths \subseteq Nat

VARIABLES
    handles,   \* the handles of every process
    out        \* the result of the last call: err, or the bytes delivered;
               \* for a read the length asked for and the fault it met

vars == <<mountVars, handles, out>>

Free == [type |-> 0, offset |-> 0, path |-> <<>>]

Result(err, bytes) == [err |-> err, bytes |-> bytes, len |-> 0, fault |-> "none"]

Init ==
    /\ archive = tar(TarFiles)
    /\ disk \in {mkorefs(DiskFiles)} \cup OtherDisks
    /\ dev = "none" /\ mounted = FALSE /\ disk_mounted = FALSE
    /\ files = <<>> /\ disk_entries = <<>>
    /\ handles = [p \in Procs |-> [h \in 0..ORE_MAX_HANDLES - 1 |-> Free]]
    /\ out = Result("", <<>>)

Boot ==
    /\ \E d \in {"fwcfg", "ata", "none"}, fault \in {"none", "header", "entries", "heap"} :
            vfs_mount_initramfs(d, fault)
    /\ UNCHANGED <<handles, out>>

-----------------------------------------------------------------------------
(* The system calls.  Handle 0 is never given out. *)

Refuse(err) == out' = Result(err, <<>>) /\ UNCHANGED handles

FreeHandles(p) == {h \in 1..ORE_MAX_HANDLES - 1 : handles[p][h].type = 0}

Opened(type, path) == [type |-> type, offset |-> 0, path |-> path]

Open(p) ==
    /\ mounted
    /\ \/ Refuse("EFAULT")   \* a bad path pointer
       \/ \E path \in Paths :
            LET type == vfs_stat(path).type
            IN  IF type = 0 THEN Refuse("ENOENT")
                ELSE IF FreeHandles(p) = {} THEN Refuse("EINVAL")
                ELSE LET h == Min(FreeHandles(p))
                     IN  /\ handles' = [handles EXCEPT ![p][h] = Opened(type, path)]
                         /\ out' = Result("", <<>>)
    /\ UNCHANGED mountVars

InUse(p) == {h \in DOMAIN handles[p] : handles[p][h].type # 0}

Close(p) ==
    /\ mounted
    /\ \E h \in 0..ORE_MAX_HANDLES :
        IF h \notin InUse(p) THEN Refuse("EBADF")
        ELSE /\ handles' = [handles EXCEPT ![p][h] = Free]
             /\ out' = Result("", <<>>)
    /\ UNCHANGED mountVars

\* What is left of the handle after a read of len that delivered bytes.
Advanced_ByLength(old, len, bytes) == [old EXCEPT !.offset = @ + len]

Advanced(old, len, bytes) == [old EXCEPT !.offset = @ + Len(bytes)]

FileRead(p) ==
    /\ mounted
    /\ \E h \in 0..ORE_MAX_HANDLES :
        IF h \notin InUse(p) THEN Refuse("EBADF")
        ELSE IF handles[p][h].type # FILE THEN Refuse("EBADF")
        ELSE \/ Refuse("EFAULT")   \* a bad buffer
             \/ \E len \in Lengths, fault \in {"none", "heap", "device"} :
                \E r \in {vfs_read_file_at(handles[p][h].path, handles[p][h].offset, len, fault)} :
                    /\ handles' = IF r.ok THEN [handles EXCEPT ![p][h] = Advanced(@, len, r.bytes)]
                                  ELSE handles
                    /\ out' = [err |-> IF r.ok THEN "" ELSE "failed", bytes |-> r.bytes, len |-> len,
                               fault |-> IF r.ok THEN "none" ELSE fault]
    /\ UNCHANGED mountVars

Next == Boot \/ \E p \in Procs : Open(p) \/ Close(p) \/ FileRead(p)

Spec == Init /\ [][Next]_vars

-----------------------------------------------------------------------------
(* Properties. *)

\* ORE_SYS_FILE_READ: a read of an open file fails only because of memory or
\* the device, or because nothing was asked for: the path still resolves, and
\* the sectors asked for lie on the disk, up to the last byte of the last file.
ReadFailsForAReason == out.err = "failed" => out.fault # "none" \/ out.len = 0

\* vfs_readdir_path and vfs_stat: counting up from 0 shows every child of a
\* directory once, without a gap, with the type and size that stat gives it,
\* and nothing that stat does not find.
Components == UNION {ToSet(f.name) : f \in ToSet(TarFiles) \cup ToSet(DiskFiles)} \cup {"disk"}

Directories == {<<"/">>, <<"/", "disk">>}
               \cup {<<"/", x>> : x \in Components} \cup {<<"/", "disk", x>> : x \in Components}

ListingAgreesWithStat ==
    \A comps \in {Components} :
    \A d \in {q \in Directories : vfs_stat(q).type = DIR} :
    \A listing \in {[n \in 0..Cardinality(comps) |-> vfs_readdir_path(d, n)]} :
        LET listed == {n \in DOMAIN listing : listing[n] # <<>>}
            names == [n \in listed |-> listing[n][1].name]
        IN  /\ listed = 0..Cardinality(listed) - 1
            /\ IsInjective(names)
            /\ \A x \in comps :
                \A st \in {vfs_stat(Append(d, x))} :
                    IF st.type = 0 THEN x \notin Range(names)
                    ELSE \E n \in listed : listing[n][1] = [name |-> x, type |-> st.type, size |-> st.size]

-----------------------------------------------------------------------------
(* The files as their authors know them. *)

Contents ==
    [q \in {f.name : f \in {g \in ToSet(TarFiles) : ~g.dir}} \cup {<<"disk">> \o f.name : f \in ToSet(DiskFiles)} |->
        Content(IF q[1] = "disk" THEN DiskFiles[SelectInSeq(DiskFiles, LAMBDA f : f.name = Tail(q))]
                ELSE TarFiles[SelectInSeq(TarFiles, LAMBDA f : f.name = q)])]

Cursor(h) ==
    IF h.type # FILE THEN <<>>
    ELSE <<[file |-> IF OnDisk(h.path) THEN <<"disk">> \o Strip(Rel(h.path)) ELSE Strip(h.path),
            at |-> h.offset]>>

Promise == INSTANCE Cursors WITH
    Handles <- 0..ORE_MAX_HANDLES - 1,
    cursor <- [p \in Procs |-> [h \in 0..ORE_MAX_HANDLES - 1 |-> Cursor(handles[p][h])]],
    delivered <- IF out.err = "" /\ out.len > 0 /\ out.bytes = <<>> THEN <<<<"end">>>> ELSE out.bytes

\* docs/readme: "open/read/close keep per-handle offsets instead of returning
\* only the first chunk of a file".  Whatever lengths are asked for, whatever
\* fails and whatever other handles do, a handle delivers exactly the bytes of
\* its file, in order, and reports the end only there.
ImplementsCursors == Promise!Spec

=============================================================================
