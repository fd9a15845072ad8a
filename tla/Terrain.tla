------------------------------- MODULE Terrain -------------------------------
(***************************************************************************)
(* The parallel frame renderer of kernel/terrain.c and the system call     *)
(* that drives it (kernel/syscall.c, ORE_SYS_TERRAIN_RENDER).              *)
(*                                                                         *)
(* CPU 0, the master, allocates a frame from the heap, publishes a job in  *)
(* the shared record terrain_job, renders slice 0, waits a bounded number  *)
(* of spins for the other CPUs, renders what they did not report, draws    *)
(* the objects, copies the frame to the caller and frees it.  The other    *)
(* CPUs poll the record from the idle loop of ap_main.  There is no lock:  *)
(* every access to terrain_job is a step of its own here, in the order of  *)
(* the code.                                                               *)
(*                                                                         *)
(* A frame is one cell per slice and row; row 1 shows terrain only, row 2  *)
(* also an object.  started_mask, objects and generation are written and   *)
(* never decide anything, so they are left out.                            *)
(***************************************************************************)
EXTENDS Naturals

CONSTANTS
    NCpu,      \* g_cpu_count, at most TERRAIN_MAX_WORKERS
    Buffers,   \* the heap blocks a frame can get
    Jobs,      \* the OreTerrainJob values callers pass
    SPIN       \* 4000000 in the code: the spins the master waits

ASSUME TerrainAssumption == NCpu \in 1..8 /\ SPIN \in Nat

Workers == 1..(NCpu - 1)
Slices == 0..(NCpu - 1)
ROWS == 2

Sky == <<"sky">>
Ground(j) == <<"ground", j>>
Object(j) == <<"object", j>>
Colours == {Sky} \cup {Ground(j) : j \in Jobs} \cup {Object(j) : j \in Jobs}

VARIABLES
    online,        \* the CPUs that reached the idle loop of ap_main
    active, job, buffer, worker_count, done_mask,    \* terrain_job
    inUse,         \* the heap blocks that are allocated, to anyone
    frame,         \* the contents of the frame the master allocated
    pc, tmp, spin, cpu, \* the master: where it is, its frame, two loop counters
    wpc,           \* the workers: where each one is in terrain_worker_poll
    wbuf,          \* the buffer it loaded in render_slice
    wrow,          \* the row it draws next
    clean,         \* history: no worker was inside a poll when this call began
    late           \* history: this call stopped waiting for an online worker,
                   \* or one came online after that, or it happened in an
                   \* earlier call and a worker has been busy since

shared == <<active, job, buffer, worker_count, done_mask>>
master == <<pc, tmp, spin, cpu, clean, late>>
worker == <<wpc, wbuf, wrow>>
vars == <<online, shared, inUse, frame, master, worker>>

Init ==
    /\ online \in SUBSET Workers
    /\ active = FALSE /\ job \in Jobs /\ buffer \in Buffers /\ worker_count = 0
    /\ done_mask = {}
    /\ inUse = {}
    /\ frame = [c \in Slices \X (1..ROWS) |-> Sky]
    /\ pc = "user" /\ tmp = buffer /\ spin = 0 /\ cpu = 1
    /\ wpc = [w \in Workers |-> "idle"]
    /\ wbuf = [w \in Workers |-> buffer]
    /\ wrow = [w \in Workers |-> 1]
    /\ clean = TRUE /\ late = FALSE

\* render_slice on the frame: every row of the slice shows the job's ground.
Drawn(f, slice, j) ==
    [c \in DOMAIN f |-> IF c[1] = slice THEN Ground(j) ELSE f[c]]

All == Slices

-----------------------------------------------------------------------------
(* The master. *)

\* The call: kmalloc of the frame, then terrain_job.job = *job.
StoreJob(j, b) ==
    /\ pc = "user" /\ b \notin inUse
    /\ inUse' = inUse \cup {b}
    /\ job' = j
    /\ clean' = (\A w \in Workers : wpc[w] = "idle")
    /\ late' = (late /\ ~clean')
    /\ pc' = "buffer" /\ tmp' = b
    /\ UNCHANGED <<online, active, buffer, worker_count, done_mask, frame,
                   spin, cpu, worker>>

StoreBuffer ==
    /\ pc = "buffer"
    /\ buffer' = tmp
    /\ worker_count' = NCpu
    /\ pc' = "masks"
    /\ UNCHANGED <<online, tmp, active, job, done_mask, inUse, frame, spin, cpu,
                   clean, late, worker>>

StoreMasks ==
    /\ pc = "masks"
    /\ done_mask' = {}
    /\ pc' = "sky"
    /\ UNCHANGED <<online, tmp, active, job, buffer, worker_count, inUse, frame,
                   spin, cpu, clean, late, worker>>

ClearSky ==
    /\ pc = "sky"
    /\ frame' = [c \in DOMAIN frame |-> Sky]
    /\ pc' = "publish"
    /\ UNCHANGED <<online, tmp, shared, inUse, spin, cpu, clean, late, worker>>

Publish ==
    /\ pc = "publish"
    /\ active' = TRUE
    /\ pc' = "own"
    /\ UNCHANGED <<online, tmp, job, buffer, worker_count, done_mask, inUse, frame,
                   spin, cpu, clean, late, worker>>

RenderOwn ==
    /\ pc = "own"
    /\ frame' = Drawn(frame, 0, job)
    /\ done_mask' = done_mask \cup {0}
    /\ pc' = "spin" /\ spin' = 0
    /\ UNCHANGED <<online, tmp, active, job, buffer, worker_count, inUse, cpu,
                   clean, late, worker>>

Spin_NoBound ==
    /\ pc = "spin" /\ done_mask # All
    /\ UNCHANGED vars

Spin ==
    /\ pc = "spin" /\ spin < SPIN /\ done_mask # All
    /\ spin' = spin + 1
    /\ UNCHANGED <<online, tmp, shared, inUse, frame, pc, cpu, clean, late, worker>>

\* The spin loop ends: every bit is there, or the count has run out.
StopWaiting ==
    /\ pc = "spin" /\ (spin >= SPIN \/ done_mask = All)
    /\ pc' = "scan" /\ cpu' = 1
    /\ late' = (late \/ ~(online \subseteq done_mask))
    /\ UNCHANGED <<online, tmp, shared, inUse, frame, spin, clean, worker>>

ScanDone_TrustsAll ==
    /\ pc = "scan"
    /\ pc' = IF cpu < NCpu THEN "scan" ELSE "objects"
    /\ cpu' = IF cpu < NCpu THEN cpu + 1 ELSE cpu
    /\ UNCHANGED <<online, tmp, shared, inUse, frame, spin, clean, late, worker>>

\* One test of the loop over the CPUs: the bit is there, or the loop ends.
ScanDone ==
    /\ pc = "scan" /\ (cpu >= NCpu \/ cpu \in done_mask)
    /\ pc' = IF cpu < NCpu THEN "scan" ELSE "objects"
    /\ cpu' = IF cpu < NCpu THEN cpu + 1 ELSE cpu
    /\ UNCHANGED <<online, tmp, shared, inUse, frame, spin, clean, late, worker>>

\* ... or it is not, and the master will render that slice.
ScanMissing ==
    /\ pc = "scan" /\ cpu < NCpu /\ cpu \notin done_mask
    /\ pc' = "redraw"
    /\ UNCHANGED <<online, tmp, shared, inUse, frame, spin, cpu, clean, late, worker>>

Redraw ==
    /\ pc = "redraw"
    /\ frame' = Drawn(frame, cpu, job)
    /\ done_mask' = done_mask \cup {cpu}
    /\ pc' = "scan" /\ cpu' = cpu + 1
    /\ UNCHANGED <<online, tmp, active, job, buffer, worker_count, inUse, spin,
                   clean, late, worker>>

DrawObjects ==
    /\ pc = "objects"
    /\ frame' = [c \in DOMAIN frame |-> IF c[2] = ROWS THEN Object(job) ELSE frame[c]]
    /\ pc' = "close"
    /\ UNCHANGED <<online, tmp, shared, inUse, spin, cpu, clean, late, worker>>

Close ==
    /\ pc = "close"
    /\ active' = FALSE
    /\ pc' = "copy"
    /\ UNCHANGED <<online, tmp, job, buffer, worker_count, done_mask, inUse, frame,
                   spin, cpu, clean, late, worker>>

\* The checksum and the two copy_to_user calls, then kfree of the frame and
\* the return to the caller, on success and on failure of a copy alike.
CopyAndFree ==
    /\ pc = "copy"
    /\ inUse' = inUse \ {tmp}
    /\ pc' = "user"
    /\ UNCHANGED <<online, tmp, shared, frame, spin, cpu, clean, late, worker>>

Master ==
    \/ \E j \in Jobs, b \in Buffers : StoreJob(j, b)
    \/ StoreBuffer \/ StoreMasks \/ ClearSky \/ Publish \/ RenderOwn
    \/ Spin \/ StopWaiting \/ ScanDone \/ ScanMissing \/ Redraw
    \/ DrawObjects \/ Close \/ CopyAndFree

-----------------------------------------------------------------------------
(* The workers: one call of terrain_worker_poll per timer interrupt.       *)

Goto(w, l) == wpc' = [wpc EXCEPT ![w] = l]

\* ap_main on a CPU that smp_init gave up on: nobody tells the master.
ComesOnline(w) ==
    /\ w \notin online
    /\ online' = online \cup {w}
    /\ late' = (late \/ (pc \in {"scan", "redraw"} /\ w \notin done_mask))
    /\ UNCHANGED <<shared, inUse, frame, pc, tmp, spin, cpu, clean, worker>>

PollActive(w) ==
    /\ w \in online /\ wpc[w] = "idle"
    /\ active /\ w < worker_count
    /\ Goto(w, "test")
    /\ UNCHANGED <<online, shared, inUse, frame, master, wbuf, wrow>>

TestDone_Skipped(w) ==
    /\ wpc[w] = "test"
    /\ Goto(w, "load")
    /\ UNCHANGED <<online, shared, inUse, frame, master, wbuf, wrow>>

TestDone(w) ==
    /\ wpc[w] = "test"
    /\ Goto(w, IF w \in done_mask THEN "idle" ELSE "load")
    /\ UNCHANGED <<online, shared, inUse, frame, master, wbuf, wrow>>

LoadBuffer_ReportsFirst(w) ==
    /\ wpc[w] = "load"
    /\ Goto(w, "draw")
    /\ wbuf' = [wbuf EXCEPT ![w] = buffer]
    /\ wrow' = [wrow EXCEPT ![w] = 1]
    /\ done_mask' = done_mask \cup {w}
    /\ UNCHANGED <<online, active, job, buffer, worker_count, inUse, frame, master>>

LoadBuffer(w) ==
    /\ wpc[w] = "load"
    /\ Goto(w, "draw")
    /\ wbuf' = [wbuf EXCEPT ![w] = buffer]
    /\ wrow' = [wrow EXCEPT ![w] = 1]
    /\ UNCHANGED <<online, shared, inUse, frame, master>>

\* One row: the job's fields are read through the pointer, row by row.  A
\* write to a block that is not the master's frame leaves the frame alone.
DrawRow(w) ==
    /\ wpc[w] = "draw"
    /\ frame' = IF wbuf[w] = tmp
                THEN [frame EXCEPT ![<<w, wrow[w]>>] = Ground(job)] ELSE frame
    /\ IF wrow[w] < ROWS
       THEN wrow' = [wrow EXCEPT ![w] = @ + 1] /\ UNCHANGED wpc
       ELSE Goto(w, "report") /\ UNCHANGED wrow
    /\ UNCHANGED <<online, shared, inUse, master, wbuf>>

Report(w) ==
    /\ wpc[w] = "report"
    /\ done_mask' = done_mask \cup {w}
    /\ Goto(w, "idle")
    /\ UNCHANGED <<online, active, job, buffer, worker_count, inUse, frame,
                   master, wbuf, wrow>>

WorkerStep(w) ==
    ComesOnline(w) \/ PollActive(w) \/ TestDone(w) \/ LoadBuffer(w) \/ DrawRow(w) \/ Report(w)

-----------------------------------------------------------------------------
(* The rest of the kernel, which allocates and frees heap blocks between   *)
(* two render calls.                                                       *)

OthersAlloc(b) ==
    /\ pc = "user" /\ b \notin inUse
    /\ inUse' = inUse \cup {b}
    /\ UNCHANGED <<online, shared, frame, master, worker>>

OthersFree(b) ==
    /\ pc = "user" /\ b \in inUse
    /\ inUse' = inUse \ {b}
    /\ UNCHANGED <<online, shared, frame, master, worker>>

Next ==
    \/ Master
    \/ \E w \in Workers : WorkerStep(w)
    \/ \E b \in Buffers : OthersAlloc(b) \/ OthersFree(b)

\* Only the master's own progress is assumed, and only inside a call.
Fairness == WF_vars(Master /\ pc # "user")

Spec == Init /\ [][Next]_vars /\ Fairness

-----------------------------------------------------------------------------
(* Properties. *)

\* The frame handed to copy_to_user shows this job in every cell, with no sky
\* or earlier job left where a slice was skipped, even when the spin ran out
\* and a worker is still drawing.  It needs every worker to have been outside
\* terrain_worker_poll when the call began: the done bits carry no generation,
\* so a worker left over from an earlier call can report for this one.
FrameComplete ==
    pc = "copy" /\ clean => \A c \in DOMAIN frame : frame[c] \in {Ground(job), Object(job)}

\* If besides no online worker was given up on and none came online after the
\* wait, the frame is exactly the one a single CPU would have drawn: objects on
\* top of the ground, none painted over by a worker that came late.
FrameExact ==
    pc = "copy" /\ clean /\ ~late =>
        \A c \in DOMAIN frame :
            frame[c] = IF c[2] = ROWS THEN Object(job) ELSE Ground(job)

\* What the caller of terrain_render gets to see, late workers or not.
FrameShowsJob == FrameComplete /\ FrameExact

\* A worker draws only into the frame of the call in progress, never into a
\* block that kfree gave back or that somebody else got since, unless a call
\* stopped waiting for an online worker or one came online after the wait.
NoStrayWrite ==
    \A w \in Workers :
        wpc[w] = "draw" /\ ~(pc # "user" /\ wbuf[w] = tmp /\ tmp \in inUse) => late

\* Every call returns, whatever the workers do: a CPU that never came online,
\* or that stops in the middle of a slice, costs SPIN spins and no more.
CallReturns == (pc # "user") ~> (pc = "user")

=============================================================================
