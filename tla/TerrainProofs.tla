--------------------------- MODULE TerrainProofs ---------------------------
(***************************************************************************)
(* Proofs about the parallel renderer (Terrain) for every number of CPUs,  *)
(* every set of CPUs online, every job and every length of the wait.       *)
(***************************************************************************)
EXTENDS Terrain, TLAPS

Cells == Slices \X (1..ROWS)

\* The types the proofs need, and the range of the scan over the CPUs.
TypeInv ==
    /\ online \subseteq Workers
    /\ job \in Jobs /\ buffer \in Buffers /\ tmp \in Buffers
    /\ frame \in [Cells -> Colours]
    /\ cpu \in 1..NCpu /\ (pc = "redraw" => cpu < NCpu)
    /\ wpc \in [Workers -> {"idle", "test", "load", "draw", "report"}]
    /\ wbuf \in [Workers -> Buffers] /\ wrow \in [Workers -> 1..ROWS]

\* Every step keeps the types.
LEMMA TypeStep == TypeInv /\ [Next]_vars => TypeInv'
<1> SUFFICES ASSUME TypeInv, [Next]_vars PROVE TypeInv'
  OBVIOUS
<1> USE DEF TypeInv, shared, master, worker, vars
<1>1. ASSUME NEW j \in Jobs, NEW b \in Buffers, StoreJob(j, b) PROVE TypeInv'
  BY <1>1 DEF StoreJob
<1>2. CASE StoreBuffer \/ StoreMasks \/ Publish \/ Close \/ CopyAndFree
  BY <1>2 DEF StoreBuffer, StoreMasks, Publish, Close, CopyAndFree
<1>3. CASE ClearSky
  BY <1>3 DEF ClearSky, Colours
<1>4. CASE RenderOwn
  BY <1>4 DEF RenderOwn, Drawn, Colours
<1>5. CASE Spin \/ StopWaiting
  BY <1>5, TerrainAssumption DEF Spin, StopWaiting
<1>6. CASE ScanDone \/ ScanMissing
  BY <1>6, TerrainAssumption DEF ScanDone, ScanMissing
<1>7. CASE Redraw
  BY <1>7, TerrainAssumption DEF Redraw, Drawn, Colours
<1>8. CASE DrawObjects
  BY <1>8 DEF DrawObjects, Colours
<1>9. ASSUME NEW w \in Workers, PollActive(w) \/ TestDone(w) \/ LoadBuffer(w) \/ Report(w) PROVE TypeInv'
  BY <1>9 DEF PollActive, TestDone, LoadBuffer, Report, Goto, ROWS
<1>10. ASSUME NEW w \in Workers, DrawRow(w) PROVE TypeInv'
  <2>1. frame' \in [Cells -> Colours]
    BY <1>10 DEF DrawRow, Colours
  <2>2. wpc' \in [Workers -> {"idle", "test", "load", "draw", "report"}] /\ wrow' \in [Workers -> 1..ROWS]
    BY <1>10 DEF DrawRow, Goto, ROWS
  <2> QED BY <1>10, <2>1, <2>2 DEF DrawRow
<1>11. ASSUME NEW b \in Buffers, OthersAlloc(b) \/ OthersFree(b) PROVE TypeInv'
  BY <1>11 DEF OthersAlloc, OthersFree
<1>12. ASSUME NEW w \in Workers, ComesOnline(w) PROVE TypeInv'
  BY <1>12 DEF ComesOnline
<1>13. CASE UNCHANGED vars
  BY <1>13
<1> QED
  BY <1>1, <1>2, <1>3, <1>4, <1>5, <1>6, <1>7, <1>8, <1>9, <1>10, <1>11, <1>12, <1>13
  DEF Next, Master, WorkerStep

-----------------------------------------------------------------------------
(* Where the workers draw. *)

Waited == {"scan", "redraw", "objects", "close", "copy"}
Open == {"sky", "publish", "own", "spin"}

\* Unless a call gave up on somebody: a worker is inside render_slice only while
\* the master prepares the frame or waits, and has not reported; a worker that
\* has read the active flag and not yet tested its done bit will find it set if
\* the wait is over.  Once the scan is over every bit is set, so a CPU that comes
\* online then finds nothing to do.
WriteInv ==
    /\ \A w \in Workers : w \notin online => wpc[w] = "idle"
    /\ pc # "user" => tmp \in inUse
    /\ pc \notin {"user", "buffer"} => buffer = tmp
    /\ active => pc \in {"own", "spin", "scan", "redraw", "objects", "close"}
    /\ pc \in {"objects", "close", "copy"} => Workers \subseteq done_mask
    /\ pc \in {"scan", "redraw"} => \A w \in Workers : w < cpu => w \in done_mask
    /\ ~late =>
        /\ pc \in Waited => online \subseteq done_mask
        /\ \A w \in Workers :
            /\ wpc[w] \in {"load", "draw", "report"} => pc \in Open /\ w \notin done_mask
            /\ wpc[w] = "draw" => wbuf[w] = tmp
            /\ wpc[w] = "test" => w \in done_mask \/ pc \in Open

\* Every step keeps it.
LEMMA WriteStep == TypeInv /\ WriteInv /\ [Next]_vars => WriteInv'
<1> SUFFICES ASSUME TypeInv, WriteInv, [Next]_vars PROVE WriteInv'
  OBVIOUS
<1> USE DEF WriteInv, Waited, Open, shared, master, worker, vars
<1> DEFINE T == wpc \in [Workers -> {"idle", "test", "load", "draw", "report"}] /\ wbuf \in [Workers -> Buffers]
<1>0. T /\ online \subseteq Workers
  BY DEF TypeInv
<1>1. ASSUME NEW j \in Jobs, NEW b \in Buffers, StoreJob(j, b) PROVE WriteInv'
  BY <1>1 DEF StoreJob
<1>2. CASE StoreBuffer
  BY <1>2 DEF StoreBuffer
<1>3. CASE StoreMasks
  BY <1>3 DEF StoreMasks
<1>4. CASE ClearSky \/ Publish
  BY <1>4 DEF ClearSky, Publish
<1>5. CASE RenderOwn
  BY <1>5, TerrainAssumption DEF RenderOwn, Workers
<1>6. CASE Spin
  BY <1>6 DEF Spin
<1>7. CASE StopWaiting
  <2>1. \A w \in Workers : ~(w < 1)
    BY TerrainAssumption DEF Workers
  <2> QED BY <1>7, <1>0, <2>1 DEF StopWaiting
<1>8. CASE ScanDone \/ ScanMissing \/ Redraw
  <2>1. NCpu \in Nat /\ cpu \in Nat /\ \A w \in Workers : w \in Nat /\ w < NCpu
    BY TerrainAssumption DEF Workers, TypeInv
  <2> QED BY <1>8, <2>1 DEF ScanDone, ScanMissing, Redraw
<1>9. CASE DrawObjects \/ Close \/ CopyAndFree
  BY <1>9 DEF DrawObjects, Close, CopyAndFree
<1>10. ASSUME NEW w \in Workers, PollActive(w) PROVE WriteInv'
  BY <1>10, <1>0 DEF PollActive, Goto
<1>11. ASSUME NEW w \in Workers, TestDone(w) PROVE WriteInv'
  BY <1>11, <1>0 DEF TestDone, Goto
<1>12. ASSUME NEW w \in Workers, LoadBuffer(w) PROVE WriteInv'
  BY <1>12, <1>0 DEF LoadBuffer, Goto
<1>13. ASSUME NEW w \in Workers, DrawRow(w) PROVE WriteInv'
  BY <1>13, <1>0 DEF DrawRow, Goto
<1>14. ASSUME NEW w \in Workers, Report(w) PROVE WriteInv'
  BY <1>14, <1>0 DEF Report, Goto
<1>15. ASSUME NEW b \in Buffers, OthersAlloc(b) \/ OthersFree(b) PROVE WriteInv'
  BY <1>15 DEF OthersAlloc, OthersFree
<1>16. ASSUME NEW w \in Workers, ComesOnline(w) PROVE WriteInv'
  BY <1>16, <1>0 DEF ComesOnline
<1>17. CASE UNCHANGED vars
  BY <1>17
<1> QED
  BY <1>1, <1>2, <1>3, <1>4, <1>5, <1>6, <1>7, <1>8, <1>9, <1>10, <1>11, <1>12, <1>13, <1>14,
     <1>15, <1>16, <1>17
  DEF Next, Master, WorkerStep

\* A worker never draws into a block that is not the frame of the call in progress,
\* on any number of CPUs, unless a call stopped waiting for an online worker.
THEOREM WritesStayInFrame == Spec => []NoStrayWrite
<1>1. Init => TypeInv /\ WriteInv
  BY TerrainAssumption DEF Init, TypeInv, WriteInv, Waited, Open, Cells, Colours, ROWS
<1>2. WriteInv => NoStrayWrite
  BY DEF WriteInv, NoStrayWrite, Open
<1> QED
  BY <1>1, <1>2, TypeStep, WriteStep, PTL DEF Spec

-----------------------------------------------------------------------------
(* What the frame shows. *)

Before == {"buffer", "masks", "sky", "publish"}
During == {"own", "spin", "scan", "redraw", "objects", "close", "copy"}

\* The cell shows this job; the objects may be on top once they are drawn.
Good(s, r) ==
    \/ frame[<<s, r>>] = Ground(job)
    \/ pc \in {"close", "copy"} /\ r = ROWS /\ frame[<<s, r>>] = Object(job)

\* In a call that began with every worker idle: nobody is busy before the job is
\* published; the rows a worker has drawn, and the slices that are reported, are
\* good; the scan leaves only reported slices behind.
FrameInv ==
    clean =>
      /\ pc \in Before => \A w \in Workers : wpc[w] = "idle"
      /\ pc \in {"sky", "publish"} => done_mask = {}
      /\ pc \in During =>
          /\ \A w \in Workers :
              /\ wpc[w] = "draw" => wbuf[w] = tmp /\ \A r \in 1..ROWS : r < wrow[w] => Good(w, r)
              /\ wpc[w] = "report" => \A r \in 1..ROWS : Good(w, r)
          /\ \A s \in Slices : s \in done_mask => \A r \in 1..ROWS : Good(s, r)
      /\ pc = "spin" => 0 \in done_mask
      /\ pc \in {"scan", "redraw"} => \A s \in Slices : s < cpu => s \in done_mask
      /\ pc \in {"objects", "close", "copy"} => Slices \subseteq done_mask
      /\ ~late /\ pc \in {"close", "copy"} => \A s \in Slices : frame[<<s, ROWS>>] = Object(job)

\* Every step keeps it.
LEMMA FrameStep == TypeInv /\ WriteInv /\ FrameInv /\ [Next]_vars => FrameInv'
<1> SUFFICES ASSUME TypeInv, WriteInv, FrameInv, [Next]_vars, clean' PROVE FrameInv'
  BY DEF FrameInv
<1> USE DEF FrameInv, Before, During, shared, master, worker, vars
<1>0. /\ NCpu \in Nat /\ NCpu > 0 /\ 0 \in Slices /\ \A w \in Workers : w \in Slices /\ w # 0
      /\ \A s \in Slices : s \in Nat /\ s < NCpu
      /\ ROWS = 2 /\ 1..ROWS = {1, 2}
  BY TerrainAssumption DEF Slices, Workers, ROWS
<1>a. /\ frame \in [Cells -> Colours] /\ cpu \in 1..NCpu
      /\ wpc \in [Workers -> {"idle", "test", "load", "draw", "report"}]
      /\ wbuf \in [Workers -> Buffers] /\ wrow \in [Workers -> 1..ROWS]
      /\ \A s \in Slices : \A r \in 1..ROWS : <<s, r>> \in Cells
  BY DEF TypeInv, Cells
<1>1. ASSUME NEW j \in Jobs, NEW b \in Buffers, StoreJob(j, b) PROVE FrameInv'
  BY <1>1 DEF StoreJob
<1>2. CASE StoreBuffer \/ StoreMasks \/ ClearSky
  BY <1>2 DEF StoreBuffer, StoreMasks, ClearSky
<1>3. CASE Publish
  BY <1>3 DEF Publish
<1>4. CASE RenderOwn
  <2>1. \A s \in Slices : \A r \in 1..ROWS :
            frame'[<<s, r>>] = IF s = 0 THEN Ground(job) ELSE frame[<<s, r>>]
    BY <1>4, <1>a DEF RenderOwn, Drawn
  <2> QED BY <1>4, <1>0, <2>1 DEF RenderOwn, Good
<1>5. CASE Spin
  BY <1>5 DEF Spin, Good
<1>6. CASE StopWaiting
  BY <1>6, <1>0 DEF StopWaiting, Good
<1>7. CASE ScanDone
  BY <1>7, <1>0, <1>a DEF ScanDone, Good
<1>8. CASE ScanMissing
  BY <1>8 DEF ScanMissing, Good
<1>9. CASE Redraw
  <2>1. \A s \in Slices : \A r \in 1..ROWS :
            frame'[<<s, r>>] = IF s = cpu THEN Ground(job) ELSE frame[<<s, r>>]
    BY <1>9, <1>a DEF Redraw, Drawn
  <2> QED BY <1>9, <1>0, <1>a, <2>1 DEF Redraw, Good
<1>10. CASE DrawObjects
  <2>1. \A s \in Slices : \A r \in 1..ROWS :
            frame'[<<s, r>>] = IF r = ROWS THEN Object(job) ELSE frame[<<s, r>>]
    BY <1>10, <1>a DEF DrawObjects
  <2>2. \A s \in Slices : \A r \in 1..ROWS : Good(s, r) => Good(s, r)'
    BY <1>10, <2>1 DEF DrawObjects, Good
  <2>3. \A s \in Slices : frame'[<<s, ROWS>>] = Object(job)
    BY <1>0, <2>1
  <2> HIDE DEF FrameInv
  <2>4. clean /\ pc = "objects" /\ pc' = "close" /\ job' = job /\ tmp' = tmp
        /\ wpc' = wpc /\ wbuf' = wbuf /\ wrow' = wrow /\ done_mask' = done_mask /\ late' = late
    BY <1>10 DEF DrawObjects
  <2> QED BY <1>0, <2>2, <2>3, <2>4 DEF FrameInv
<1>11. CASE Close \/ CopyAndFree
  BY <1>11 DEF Close, CopyAndFree, Good
<1>12. ASSUME NEW w \in Workers, PollActive(w) PROVE FrameInv'
  BY <1>12, <1>a DEF PollActive, Goto, Good, WriteInv
<1>13. ASSUME NEW w \in Workers, TestDone(w) PROVE FrameInv'
  BY <1>13, <1>a DEF TestDone, Goto, Good
<1>14. ASSUME NEW w \in Workers, LoadBuffer(w) PROVE FrameInv'
  BY <1>14, <1>0, <1>a DEF LoadBuffer, Goto, Good, WriteInv
<1>15. ASSUME NEW w \in Workers, DrawRow(w) PROVE FrameInv'
  <2>1. pc \in During => wbuf[w] = tmp
    BY <1>15 DEF DrawRow
  <2>2. pc \in During => \A s \in Slices : \A r \in 1..ROWS :
            frame'[<<s, r>>] = IF s = w /\ r = wrow[w] THEN Ground(job) ELSE frame[<<s, r>>]
    BY <1>15, <1>a, <2>1 DEF DrawRow
  <2>3. pc \in {"close", "copy"} => late
    BY <1>15 DEF DrawRow, WriteInv, Open
  <2> QED BY <1>15, <1>0, <1>a, <2>2, <2>3 DEF DrawRow, Goto, Good
<1>16. ASSUME NEW w \in Workers, Report(w) PROVE FrameInv'
  BY <1>16, <1>0, <1>a DEF Report, Goto, Good
<1>17. ASSUME NEW b \in Buffers, OthersAlloc(b) \/ OthersFree(b) PROVE FrameInv'
  BY <1>17 DEF OthersAlloc, OthersFree, Good
<1>18. ASSUME NEW w \in Workers, ComesOnline(w) PROVE FrameInv'
  BY <1>18 DEF ComesOnline, Good
<1>19. CASE UNCHANGED vars
  BY <1>19 DEF Good
<1> QED
  BY <1>1, <1>2, <1>3, <1>4, <1>5, <1>6, <1>7, <1>8, <1>9, <1>10, <1>11, <1>12, <1>13, <1>14,
     <1>15, <1>16, <1>17, <1>18, <1>19
  DEF Next, Master, WorkerStep

\* The invariants hold at boot, when no CPU has a job.
LEMMA FrameInit == Init => TypeInv /\ WriteInv /\ FrameInv
  BY TerrainAssumption
  DEF Init, TypeInv, WriteInv, FrameInv, Waited, Open, Before, During, Cells, Colours, ROWS

\* The frame the caller gets shows the job in every cell, on any number of CPUs and
\* however many of them answer late or never, if no worker was busy at the start.
LEMMA FramesComplete == Spec => []FrameComplete
<1>1. TypeInv /\ FrameInv => FrameComplete
  BY DEF TypeInv, FrameInv, FrameComplete, During, Good, Cells
<1> QED
  BY <1>1, FrameInit, TypeStep, WriteStep, FrameStep, PTL DEF Spec

\* If nobody was late either, it is the frame one CPU would have drawn.
LEMMA FramesExact == Spec => []FrameExact
<1>1. TypeInv /\ FrameInv => FrameExact
  <2> SUFFICES ASSUME TypeInv, FrameInv, pc = "copy", clean, ~late, NEW c \in DOMAIN frame
               PROVE  frame[c] = IF c[2] = ROWS THEN Object(job) ELSE Ground(job)
    BY DEF FrameExact
  <2>1. c = <<c[1], c[2]>> /\ c[1] \in Slices /\ c[2] \in 1..ROWS
    BY DEF TypeInv, Cells
  <2>2. Good(c[1], c[2]) /\ frame[<<c[1], ROWS>>] = Object(job)
    BY <2>1 DEF FrameInv, During
  <2> QED BY <2>1, <2>2 DEF Good
<1> QED
  BY <1>1, FrameInit, TypeStep, WriteStep, FrameStep, PTL DEF Spec

\* What the caller gets, for any number of CPUs, buffers, jobs and spins.
THEOREM FramesShowJob == Spec => []FrameShowsJob
<1>1. FrameComplete /\ FrameExact => FrameShowsJob
  BY DEF FrameShowsJob
<1> QED BY <1>1, FramesComplete, FramesExact, PTL

=============================================================================
