# A TLA+ model of OreOS

OreOS is a small x86_64 kernel: a UEFI loader, a kernel that runs one
preemptible set of ring 3 processes on CPU 0 and lends the other CPUs to a
rendering job, and user programs, among them a compiler, that reach the kernel
through the `syscall` instruction.  This directory holds a model of the parts
whose correctness depends on the order in which things happen or on many cases
at once, the configurations that check it with TLC, and proofs that TLAPS
checks.  `PROJECT.json` lists the runs, the theorems, the lines each definition
translates and the hazards of the code.

## The system

| Part | Source | Module |
|---|---|---|
| Processes and user scheduling | `kernel/process.c`, `kernel/syscall.c`, `arch/x86_64/user_entry.S`, `kernel/idt.c` | `Process`, `ProcessProofs` |
| Physical pages | `kernel/pmm.c`, the memory map of `boot/uefi/loader.c` | `Pmm`, `PmmProofs`, abstract: `PageAllocator` |
| Kernel heap | `kernel/heap.c` | `Heap`, which extends `Pmm` |
| Page tables, images, user pages | `kernel/vmm.c`, `kernel/user.c`, `kernel/syscall.c` | `PageTables`, `UserMemory`, abstract: `AddressSpaces` |
| Kernel threads, spinlock, mutex | `kernel/scheduler.c`, `kernel/spinlock.c` | `Scheduler`, `SchedulerProofs` |
| Start of the other CPUs | `kernel/smp.c`, `kernel/acpi.c`, `arch/x86_64/ap_trampoline.S` | `Smp`, `SmpProofs` |
| Parallel renderer | `kernel/terrain.c` | `Terrain`, `TerrainProofs` |
| Files | `kernel/vfs.c`, `kernel/initramfs.c`, `kernel/block.c`, `tools/mkorefs.py` | `Storage`, `Vfs`, `Files`, abstract: `Cursors` |
| Kernel modules | `kernel/okmod.c`, the module writer of `user/orec.c` | `Modules` over `UserMemory` |
| Network card | `kernel/net.c` | `Nic`, `NicProofs`, abstract: `FrameQueue` |
| Screen, keyboard, shell | `kernel/console.c`, `user/init.c` | `Console`, `Keyboard`, composed in `Terminal` |
| The compiler | `user/orec.c` | `OrecCodegen`, `Orec`, reference: `OreLang` |

How they meet: `Heap` calls the operations of `Pmm` and both are one
specification (`HeapSpec`); `UserMemory` takes its pages from the same kind of pool.  `Modules` takes pages from that pool at boot and changes
their protection in the kernel's part of the tables, which every process of
`UserMemory` shares; the run checks both together.  `Process` abstracts loading an image to success or
failure; `UserMemory` has the loading.  `Terrain` runs on the CPUs that `Smp`
started and takes its frame from the heap.  `Files` is what the shell, the
loader and the compiler read with.  `Terminal` puts the shell on top of the
decoder of the keyboard and the escape machine of the screen, because what a
program leaves behind in either meets the shell next.

Each `MC` module with its `.cfg` files gives the constants of one component
their values.  A definition whose name ends in `_` and a word (`Combine_NoScale`) is
a wrong version of the one that follows it: with it in place the named run
fails, which shows that the property depends on that line of the code.

## Processes (`Process`)

One step is one system call or one timer interrupt: both run with interrupts
off on CPU 0 (`syscall_init` masks IF, the gates are interrupt gates), and
nothing else touches the process table.  `sleep` and a blocking `read` are the
exception and are two steps: the first waits inside the kernel with interrupts
on, where a tick does not switch, the second polls the keyboard.

The state is the table (state, parent, exit code, wait and save fields) and the
CPU (current process, page tables, instruction pointer, owner of the registers).
A program is a counter of the calls it has made; `left` records where a process
last left the CPU, for the properties only.

*Run `process`* — four slots, so three user processes, exit codes of both signs,
positions in a program up to 2 with the later ones merged: two children that
race, a grandchild, a full table and every order of calls and ticks.  It checks
that one process runs, in its own tables (`OneRunning`); that BLOCKED, the saved
return address and the child waited for agree and that this child has not exited
(`WaitersAreWoken`); that the hlt loop of exit is entered only when all have
exited; that what is saved of a process is where it left
(`SavedWhereItLeft`); and that an exited process never comes back
(`ExitIsFinal`).  `FairSpec` assumes that the tick and the end of
a sleep keep coming (the LAPIC timer is periodic); it assumes nothing of
programs or the keyboard, and `ReadyRuns` (a READY process other than the kernel
and init runs again) therefore excepts waits inside the kernel, and behaviours in
which init keeps the CPU for ever, which the tick never preempts.  That init had a
turn in between is no excuse: a scan that began at the first slot would alternate
between init and the lowest READY process, and with it the property fails although
there are only three user processes (`ScanSlot_FromFirst`).  Five slots are beyond
TLC in the time a run has.

*Run `process_wait`* — a violation: exit resumes the parent without comparing
`waiting_for_pid`, so `sys_wait(a)` returns the code of `b`.

Three more things a user program would expect do not hold; they are stated at
the end of `Process` and no run checks them:
`OnlyLoadedImagesRun` (the slot of a failed spawn stays READY and is later
entered at address 0, which panics the kernel), `RegistersSurviveSyscall` (a
switch in a system call restores only rip and rsp), `ResumesWhereItLeft` (a tick
prefers an interrupt frame that a later yield has made obsolete).

## Pages and heap (`Pmm`, `PageAllocator`, `Heap`)

`Pmm` has `pmm_init` with its placement of the bitmap, and allocation and
freeing, both under `pmm_lock`.  Addresses are page numbers.  Allocation takes
the lowest free run; `ScanLoop` is the loop of the code, step by step, and
`ScanIsFirstFit` says that both give the same page in every reachable state.

*Run `memory`* — ten pages, a bitmap of one or two, and every placement of a
one-page kernel, initramfs and boot info next to four choices of firmware pages,
the usable runs listed upwards or downwards; one layout has no room for a bitmap.
Callers other than the heap take blocks of up to three pages.  On the layouts of
`MCHeapBoots`, which leave three pages free, the heap runs too: pages of twelve
words, a header of two, requests that leave no remainder, a splittable one, and one
that needs two pages, so chunks are adjacent or apart and come in any order.
Checked: no page is held twice or belongs to the loader's data (`NoPageTwice`), the
bitmap lies where nothing else is and the three counters are the sizes they stand
for (`BitmapSound`), the refinement of `PageAllocator` (a block nobody holds, or
null only when no run is left), that the blocks of the heap tile its chunks
(`BlocksTileChunks`), and that live allocations are in the list and do not overlap
(`LiveBlocks`).  Callers free what they hold and nothing else, as in the code; that
initramfs and boot info lie outside the usable memory is assumed of the loader.

## User memory and kernel modules (`PageTables`, `UserMemory`, `AddressSpaces`, `Modules`)

Tables are pages of memory; a walk, a mapping, a protection and an unmapping are
those of `vmm.c` with `LEVELS` levels.  The steps are spawn with either loader,
page allocation and freeing, exit, and the panics when no page is left for a
table.  An image fails to load for lack of memory, for its header, or for a
relocation after its segments are mapped; its process then keeps what it has.
`Modules` comes before them: each file of the directory is skipped,
rejected for its header or its sizes, given up for lack of memory, or copied,
protected and initialised.  A module whose init fails gives its pages back with
the protection they have; its slot is used again.  The failure of `vmm_protect` on
the text (okmod.c:135) has no step: the kernel's map covers all of memory, so a
page of the allocator is always present.

*Run `user_memory`* — two levels of tables with twenty entries, seventeen pages
of memory and a window of three pages (39 to 41).  Without modules three
processes use up memory, slots and window in every order; with four or five
module files (damaged, cut short, too large, failing, with and without command or
data, more than the table holds) one process or none, which bounds the run.
`PagesAccounted` says that no page is lost, shared or in use while free, also
after a load or an init that failed half-way; `AllocTableAgrees` that the records
of a process describe its tables and keep within their limits;
`ModulesRunnable` that the code of a loaded module stays executable and
read-only, and that a command name leads to the command of the module that brought
it; the refinement that trees which share the kernel's part behave as private flat
maps.

## Threads, CPUs and the renderer (`Scheduler`, `Smp`, `Terrain`)

In all three the step is one access to shared state, because a tick or another
CPU can come in between.

*Run `scheduler`* — three threads, created before `scheduler_start`; a tick between any two steps, including while
the scheduler lock is held, which hangs the CPU (`TickUnderLock`): the kernel
takes the same lock in the interrupt.  Fairness: ticks keep coming.  Nothing is
assumed of the threads, which sleep for one tick or three.  `RunQueueSound` and
`ThreadsProgress` are stated for callers that unblock a thread only from one place
and only when it is BLOCKED or DEAD.  `thread_unblock` itself admits more
(scheduler.c:207): with two wakers, or a SLEEPING target, a tick between its test
and its lock has the thread linked twice, and `RunQueueSound` fails.
`MutexExcludes` is mutual exclusion; `ThreadsProgress` that a thread which is
runnable or asleep, and does not have the CPU, gets it.

*Run `scheduler_sleep`* — a violation: two threads that only sleep, for two ticks
each.  A thread that finds the run queue empty is not switched away from
(scheduler.c:147) and goes on too early.

*Run `smp`* — five MADT entries, any of them disabled, silent or late, any
enabled one the boot CPU; tables of four, three stacks, a wait of one round.  The properties say exactly what a late CPU can break: while
nobody was given up on, everybody has a stack and id of its own.  Fairness: the
boot CPU proceeds; the others need not.

*Run `terrain`* — three CPUs, two heap blocks and two jobs, calls without end.
Any CPU may be offline at first and come online at any time (`ComesOnline`).
`clean` and `late` record the two conditions the code needs and does not check:
no worker left over from an earlier call at the start, and no worker given up on
or coming online while the master redraws what is missing.
Fairness: only of the master, so `CallReturns` holds however slow the workers.

## The network card (`Nic`, `FrameQueue`)

The driver runs with interrupts off, one call at a time; the card works on
between any two of its register accesses, so each access that the card can
interfere with is a step.  The card is external and modelled from how the driver
uses it: it stores a frame behind CURR if the pages up to BNRY suffice, then
writes the header and moves CURR, or drops the frame as damaged; the transmitter
reads the page in two halves, so a page that is overwritten while it is sent
shows.  A receive header read from payload can say anything (`AsHeader`).

*Run `nic`* — a ring of five pages of two units; frames of one page, of two and
of three (overlong); buffers too small, cutting and large enough; five arrivals
without sends, or one together with sends: the two directions share no state but
the order of calls.  Five arrivals carry CURR around the ring.
`ImplementsFrameQueue`: callers get the frames in order, once and unaltered, until
an overlong frame makes the driver reset BNRY without CURR; from then on only
`ReadsInsideRing` is promised.  `AnswerIsOwn`: a send reports its own frame unless
it gave up waiting for the one before.  Fairness: the driver goes on (nothing can
interrupt it); nothing of the card, so `NetCallReturns` holds with a dead card.

## Screen, keyboard and shell (`Console`, `Keyboard`, `Terminal`)

`Console` and `Keyboard` are the functions of `console.c` on a record of its
static variables; a cell of the screen is a glyph with its attributes, and a
character that has no glyph of its own shows as the code has it.  `Terminal`
composes them with the shell's loop.  One step is one poll of the input with what
the process does until its next poll.  The user presses, repeats and releases keys
at any time; the bytes wait in the controller, which loses what does not fit.
Programs write, draw, poll and read, and end.

*Run `terminal`* — a screen of four by two, lines of five characters, a history of
two, two words, a controller of four bytes.  Five kinds of session (`MCBudgets`)
bound the keys, serial bytes and program steps: five key changes of six keys among
which two pairs share a bit; keys while a program runs; seven bytes of editing,
which wrap and scroll; words and quotes; programs that leave escape sequences
unfinished.  `KeysFollowHands` compares what the decoder will give for the waiting
bytes with the keys as they were pressed; `ScreenShowsLine` the glyphs before the
cursor with the line that Enter would run; `PromptResets` is the state of the
console while the shell waits; `HistoryIsRecent` the history against the lines
entered.  The exceptions in the first two (`lost`, `masked`, `edge`) are what the
code really does: a byte that the controller dropped, two keys with one bit, and
backspace at the left edge of a wrapped line.  No fairness is assumed: nothing is
promised about a user.  The model's keyboard sends no fake shifts around the grey
keys (E0 2A), and numeric parameters of escape sequences are small.

## Files (`Storage`, `Vfs`, `Files`, `Cursors`)

An image is a sequence of bytes.  `mkorefs` lays out a disk as the tool does,
`initramfs_init` scans an archive, `block_root_read` reads sectors.  Paths are
sequences of components.  Which device is found and what fails (header, entries,
heap, device) are inputs.  System calls are one step each.

*Run `files`* — sectors and blocks of two bytes, entries of one; files that are
empty, end inside a sector, at its end and at the end of the disk; an archive
with one file too many; a blank disk and one with an entry too many; two
processes with two handles each.  Two handles are open at a time (`FewOpen`),
which is enough for any interference between two of them, and the processes are
interchangeable, so the run uses symmetry.  `ImplementsCursors` is the promise of
`initramfs/docs/readme`: "open/read/close keep per-handle offsets".

## The compiler (`OreLang`, `OrecCodegen`, `Orec`)

`OrecCodegen` is the compiler: one pass that parses and emits at the same time.
It is held against `OreLang`, the meaning of syntax trees, by executing the
emitted instructions (`Orec`).  Words have eight bytes of `BITS` bits, so that
wrap-around and truncation happen with small numbers.  Code addresses count
instructions.

*Run `orec`* — 2997 programs: every operator over every kind of operand and
two deep, statements nested two deep, all scalar types, and programs at each limit
and one beyond it (variables together with parameters, parameters, functions, nested
loops, breaks of a loop), in one function and in two, so that what the first used
must be given back.  `MAX_STEPS` is never reached.  `RejectsExactly` says that the compiler
refuses a program if and only if it is beyond a limit that has a diagnostic.

Two things about types.  A load of four bytes clears the rest of rax whatever the
type, so a negative `i32` comes back as a large number; `OreLang` takes this as the
meaning of `i32`, and no text of the repository says another.  `#[packed]` is in
`OrecCodegen` but not in the programs of the run.

## Where the code differs from its own texts

*Run `process_wait`*: the shell prints what `sys_wait` returns as the exit code of
the pid it waited for (`user/init.c:227`), and it may be that of another child.

*Run `scheduler_sleep`*: the self-test (scheduler.c:250) panics if `thread_sleep(2)`
returns after less than two ticks.  Its thread, when it is the only one, does return
after one: the tick that `thread_yield` counts itself.  The self-test is not called
at boot.

One more is described here without a run.  `#[packed]` on the line before its
struct, as in all sources that `tools/mkorefs.py` writes, has no effect: after the
closing bracket `scan_structs` looks for `struct` at the very next character.
`OrecCodegen` has that behaviour.

## What is proved

For every value of the constants that satisfies the named assumptions:

* `ProcessProofs`, from `ProcessAssumption` (at least two slots, exit codes within
  the signed range of 32 bits and 0 among them): `TypeOK`, `OneRunning`,
  `WaitersAreWoken`, `HaltsOnlyWhenAllExited`, `SavedWhereItLeft` and the action
  property `ExitIsFinal`.  The inductive invariant of the table is the conjunction
  of the first four with `ParentsOlder`.  The latter is needed for the halt:
  if a process were BLOCKED when exit finds nothing READY, take the youngest; it
  waits for a child in a later slot that has not exited, is not READY and not
  running, hence is BLOCKED and younger.  One lemma per kind of switch
  (`SwitchStep`, `BlockStep`, `CreateStep`, ...) treats the table, one per action puts the parts together.  `SavedWhereItLeft` rests on
  that invariant and on `ZeroInv`: only a process without an image can be at
  address 0, the value that also stands for "nothing stored".
* `PmmProofs`, from `PmmAssumption` (descriptors that lie within memory and do
  not overlap, loader data outside the usable ones): `TypeOK`, `NoPageTwice`,
  `BitmapSound`, and that `Pmm` implements `PageAllocator`.  The invariant adds
  `BitmapExact`: once online, the set bits are exactly the pages that may never be
  handed out and those that callers hold.  Without it neither the counters nor
  "null means that no run is left" follow.
* `NicProofs`, from `NicAssumption` (a ring of at least two pages, at least two
  units to a page, no accepted frame longer than the ring): `ReadsInsideRing`, with
  `RingInv` (the page and next page in use lie in the ring, the length is below
  `MAX_COUNT`), which needs nothing about what the headers say; `AnswerIsOwn`, with
  `SendInv`: while the driver polls, either the card is sending this frame and ISR
  is clear, or it has sent it and ISR says how.
* `TerrainProofs`, from `TerrainAssumption` (one to eight CPUs): `NoStrayWrite` and
  `FrameShowsJob`.  `WriteInv` says where a worker can be while the master is at a
  given place, if nobody was given up on; the cases that need it are a worker that
  read the active flag and has not tested its done bit, and a CPU that comes online
  after the scan, when every bit is set.  `FrameInv` adds which
  cells are already good, row by row.
* `SmpProofs`, from `SmpAssumption` (the enabled entries of a MADT have distinct
  APIC ids): `OwnEntry` and `OwnStack`.  `TableInv` is about the table and the stack
  numbers; `OrderInv` says, as long as nobody was given up on, that the CPUs before
  the loop's index are up, the one at the index is starting and the rest have not
  been touched.
* `SchedulerProofs`, from `SchedulerAssumption`: `MutexExcludes`, for any number of
  threads and with a tick between any two steps; the invariant is that the owner
  field names every thread past `mutex_lock`.

Out of the prover's reach, and only model-checked: liveness (`ReadyRuns`,
`ThreadsProgress`, `CallReturns`, `BootContinues`, `NetCallReturns`), and what
recursive definitions compute (the compiler and its reference, the words of a
line, the frames of a ring).  Also only model-checked: `ScanIsFirstFit`,
`RunQueueSound`, `ImplementsFrameQueue` and the properties of `Heap`, `UserMemory`, `Modules`, `Files`, `Terminal` and
`Orec`.  `ParentsOlder` and the two `TypeOK` are proved and not part of a run.

## Not modelled

The boot loader, descriptor tables, ACPI parsing beyond the MADT, LAPIC
registers, port protocols of ATA and fw_cfg, the remote DMA handshake of the
network card, serial output, and the drawing of pixels have no state that other
parts depend on in more than one order.  The bytes that the loaders copy, the TLB,
path and name lengths, what module code and the shell's commands other than
`history`, `clear` and `exit` do, and the compiler's strings, `print`, externs,
imports and `unsafe` are abstracted away; of its kernel target only the layout of
the image is there (`build_kmod_image`).  The network programs are users of
NET_SEND and NET_RECV and have no state in the kernel.

Weak places of the code that were met and that no property covers: the widening
of exit codes (`syscall.c:408`), the memory map the loader hands over after a
retry (`loader.c:241`), the limit of the MADT table (`acpi.c:64`), logical id 0
next to the boot CPU (`smp.c:95`), the kernel root copied at the creation of a
process (`vmm.c:143`), a second `let` with another type (`orec.c:1150`), an index
on a pointer (`orec.c:629`), nested imports (`orec.c:1751`), a top-level `disk`
in the archive (`vfs.c:356`), a character that was read and is
reported again by a later INPUT_STATE (`console.c:516`), the limits on structs and fields (`orec.c:21`).
