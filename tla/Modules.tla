------------------------------ MODULE Modules ------------------------------
(***************************************************************************)
(* Kernel modules: okmod_init loads every module file of /disk/kernel at   *)
(* boot (kernel/okmod.c), before there is a process; the user memory of    *)
(* UserMemory is then built from the pages that are left, over the same    *)
(* kernel map.  Sizes inside a module are in units, PAGE of them to a      *)
(* page; a module's memory is at its physical address.                     *)
(***************************************************************************)
EXTENDS UserMemory

CONSTANTS
    PAGE,               \* units in a page
    MAX_MODULES,        \* OKMOD_MAX_MODULES
    Boots               \* bounds: what the directory holds, how many processes start

VARIABLES
    boot,               \* the choice among Boots
    at,                 \* the files of the directory tried so far
    module_table, module_commands, loaded_modules,
    held,               \* ghost: the pages of the loaded modules
    returned            \* ghost: the text pages given back after a failed init

modvars == <<boot, at, module_table, module_commands, loaded_modules, held, returned>>

NoEntry == 99           \* command_entry of a module without a command
ModuleSlots == 0..(MAX_MODULES - 1)
NoModule == [name |-> "", state |-> 0, text_base |-> 0, text_size |-> 0, has_command |-> FALSE]

PagesFor(units) == (units + PAGE - 1) \div PAGE

\* Mutant: the text ends where the code ends.
build_kmod_image_Tight(m) == m

\* build_kmod_image of the compiler: the text is filled up to whole pages.
build_kmod_image(m) == [m EXCEPT !.text = PagesFor(m.text) * PAGE]

\* okmod_init clears the tables; vmm_self_test has left its page without execution.
MInit ==
    /\ Init
    /\ boot \in Boots /\ at = 0
    /\ module_table = [i \in ModuleSlots |-> NoModule]
    /\ module_commands = [i \in ModuleSlots |-> 0]
    /\ loaded_modules = 0
    /\ held = {} /\ returned = {}

Booting == ~panic /\ at < Len(boot.dir)
File == build_kmod_image(boot.dir[at + 1])
Full == loaded_modules >= MAX_MODULES

\* The entry is no module, the table is full, or the file cannot be read: nothing
\* is recorded.
LoadSkipped ==
    /\ Booting /\ at' = at + 1
    /\ UNCHANGED <<vars, boot, module_table, module_commands, loaded_modules, held, returned>>

\* The slot is cleared and named; module_commands is not cleared.
FreshSlot(f, state) == [NoModule EXCEPT !.name = f.name, !.state = state]

\* short: the file ends before the text and data its header announces, or they are
\* larger than OKMOD_MAX_SIZE.
BadHeader(f) == ~f.header
BadLayout(f) == f.text = 0 \/ f.entry >= f.text \/ f.short

\* A bad header, or sizes that do not fit together.
LoadRejected ==
    /\ Booting /\ ~Full /\ at' = at + 1
    /\ BadHeader(File) \/ BadLayout(File)
    /\ module_table' = [module_table EXCEPT ![loaded_modules] = FreshSlot(File, 4)]
    /\ UNCHANGED <<vars, boot, module_commands, loaded_modules, held, returned>>

Loadable == Booting /\ ~Full /\ ~BadHeader(File) /\ ~BadLayout(File)
Need(f) == PagesFor(f.text + f.data + f.bss)

LoadNoMemory ==
    /\ Loadable /\ at' = at + 1
    /\ Runs(Need(File)) = {}
    /\ module_table' = [module_table EXCEPT ![loaded_modules] = FreshSlot(File, 2)]
    /\ UNCHANGED <<vars, boot, module_commands, loaded_modules, held, returned>>

\* vmm_protect over the pages that the units from..to-1 touch.
ProtectUnits(m, from, to, flags) ==
    Protect(m, kroot, from \div PAGE, PagesFor(to) - from \div PAGE, flags)

\* The text read-only, then the rest of the pages writable and not executable.
Protected(f, q) ==
    LET end == (q + Need(f)) * PAGE
        text == ProtectUnits(mem, q * PAGE, q * PAGE + f.text, {})
    IN  IF end > q * PAGE + f.text THEN ProtectUnits(text, q * PAGE + f.text, end, {"W", "NX"}) ELSE text

HasCommand(f) == f.command # NoEntry /\ f.command < f.text

\* Mutant: the slot is filled in without being cleared first.
Filled_NotCleared(f, q) ==
    [module_table[loaded_modules] EXCEPT
        !.name = f.name, !.state = IF f.rc < 0 THEN 4 ELSE 3, !.text_base = q * PAGE, !.text_size = f.text,
        !.has_command = @ \/ HasCommand(f)]

\* The slot as the module's init leaves it.
Filled(f, q) ==
    [FreshSlot(f, IF f.rc < 0 THEN 4 ELSE 3) EXCEPT
        !.text_base = q * PAGE, !.text_size = f.text, !.has_command = HasCommand(f)]

\* The module is copied, protected and initialised.  When init fails its pages go
\* back to the page allocator as they are; the slot is used again.
LoadInit ==
    /\ Loadable /\ at' = at + 1
    /\ Runs(Need(File)) # {}
    /\ \E f \in {File}, q \in {Lowest(Runs(Need(File)))} :
         /\ mem' = Protected(f, q)
         /\ module_table' = [module_table EXCEPT ![loaded_modules] = Filled(f, q)]
         /\ module_commands' = IF HasCommand(f)
                               THEN [module_commands EXCEPT ![loaded_modules] = q * PAGE + f.command]
                               ELSE module_commands
         /\ IF f.rc < 0
            THEN /\ returned' = returned \cup Run(q, PagesFor(f.text))
                 /\ UNCHANGED <<free, loaded_modules, held>>
            ELSE /\ free' = free \ Run(q, Need(f))
                 /\ held' = held \cup Run(q, Need(f))
                 /\ loaded_modules' = loaded_modules + 1
                 /\ returned' = returned
    /\ UNCHANGED <<kroot, root, status, allocs, next, total, panic, boot>>

\* Processes start once the modules are loaded.
UserStep ==
    /\ at = Len(boot.dir)
    /\ Next /\ Cardinality({p \in Procs : status'[p] # "none"}) <= boot.procs
    /\ UNCHANGED modvars

MNext == LoadSkipped \/ LoadRejected \/ LoadNoMemory \/ LoadInit \/ UserStep

MSpec == MInit /\ [][MNext]_<<vars, modvars>>

\* okmod_run_command: the address called for a name, 0 when there is none.
okmod_run_command(name) ==
    LET found == {i \in ModuleSlots : i < loaded_modules /\ module_table[i].has_command
                                  /\ module_table[i].name = name /\ module_commands[i] # 0}
    IN  IF found = {} THEN 0 ELSE module_commands[Lowest(found)]

-----------------------------------------------------------------------------
(* Properties. *)

KernelFlags(page) == {n.flags : n \in {n \in Translations(kroot) : n.va = page}}
TextPages(i) == (module_table[i].text_base \div PAGE)
                  ..((module_table[i].text_base + module_table[i].text_size - 1) \div PAGE)
Text == UNION {TextPages(i) : i \in 0..(loaded_modules - 1)}

\* Every page is free, or a loaded module's, or a table of the kernel, or a table
\* of one process, or mapped once by one process: no page is lost, shared, or in
\* use while free, also after failed inits, failed loads, frees and exits
\* (okmod_load_one, map_zeroed_user_pages, user_free_pages_sys).
PagesAccounted == Accounted(held)

\* The code of every loaded module stays executable and read-only, its other pages
\* writable, whatever was loaded, rejected or failed before it and whatever the
\* processes do later; what is called for a name is the command that a loaded
\* module of that name brought.  Other pages that the kernel cannot write were
\* returned by a module whose init failed (okmod_load_one, okmod_run_command).
ModulesRunnable ==
    /\ \A page \in Text : KernelFlags(page) = {{"P"}}
    /\ \A page \in held \ Text : KernelFlags(page) = {{"P", "W", "NX"}}
    /\ {n.va : n \in {n \in Translations(kroot) : "W" \notin n.flags}} \subseteq Text \cup returned
    /\ \A f \in {boot.dir[j] : j \in DOMAIN boot.dir} :
         okmod_run_command(f.name) # 0 =>
           \E i \in 0..(loaded_modules - 1) :
              /\ module_table[i].name = f.name /\ module_table[i].state = 3
              /\ okmod_run_command(f.name) = module_table[i].text_base + f.command

=============================================================================
