-------------------------------- MODULE Orec --------------------------------
(***************************************************************************)
(* A program is compiled by user/orec.c and the image is run: OrecCodegen  *)
(* is the compiler, OreLang says what the program means, and this module   *)
(* has the processor's view of the emitted instructions.                   *)
(*                                                                         *)
(* The stack is STACK words; addresses count bytes.  history, kept for the *)
(* properties: the calls that have not returned, each with the registers   *)
(* at the call, and whether every return so far found them again.          *)
(***************************************************************************)
EXTENDS OreLang, OrecCodegen, FiniteSets

CONSTANTS
    Programs,   \* the programs that are compiled
    STACK,      \* words of stack
    MAX_STEPS   \* bound on the instructions of one run

ASSUME ProgramsAssumption == STACK \in Nat /\ 8 * STACK < Span(8) /\ MAX_STEPS \in Nat

VARIABLES
    prog,   \* the program
    built,  \* whether it has been compiled
    image,  \* the compiler's state at the end
    m       \* the processor

vars == <<prog, built, image, m>>

\* The image of a program: what is left of the compiler's state, and whether
\* all calls of the program could be recorded.
Image(p) ==
    LET c == compile_source(ShowProgram(p))
    IN  [ok |-> c.ok, text |-> c.text, addr |-> {c.funcs[k].addr : k \in DOMAIN c.funcs}, structs |-> c.structs,
         fits |-> Cardinality(CallSites(ShowProgram(p), Names)) <= MAX_CALLS]

NoImage == [ok |-> FALSE, text |-> <<>>, addr |-> {}, structs |-> <<>>, fits |-> FALSE]

Reset == [pc |-> 0, rax |-> 0, rcx |-> 0, rbx |-> 5, arg |-> [k \in 1..6 |-> 0],
          rsp |-> 8 * STACK, rbp |-> 0, mem |-> [k \in 0..STACK - 1 |-> 0],
          out |-> <<>>, status |-> "run", code |-> 0, steps |-> 0,
          frames |-> <<>>, intact |-> TRUE]

Init == prog \in Programs /\ built = FALSE /\ image = NoImage /\ m = Reset

\* main of orec: a program with an error yields no image.
Build ==
    /\ ~built
    /\ built' = TRUE
    /\ image' = Image(prog)
    /\ m' = IF image'.ok THEN m ELSE [m EXCEPT !.status = "none"]
    /\ UNCHANGED prog

-----------------------------------------------------------------------------
(* The processor. *)

Valid(r, a, n) == a \div 8 \in DOMAIN r.mem /\ (a % 8) + n <= 8

Load(r, a, n) == (r.mem[a \div 8] \div Span(a % 8)) % Span(n)

Halt(r, how) == [r EXCEPT !.status = how]

Put(r, a, n, v) ==
    IF Valid(r, a, n)
    THEN [r EXCEPT !.mem[a \div 8] = @ + ((v % Span(n)) - Load(r, a, n)) * Span(a % 8)]
    ELSE Halt(r, "fault")

Get(r, a, n) == IF Valid(r, a, n) THEN [r EXCEPT !.rax = Load(r, a, n)] ELSE Halt(r, "fault")

Push(r, v) == Put([r EXCEPT !.rsp = Word(@ - 8)], Word(r.rsp - 8), 8, v)
Top(r) == IF Valid(r, r.rsp, 8) THEN Load(r, r.rsp, 8) ELSE 0
Drop(r) == [r EXCEPT !.rsp = Word(@ + 8)]

Jump(r, disp) == [r EXCEPT !.pc = @ + disp]

Rax(r, v) == [r EXCEPT !.rax = v]

\* mov rbx,[rbp-8]; mov rsp,rbp; pop rbp; ret
LeaveRet(r) ==
    LET b == [r EXCEPT !.rbx = Load(r, Word(r.rbp - 8), 8), !.rsp = r.rbp]
        p == Drop([b EXCEPT !.rbp = Top(b)])
        q == Drop([p EXCEPT !.pc = Top(p)])
        f == Last(r.frames)
    IN  IF ~Valid(r, Word(r.rbp - 8), 8) \/ r.frames = <<>> THEN Halt(r, "fault")
        ELSE [q EXCEPT !.frames = Front(@),
                       !.intact = @ /\ f = [pc |-> q.pc, rsp |-> q.rsp, rbp |-> q.rbp, rbx |-> q.rbx]]

\* push rbp; mov rbp,rsp; sub rsp,frame; mov [rbp-8],rbx
Enter(r, frame) ==
    LET p == Push(r, r.rbp)
        q == [p EXCEPT !.rbp = p.rsp, !.rsp = Word(@ - frame)]
    IN  IF p.status # "run" THEN p ELSE Put(q, Word(q.rbp - 8), 8, r.rbx)

\* One instruction; r.pc is already behind it.
Execute(r, op, a, b) ==
    CASE op = "mov_rax" -> Rax(r, a)
      [] op = "push_rax" -> Push(r, r.rax)
      [] op = "pop_rax" -> Drop(Rax(r, Top(r)))
      [] op = "pop_rcx" -> Drop([r EXCEPT !.rcx = Top(r)])
      [] op = "pop_arg" -> Drop([r EXCEPT !.arg[a] = Top(r)])
      [] op = "mov_rcx_rax" -> [r EXCEPT !.rcx = r.rax]
      [] op = "add" -> Rax(r, Word(r.rax + r.rcx))
      [] op = "rsub" -> Rax(r, Word(r.rcx - r.rax))
      [] op = "add_imm" -> Rax(r, Word(r.rax + a))
      [] op = "scale" -> Rax(r, Word(r.rax * a))
      [] op = "is_zero" -> Rax(r, Bool(r.rax = 0))
      [] op = "not" -> Rax(r, Span(8) - 1 - r.rax)
      [] op = "neg" -> Rax(r, Word(-r.rax))
      [] op \in {"<<", ">>"} -> Rax(r, Apply(op, r.rax, r.rcx))
      [] op \in {"/", "%"} ->
            IF Traps(op, r.rcx, r.rax) THEN Halt(r, "trap")
            ELSE [r EXCEPT !.rbx = r.rax, !.rax = Apply(op, r.rcx, r.rax)]
      [] op \in {"*", "&", "|", "==", "!=", "<", "<=", ">", ">="} -> Rax(r, Apply(op, r.rcx, r.rax))
      [] op = "ld_var" -> Get(r, Word(r.rbp - a), b)
      [] op = "st_var" -> Put(r, Word(r.rbp - a), b, r.rax)
      [] op = "st_arg" -> Put(r, Word(r.rbp - a), 8, r.arg[b])
      [] op = "lea_rax_var" -> Rax(r, Word(r.rbp - a))
      [] op = "lea_rcx_var" -> [r EXCEPT !.rcx = Word(r.rbp - a)]
      [] op = "ld_ptr" -> Get(r, r.rax, a)
      [] op = "st_ptr" -> Put(r, r.rcx, a, r.rax)
      [] op = "jmp" -> Jump(r, a)
      [] op = "jz" -> IF r.rax = 0 THEN Jump(r, a) ELSE r
      [] op = "call" ->
            Jump([Push(r, r.pc) EXCEPT !.frames =
                      Append(@, [pc |-> r.pc, rsp |-> r.rsp, rbp |-> r.rbp, rbx |-> r.rbx])], a)
      [] op = "enter" -> Enter(r, a)
      [] op = "leave_ret" -> LeaveRet(r)
      [] op = "puti" -> [r EXCEPT !.out = Append(@, r.rax), !.rbx = 10, !.rcx = 0, !.rax = 0]
      [] op = "exit_rax" -> [Halt(r, "exit") EXCEPT !.code = r.rax]
      [] op = "exit_const" -> [Halt(r, "exit") EXCEPT !.code = a]

At(r) == image.text[r.pc + 1]

Step ==
    /\ built /\ m.status = "run" /\ m.steps < MAX_STEPS
    /\ m' = IF m.pc + 1 \notin DOMAIN image.text THEN Halt(m, "fault")
            ELSE Execute([m EXCEPT !.pc = @ + 1, !.steps = @ + 1], At(m)[1], At(m)[2], At(m)[3])
    /\ UNCHANGED <<prog, built, image>>

Next == Build \/ Step

Spec == Init /\ [][Next]_vars

-----------------------------------------------------------------------------
(* Properties. *)

\* The limits whose excess is an error.
WithinLimits(p) ==
    /\ Len(p) <= MAX_FUNCS
    /\ \A k \in DOMAIN p :
           /\ Cardinality(VariablesOf(p[k])) <= MAX_VARS
           /\ Len(p[k].params) <= MAX_PARAMS
           /\ Depth(p[k].body) <= MAX_LOOP_DEPTH
           /\ Breaks(p[k].body) = 0
           /\ \A b \in LoopsIn(p[k].body) : Breaks(b) <= MAX_BREAKS_PER_LOOP

\* compile_source: the image prints, exits and traps as the program says,
\* whatever it combines: precedence and operand order, temporaries on the
\* stack across calls, the displacements patched into branches, the widths of
\* variables, elements and pointers.
ImageMeansProgram ==
    (m.status \in {"exit", "trap", "fault"} /\ image.fits) =>
        LET p == Meaning(prog)
        IN  m.status = p.end /\ m.out = p.out /\ m.code = p.code

\* emit_prologue, emit_epilogue_ret: a call returns behind itself with rsp,
\* rbp and rbx as they were, although division and puti use rbx.
CallsRestore == image.fits => m.intact

\* Statements leave nothing on the stack: at every branch rsp is where the
\* prologue put it, so a loop does not eat the stack.
StackBalanced ==
    (m.status = "run" /\ image.fits) =>
        (At(m)[1] \in {"jmp", "jz"} =>
            LET entry == Max({a \in image.addr : a <= m.pc})
            IN  m.rsp = m.rbp - image.text[entry + 1][2])

\* The two together: the code keeps the stack in order.
StackDiscipline == CallsRestore /\ StackBalanced

\* An error is reported exactly when the program exceeds a limit: what one
\* loop or function used up is given back to the next.
RejectsExactly == (built /\ m.steps = 0) => (image.ok <=> WithinLimits(prog))

=============================================================================
