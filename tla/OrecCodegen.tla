----------------------------- MODULE OrecCodegen -----------------------------
(***************************************************************************)
(* The compiler of user/orec.c: one pass over the tokens that emits code   *)
(* while it parses, with no syntax tree.  A parser takes and returns the   *)
(* compiler's state c: the position in the source, the code so far         *)
(* (text), the variables of the current function and its stack_size, the   *)
(* calls still to be patched (calls), the breaks still to be patched       *)
(* (loops), the type of the last expression (type) and whether no error    *)
(* was reported yet (ok); after an error every parser leaves c as it is.   *)
(*                                                                         *)
(* text is a sequence of instructions <<mnemonic, a, b>>, each standing    *)
(* for the bytes one emit helper writes; displacements count instructions  *)
(* instead of bytes.  White space, comments, string literals and print,    *)
(* imports, extern functions, unsafe blocks (which only the kernel target  *)
(* tells from others), the kernel target and the limits on structs and     *)
(* fields are left out.                                                    *)
(***************************************************************************)
EXTENDS Integers, Sequences, SequencesExt

CONSTANTS
    Names,           \* the identifiers: variables and functions
    Digits,          \* the numerals, a function to numbers
    MAX_VARS, MAX_FUNCS, MAX_CALLS, MAX_PARAMS, MAX_LOOP_DEPTH, MAX_BREAKS_PER_LOOP

ASSUME OrecAssumption ==
    /\ MAX_VARS \in Nat /\ MAX_FUNCS \in Nat /\ MAX_CALLS \in Nat /\ MAX_PARAMS \in Nat
    /\ MAX_LOOP_DEPTH \in Nat /\ MAX_BREAKS_PER_LOOP \in Nat

Fail(c) == [c EXCEPT !.ok = FALSE]

\* The token at the position, "" at the end and after an error.
Tok(c) == IF c.ok /\ c.pos <= Len(c.src) THEN c.src[c.pos] ELSE ""
Skip(c) == [c EXCEPT !.pos = @ + 1]
consume(c, t) == IF Tok(c) = t THEN Skip(c) ELSE Fail(c)
As(c, T) == [c EXCEPT !.type = T]

\* At the next token in S, or at the end.
Seek(c, S) ==
    LET at == {k \in c.pos..Len(c.src) : c.src[k] \in S}
    IN  [c EXCEPT !.pos = IF at = {} THEN Len(c.src) + 1 ELSE Min(at)]

Emit(c, op) == [c EXCEPT !.text = Append(@, <<op, 0, 0>>)]
EmitN(c, op, a, b) == [c EXCEPT !.text = Append(@, <<op, a, b>>)]

\* Prints rax in decimal: the digit loop and the write count as one instruction.
emit_puti_rax(c) == Emit(c, "puti")

emit_exit_const(c, code) == EmitN(c, "exit_const", code, 0)

\* The index of the next instruction, from 0.
text_len(c) == Len(c.text)

\* The displacement of the branch at index at counts from the one after it.
patch32(c, at, target) == [c EXCEPT !.text[at + 1][2] = target - (at + 1)]

-----------------------------------------------------------------------------
(* Types and variables. *)

Type(kind, size, align, base) == [kind |-> kind, size |-> size, align |-> align, base |-> base]

ty_int == Type("int", 8, 8, 0)
ty_bool == Type("bool", 1, 1, 0)
ty_ptr(T) == Type("ptr", 8, 8, IF T.kind = "void" THEN 1 ELSE IF T.size = 0 THEN 8 ELSE T.size)
ty_array(T, n) ==
    LET base == IF T.size = 0 THEN 1 ELSE T.size IN Type("array", base * n, T.align, base)
ty_array_element(T) == Type("int", T.base, T.base, 0)

type_is_ptr(T) == T.kind \in {"ptr", "array"}
type_pointee_size(T) == IF type_is_ptr(T) /\ T.base # 0 THEN T.base ELSE 1

\* What a dereference of T reads or writes.
Pointee(T) == IF T.kind = "ptr" /\ T.base # 0 THEN ty_array_element(T) ELSE ty_int

Deref(c) == As(c, Pointee(c.type))

Scalars == [t \in {"void", "bool", "char", "u8", "i32", "u32", "int", "u64"} |->
    CASE t = "void" -> Type("void", 0, 1, 0) [] t = "int" -> ty_int [] t = "u64" -> Type("u64", 8, 8, 0)
      [] t \in {"i32", "u32"} -> Type(t, 4, 4, 0) [] OTHER -> Type(t, 1, 1, 0)]

find_struct(c, name) == SelectInSeq(c.structs, LAMBDA st : st.name = name)

\* A struct type keeps the struct's index in base.
find_field(c, T, f) ==
    IF T.kind # "struct" THEN 0 ELSE SelectInSeq(c.structs[T.base].fields, LAMBDA g : g.name = f)

\* T[n] is another way to write [n]T.
Suffix(c) ==
    LET n == Tok(Skip(c))
    IN  IF Tok(c) # "[" THEN c
        ELSE IF n \notin DOMAIN Digits THEN Fail(c)
        ELSE As(consume(Skip(Skip(c)), "]"), ty_array(c.type, Digits[n]))

ArrayOf(c, n) == As(c, ty_array(c.type, n))
PtrTo(c) == Suffix(As(consume(c, ">"), ty_ptr(c.type)))

RECURSIVE parse_type(_)
parse_type(c) ==
    LET t == Tok(c)
        n == Tok(Skip(c))
    IN  CASE t = "[" /\ n \in DOMAIN Digits ->
                ArrayOf(parse_type(consume(Skip(Skip(c)), "]")), Digits[n])
          [] t = "ptr" -> PtrTo(parse_type(consume(Skip(c), "<")))
          [] t \in DOMAIN Scalars -> Suffix(As(Skip(c), Scalars[t]))
          [] t \in Names /\ find_struct(c, t) # 0 ->
                LET st == c.structs[find_struct(c, t)]
                IN  Suffix(As(Skip(c), Type("struct", st.size, st.align, find_struct(c, t))))
          [] OTHER -> Fail(c)

align_up(v, a) == ((v + a - 1) \div a) * a

find_var(c, x) == SelectInSeq(c.vars, LAMBDA v : v.name = x)

add_var_type_OneMore(c, x, T) ==
    LET size == c.stack_size + align_up(IF T.size = 0 THEN 8 ELSE T.size, 8)
    IN  IF Len(c.vars) > MAX_VARS THEN Fail(c)
        ELSE [c EXCEPT !.stack_size = size,
                       !.vars = Append(@, [name |-> x, offset |-> size, type |-> T])]

\* The variable ends up as the last of c.vars.
add_var_type(c, x, T) ==
    LET size == c.stack_size + align_up(IF T.size = 0 THEN 8 ELSE T.size, 8)
    IN  IF Len(c.vars) >= MAX_VARS THEN Fail(c)
        ELSE [c EXCEPT !.stack_size = size,
                       !.vars = Append(@, [name |-> x, offset |-> size, type |-> T])]

\* The width of the load or store the helpers choose for a type; a narrow load
\* clears the rest of rax, for i32 too.
Width(T) == IF T.size \in {1, 4} THEN T.size ELSE 8

EmitScale(c, n) == IF n = 1 THEN c ELSE EmitN(c, "scale", n, 0)

-----------------------------------------------------------------------------
(* Expressions: the value ends up in rax; operands wait on the stack.      *)

RECURSIVE parse_expr_t(_), Args(_, _), parse_unary_t(_), Level(_, _), Operators(_, _), Climb(_, _)

\* The address of an element of v in rax, from the token [ on.
emit_index_address(c, v) ==
    LET i == consume(parse_expr_t(consume(c, "[")), "]")
        n == IF v.type.kind = "array" THEN type_pointee_size(v.type) ELSE 8
    IN  Emit(EmitN(EmitScale(i, n), "lea_rcx_var", v.offset, 0), "add")

\* The address of a field of v in rax, from the token . on.
FieldAddress(c, v) ==
    LET f == find_field(c, v.type, Tok(Skip(c)))
        field == c.structs[v.type.base].fields[f]
        a == EmitN(Skip(Skip(c)), "lea_rax_var", v.offset, 0)
    IN  IF f = 0 THEN Fail(c)
        ELSE As(IF field.offset = 0 THEN a ELSE EmitN(a, "add_imm", field.offset, 0), field.type)

MoreArgs(c, argc) ==
    IF Tok(c) = "," THEN Args(Skip(c), argc) ELSE [consume(c, ")") EXCEPT !.argc = argc]

\* Arguments are pushed from left to right.
Args(c, argc) ==
    IF argc >= MAX_PARAMS THEN Fail(c) ELSE MoreArgs(Emit(parse_expr_t(c), "push_rax"), argc + 1)

\* A call beyond MAX_CALLS is not recorded, without an error.
AddCall(c, f) ==
    IF Len(c.calls) < MAX_CALLS
    THEN [c EXCEPT !.calls = Append(@, [patch |-> text_len(c), fn |-> f])]
    ELSE c

\* The last argument is on top.
PopArgs(c, argc) ==
    FoldLeft(LAMBDA d, k : EmitN(d, "pop_arg", k, 0), c, [k \in 1..argc |-> argc + 1 - k])

\* The call itself, from behind the arguments on.
CallFunction(c, fn) ==
    IF c.argc # Len(c.funcs[fn].params) THEN Fail(c)
    ELSE As(Emit(AddCall(PopArgs(c, c.argc), fn), "call"), c.funcs[fn].ret_type)

\* A call of f, from behind the parenthesis on.
Call(c, f) ==
    LET fn == SelectInSeq(c.funcs, LAMBDA g : g.name = f)
    IN  IF fn = 0 THEN Fail(c)
        ELSE CallFunction(IF Tok(c) = ")" THEN [Skip(c) EXCEPT !.argc = 0] ELSE Args(c, 0), fn)

\* sizeof and alignof, from behind the type on, and offsetof, from the field on.
SizeConstant(c, t) ==
    As(EmitN(consume(c, ")"), "mov_rax", IF t = "sizeof" THEN c.type.size ELSE c.type.align, 0), ty_int)

OffsetConstant(c) ==
    LET f == find_field(c, c.type, Tok(c))
    IN  IF f = 0 THEN Fail(c)
        ELSE As(EmitN(consume(Skip(c), ")"), "mov_rax", c.structs[c.type.base].fields[f].offset, 0), ty_int)

LoadThrough(c) == EmitN(c, "ld_ptr", Width(c.type), 0)

parse_primary_t(c) ==
    LET t == Tok(c)
        n == Skip(c)
        w == c.vars[find_var(c, t)]
    IN  CASE t \in DOMAIN Digits -> As(EmitN(n, "mov_rax", Digits[t], 0), ty_int)
          [] t = "(" -> consume(parse_expr_t(n), ")")
          [] t \in {"sizeof", "alignof"} ->
                SizeConstant(parse_type(consume(n, "(")), t)
          [] t = "offsetof" -> OffsetConstant(consume(parse_type(consume(n, "(")), ","))
          [] t \in Names /\ Tok(n) = "(" -> Call(Skip(n), t)
          [] t \in Names /\ Tok(n) # "(" /\ find_var(c, t) # 0 ->
                IF Tok(n) = "["
                THEN LET elem == [w.type EXCEPT !.kind = "int", !.size = type_pointee_size(w.type)]
                     IN  As(EmitN(emit_index_address(n, w), "ld_ptr", Width(elem), 0), elem)
                ELSE IF Tok(n) = "."
                THEN LoadThrough(FieldAddress(n, w))
                ELSE As(EmitN(n, "ld_var", w.offset, Width(w.type)), w.type)
          [] OTHER -> Fail(c)

\* The type of a pointer to a place of the type last seen.
PointerTo(c) == As(c, ty_ptr(IF c.type.kind = "array" THEN ty_array_element(c.type) ELSE c.type))

\* & and the place it is the address of.
AddressOf(c) ==
    LET n == Skip(c)
        v == c.vars[find_var(c, Tok(c))]
    IN  IF Tok(c) \notin Names \/ find_var(c, Tok(c)) = 0 THEN Fail(c)
        ELSE IF Tok(n) = "[" THEN As(emit_index_address(n, v), ty_ptr(ty_array_element(v.type)))
        ELSE IF Tok(n) = "."
        THEN PointerTo(FieldAddress(n, v))
        ELSE PointerTo(As(EmitN(n, "lea_rax_var", v.offset, 0), v.type))

parse_unary_t(c) ==
    LET t == Tok(c)
        u == parse_unary_t(Skip(c))
    IN  CASE t = "!" -> As(Emit(u, "is_zero"), ty_bool)
          [] t = "~" -> Emit(u, "not")
          [] t = "-" -> As(Emit(u, "neg"), ty_int)
          [] t = "&" -> AddressOf(Skip(c))
          [] t = "*" -> LoadThrough(Deref(u))
          [] OTHER -> parse_primary_t(c)

\* parse_bitor_t, parse_bitand_t, parse_shift_t, parse_add_t and parse_mul_t:
\* the operators of each level.  A level parses one of the next higher level,
\* down to parse_unary_t, and then its own operators.
OperatorsAt == <<{"|"}, {"&"}, {"<<", ">>"}, {"+", "-"}, {"*", "/", "%"}>>

Combine_NoScale(r, op, lhs) ==
    CASE op = "+" -> As(Emit(Emit(r, "pop_rcx"), "add"), lhs)
      [] op = "-" -> As(Emit(Emit(r, "pop_rcx"), "rsub"), lhs)
      [] op \in {"<<", ">>"} -> As(Emit(Emit(Emit(r, "mov_rcx_rax"), "pop_rax"), op), ty_int)
      [] OTHER -> As(Emit(Emit(r, "pop_rcx"), op), ty_int)

\* The right operand is in rax, the left one, of type lhs, on the stack.
Combine(r, op, lhs) ==
    CASE op \in {"+", "-"} ->
            LET s == IF type_is_ptr(lhs) /\ ~type_is_ptr(r.type)
                     THEN EmitScale(r, type_pointee_size(lhs)) ELSE r
            IN  As(Emit(Emit(s, "pop_rcx"), IF op = "+" THEN "add" ELSE "rsub"), lhs)
      [] op \in {"<<", ">>"} -> As(Emit(Emit(Emit(r, "mov_rcx_rax"), "pop_rax"), op), ty_int)
      [] OTHER -> As(Emit(Emit(r, "pop_rcx"), op), ty_int)

Operators(c, l) ==
    IF Tok(c) \notin OperatorsAt[l] THEN c
    ELSE Operators(Combine(Level(Emit(Skip(c), "push_rax"), l + 1), Tok(c), c.type), l)

Climb(u, l) == IF l = 6 \/ ~u.ok THEN u ELSE Operators(Climb(u, l + 1), l)

Level(c, l) == Climb(parse_unary_t(c), l)

emit_cmp_set_NoPop(c, op) == Emit(Emit(c, "mov_rcx_rax"), op)

emit_cmp_set(c, op) == Emit(Emit(c, "pop_rcx"), op)

\* At most one comparison, with the left operand l.
Comparison(l) ==
    IF Tok(l) \notin {"==", "!=", "<=", ">=", "<", ">"} THEN l
    ELSE As(emit_cmp_set(Level(Emit(Skip(l), "push_rax"), 1), Tok(l)), ty_bool)

parse_expr_t(c) == Comparison(Level(c, 1))

-----------------------------------------------------------------------------
(* Statements. *)

RECURSIVE compile_block(_), compile_statement(_)

push_loop(c) ==
    IF Len(c.loops) >= MAX_LOOP_DEPTH THEN Fail(c) ELSE [c EXCEPT !.loops = Append(@, <<>>)]

\* The break whose jump is at index at belongs to the innermost loop.
add_break_patch(c, at) ==
    IF c.loops = <<>> THEN Fail(c)
    ELSE IF Len(Last(c.loops)) >= MAX_BREAKS_PER_LOOP THEN Fail(c)
    ELSE [c EXCEPT !.loops[Len(c.loops)] = Append(@, at)]

patch_loop_breaks_KeepsLoop(c, target) ==
    FoldLeft(LAMBDA d, at : patch32(d, at, target), c, Last(c.loops))

patch_loop_breaks(c, target) ==
    IF c.loops = <<>> THEN c
    ELSE [FoldLeft(LAMBDA d, at : patch32(d, at, target), c, Last(c.loops))
             EXCEPT !.loops = Front(@)]

\* let: a variable of the same name is used again, with the type it has.
LetType(c) == IF Tok(c) = ":" THEN parse_type(Skip(c)) ELSE As(c, ty_int)

\* The value of v, or zeroes for the type written here.
LetValue(c, v) ==
    LET slots == align_up(IF c.type.size = 0 THEN 8 ELSE c.type.size, 8) \div 8
    IN  IF Tok(c) = "="
        THEN consume(EmitN(parse_expr_t(Skip(c)), "st_var", v.offset, Width(v.type)), ";")
        ELSE consume(FoldLeft(LAMBDA f, k : EmitN(f, "st_var", v.offset - 8 * (k - 1), 8),
                              EmitN(c, "mov_rax", 0, 0), [k \in 1..slots |-> k]), ";")

LetVar(c, x) ==
    IF x \notin Names \/ ~c.ok THEN Fail(c) ELSE LetValue(c, c.vars[find_var(c, x)])

AddUnlessThere(c, x) == IF find_var(c, x) = 0 THEN add_var_type(c, x, c.type) ELSE c

Let(c) == LetVar(AddUnlessThere(LetType(Skip(c)), Tok(c)), Tok(c))

\* The condition of a while or an if, and the jump over the block.
Condition(c) ==
    consume(Emit(consume(parse_expr_t(consume(c, "(")), ")"), "jz"), "{")

\* The jump back to top, behind the body, and the way out to the end.
CloseLoop(c, top, je) ==
    LET end == text_len(c) + 1
    IN  IF ~c.ok THEN c
        ELSE patch_loop_breaks(patch32(patch32(Emit(c, "jmp"), end - 1, top), je, end), end)

LoopBody(c, top) == CloseLoop(compile_block(push_loop(c)), top, text_len(c) - 1)

While(c) == LoopBody(Condition(c), text_len(c))

Break(c) ==
    LET d == consume(c, ";") IN add_break_patch(Emit(d, "jmp"), text_len(d))

EndIf(c, jend) == IF c.ok THEN patch32(c, jend, text_len(c)) ELSE c

\* From behind the first block on; je is the jump over it.
Else(c, je) ==
    IF ~c.ok THEN c
    ELSE IF Tok(c) # "else" THEN patch32(c, je, text_len(c))
    ELSE EndIf(compile_block(consume(Skip(patch32(Emit(c, "jmp"), je, text_len(c) + 1)), "{")), text_len(c))

Then(c) == Else(compile_block(c), text_len(c) - 1)

If(c) == Then(Condition(c))

emit_epilogue_ret(c) == Emit(c, "leave_ret")

emit_return_rax(c) ==
    IF c.funcs[c.current].name = "main" THEN Emit(c, "exit_rax") ELSE emit_epilogue_ret(c)

\* An assignment through the address in rax, to a place of the type last seen.
StoreThrough(c) ==
    consume(EmitN(Emit(parse_expr_t(consume(Emit(c, "push_rax"), "=")), "pop_rcx"),
                  "st_ptr", Width(c.type), 0), ";")

\* The element or field of v that is assigned to.
Place(c, v) ==
    IF Tok(c) = "[" THEN As(emit_index_address(c, v), [v.type EXCEPT !.size = type_pointee_size(v.type)])
    ELSE FieldAddress(c, v)

Assign(c) ==
    LET n == Skip(c)
        v == c.vars[find_var(c, Tok(c))]
    IN  IF find_var(c, Tok(c)) = 0 THEN Fail(c)
        ELSE IF Tok(n) \in {"[", "."} THEN StoreThrough(Place(n, v))
        ELSE consume(EmitN(parse_expr_t(consume(n, "=")), "st_var", v.offset, Width(v.type)), ";")

compile_statement(c) ==
    LET t == Tok(c)
        n == Skip(c)
    IN  CASE t = "*" -> StoreThrough(Deref(parse_expr_t(n)))
          [] t = "let" -> Let(n)
          [] t = "while" -> While(n)
          [] t = "break" -> Break(n)
          [] t = "if" -> If(n)
          [] t = "{" -> compile_block(n)
          [] t = "return" -> consume(emit_return_rax(parse_expr_t(n)), ";")
          [] t = "puti" -> consume(consume(emit_puti_rax(parse_expr_t(consume(n, "("))), ")"), ";")
          [] t \in Names -> IF Tok(n) = "(" THEN consume(parse_expr_t(c), ";") ELSE Assign(c)
          [] OTHER -> Fail(c)

BlockRest(c) == IF c.ok THEN compile_block(c) ELSE c

\* The statements up to the closing brace.
compile_block(c) ==
    IF Tok(c) = "}" THEN Skip(c)
    ELSE IF Tok(c) = "" THEN Fail(c)
    ELSE BlockRest(compile_statement(c))

-----------------------------------------------------------------------------
(* Functions and programs. *)

RECURSIVE Fields(_, _), scan_structs(_), find_matching_brace(_, _), Params(_, _), scan_functions(_)

AddField(st, name, T) ==
    LET a == IF st.packed THEN 1 ELSE T.align
        off == align_up(st.size, a)
    IN  [st EXCEPT !.fields = Append(@, [name |-> name, type |-> T, offset |-> off]),
                   !.size = off + T.size, !.align = IF a > @ THEN a ELSE @]

\* The fields up to the closing brace; only then the struct is known.
Fields(c, st) ==
    LET t == parse_type(consume(Skip(c), ":"))
        d == consume(t, ";")
    IN  IF Tok(c) = "}" THEN [Skip(c) EXCEPT !.structs = Append(@, [st EXCEPT !.size = align_up(@, st.align)])]
        ELSE IF Tok(c) \notin Names \/ ~d.ok THEN Fail(c)
        ELSE Fields(d, AddField(st, Tok(c), t.type))

\* The attribute counts only when struct follows it at once: the scan goes on
\* from a line break with the attribute forgotten.
scan_structs(c0) ==
    LET c == Seek(c0, {"#", "struct"})
        packed == Tok(c) = "#" /\ Tok(Skip(Skip(c))) = "packed"
        d == IF packed THEN [c EXCEPT !.pos = @ + 4] ELSE c
        st == [name |-> Tok(Skip(d)), fields |-> <<>>, size |-> 0, align |-> 1, packed |-> packed]
    IN  IF Tok(d) = "" THEN d
        ELSE IF Tok(d) # "struct" THEN scan_structs(Skip(d))
        ELSE scan_structs(Fields(consume(Skip(Skip(d)), "{"), st))

\* Behind the brace that closes depth open ones.
find_matching_brace(c, depth) ==
    LET b == Seek(c, {"{", "}"})
    IN  IF Tok(b) = "" THEN Fail(c)
        ELSE IF Tok(b) = "{" THEN find_matching_brace(Skip(b), depth + 1)
        ELSE IF depth = 1 THEN Skip(b) ELSE find_matching_brace(Skip(b), depth - 1)

\* The parameters, each a name and a type, collected in params.
Params(c, ps) ==
    LET d == IF Tok(Skip(c)) = ":" THEN parse_type(Skip(Skip(c))) ELSE As(Skip(c), ty_int)
        qs == Append(ps, [name |-> Tok(c), type |-> d.type])
    IN  IF Tok(c) \notin Names \/ Len(ps) >= MAX_PARAMS THEN Fail(c)
        ELSE IF Tok(d) = "," THEN Params(Skip(d), qs)
        ELSE [consume(d, ")") EXCEPT !.params = qs]

ParamList(c) == IF Tok(c) = ")" THEN [Skip(c) EXCEPT !.params = <<>>] ELSE Params(c, <<>>)

Result(c) == IF Tok(c) = "->" THEN parse_type(Skip(c)) ELSE As(c, ty_int)

\* The function at c, whose body begins at b and ends before e.
AddFunction(c, b, e) ==
    IF ~e.ok \/ Tok(Skip(c)) \notin Names THEN Fail(c)
    ELSE [e EXCEPT !.funcs = Append(@, [name |-> Tok(Skip(c)), params |-> b.params,
                                        ret_type |-> b.type, body |-> b.pos, addr |-> 0])]

SkipBody(c, b) == AddFunction(c, b, find_matching_brace(b, 1))

\* The function whose fn is at c, and those behind it.
FunctionsFrom(c) ==
    IF Tok(c) = "" THEN c
    ELSE IF Len(c.funcs) >= MAX_FUNCS THEN Fail(c)
    ELSE scan_functions(SkipBody(c, consume(Seek(Result(ParamList(consume(Skip(Skip(c)), "("))), {"{"}), "{")))

scan_functions(c) == FunctionsFrom(Seek(c, {"fn"}))

\* Parameter k comes in register k.
StoreParam(c, k) ==
    LET p == c.funcs[c.current].params[k]
        d == add_var_type(c, p.name, p.type)
    IN  IF d.ok THEN EmitN(d, "st_arg", Last(d.vars).offset, k) ELSE d

FirstOffset_None == 0

\* [rbp-8] holds the caller's rbx.
FirstOffset == 8

Frame(c) == align_up(c.stack_size + 32, 16)

Prologue_KeepsVars(c, f) ==
    Emit([c EXCEPT !.current = f, !.funcs[f].addr = text_len(c),
                   !.stack_size = FirstOffset, !.pos = c.funcs[f].body], "enter")

Prologue(c, f) ==
    Emit([c EXCEPT !.current = f, !.funcs[f].addr = text_len(c), !.vars = <<>>,
                   !.stack_size = FirstOffset, !.pos = c.funcs[f].body], "enter")

\* Behind the body: main exits with 0, another function returns 0.
Epilogue(c) ==
    IF c.funcs[c.current].name = "main" THEN emit_exit_const(c, 0)
    ELSE emit_epilogue_ret(EmitN(c, "mov_rax", 0, 0))

\* The frame is known only now.
SetFrame(c, at) == IF c.ok THEN [Epilogue(c) EXCEPT !.text[at + 1][2] = Frame(c)] ELSE c

compile_function(c, f) ==
    IF ~c.ok THEN c
    ELSE SetFrame(compile_block(FoldLeft(StoreParam, Prologue(c, f), [k \in DOMAIN c.funcs[f].params |-> k])),
                  text_len(c))

MainOf(c) == SelectInSeq(c.funcs, LAMBDA g : g.name = "main")

\* The start-up code, which calls main, and the functions in their order.
CompileFunctions(c) ==
    IF ~c.ok \/ MainOf(c) = 0 THEN Fail(c)
    ELSE FoldLeft(compile_function, Emit(Emit(c, "call"), "exit_rax"), [f \in DOMAIN c.funcs |-> f])

PatchCalls(c) ==
    IF ~c.ok THEN c
    ELSE FoldLeft(LAMBDA d, k : patch32(d, k.patch, d.funcs[k.fn].addr),
                  patch32(c, 0, c.funcs[MainOf(c)].addr), c.calls)

compile_source(src) ==
    LET c == [src |-> src, pos |-> 1, ok |-> TRUE, type |-> ty_int, argc |-> 0, params |-> <<>>,
              text |-> <<>>, vars |-> <<>>, stack_size |-> 0, calls |-> <<>>, loops |-> <<>>,
              structs |-> <<>>, funcs |-> <<>>, current |-> 0]
    IN  PatchCalls(CompileFunctions(scan_functions([scan_structs(c) EXCEPT !.pos = 1])))

=============================================================================
