------------------------------- MODULE OreLang -------------------------------
(***************************************************************************)
(* OreLang, the language of user/orec.c, as a programmer reads it: the     *)
(* syntax trees of its functions, statements and expressions, the source   *)
(* text of a tree as a sequence of tokens, and what a program does.  The   *)
(* compiler does not use this module; it is what its output is held        *)
(* against.                                                                *)
(*                                                                         *)
(* A tree is a tuple whose first component names the production.  A word   *)
(* has eight bytes of BITS bits, so that the wrap-around of the arithmetic *)
(* and the truncation to char (one byte) and u32 (four bytes) come into    *)
(* reach of small numbers.  An i32 is a u32 here: nothing the repository   *)
(* says of i32 gives it a sign.                                            *)
(***************************************************************************)
EXTENDS Integers, Sequences, SequencesExt, Bitwise

CONSTANTS
    BITS,      \* bits of a byte
    Structs    \* the structs every program declares: a sequence of records
               \* [name, packed, fields], the fields pairs of a name and a type

ASSUME BitsAssumption == BITS \in 1..3

Span(bytes) == 2^(BITS * bytes)
Word(v) == v % Span(8)
Signed(v) == IF v >= Span(8) \div 2 THEN v - Span(8) ELSE v
Abs(v) == IF v < 0 THEN -v ELSE v
Bool(b) == IF b THEN 1 ELSE 0

Literals == [t \in {"0", "1", "2", "3", "4", "5", "9"} |->
    CASE t = "0" -> 0 [] t = "1" -> 1 [] t = "2" -> 2 [] t = "3" -> 3
      [] t = "4" -> 4 [] t = "5" -> 5 [] t = "9" -> 9]

Sizes == [k \in {"int", "u64", "u32", "i32", "char", "u8", "bool", "ptr"} |->
    CASE k \in {"u32", "i32"} -> 4 [] k \in {"char", "u8", "bool"} -> 1 [] OTHER -> 8]

-----------------------------------------------------------------------------
(* The source text.  Parentheses stand only where precedence needs them.   *)

Precedence == [o \in {"==", "!=", "<", "<=", ">", ">=", "|", "&", "<<", ">>",
                     "+", "-", "*", "/", "%"} |->
    CASE o \in {"==", "!=", "<", "<=", ">", ">="} -> 1 [] o = "|" -> 2 [] o = "&" -> 3
      [] o \in {"<<", ">>"} -> 4 [] o \in {"+", "-"} -> 5 [] OTHER -> 6]

\* [n]T may be written T[n]; an array of int is.
RECURSIVE ShowType(_), Show(_, _), ShowArgs(_), ShowStmt(_)

ShowType(T) == CASE T[1] = "ptr" -> <<"ptr", "<">> \o ShowType(T[2]) \o <<">">>
                 [] T[1] = "struct" -> <<T[2]>>
                 [] T[1] = "array" /\ T[3] = <<"int">> -> <<"int", "[", T[2], "]">>
                 [] T[1] = "array" -> <<"[", T[2], "]">> \o ShowType(T[3])
                 [] OTHER -> T

\* The expression e where an operator of precedence p or more may stand.
Show(e, p) ==
    CASE e[1] \in {"num", "var"} -> <<e[2]>>
      [] e[1] = "index" -> <<e[2], "[">> \o Show(e[3], 1) \o <<"]">>
      [] e[1] = "field" -> <<e[2], ".", e[3]>>
      [] e[1] = "addr" -> <<"&", e[2]>>
      [] e[1] = "addrfield" -> <<"&", e[2], ".", e[3]>>
      [] e[1] = "addrindex" -> <<"&", e[2], "[">> \o Show(e[3], 1) \o <<"]">>
      [] e[1] \in {"sizeof", "alignof"} -> <<e[1], "(">> \o ShowType(e[2]) \o <<")">>
      [] e[1] = "offsetof" -> <<"offsetof", "(">> \o ShowType(e[2]) \o <<",", e[3], ")">>
      [] e[1] = "call" -> <<e[2], "(">> \o ShowArgs(e[3]) \o <<")">>
      [] e[1] = "un" -> <<e[2]>> \o Show(e[3], 7)
      [] e[1] = "bin" ->
            LET q == Precedence[e[2]]
                s == Show(e[3], IF q = 1 THEN 2 ELSE q) \o <<e[2]>> \o Show(e[4], q + 1)
            IN  IF q < p THEN <<"(">> \o s \o <<")">> ELSE s

ShowArgs(es) == IF es = <<>> THEN <<>>
                ELSE Show(es[1], 1) \o (IF Len(es) = 1 THEN <<>> ELSE <<",">> \o ShowArgs(Tail(es)))

ShowBlock(b) == <<"{">> \o FlattenSeq([k \in DOMAIN b |-> ShowStmt(b[k])]) \o <<"}">>

ShowStmt(st) ==
    CASE st[1] = "let" -> <<"let", st[2], ":">> \o ShowType(st[3]) \o <<"=">> \o Show(st[4], 1) \o <<";">>
      [] st[1] = "decl" -> <<"let", st[2], ":">> \o ShowType(st[3]) \o <<";">>
      [] st[1] = "set" -> <<st[2], "=">> \o Show(st[3], 1) \o <<";">>
      [] st[1] = "setindex" -> <<st[2], "[">> \o Show(st[3], 1) \o <<"]", "=">> \o Show(st[4], 1) \o <<";">>
      [] st[1] = "setfield" -> <<st[2], ".", st[3], "=">> \o Show(st[4], 1) \o <<";">>
      [] st[1] = "store" -> <<"*">> \o Show(st[2], 7) \o <<"=">> \o Show(st[3], 1) \o <<";">>
      [] st[1] = "if" -> <<"if", "(">> \o Show(st[2], 1) \o <<")">> \o ShowBlock(st[3])
                         \o (IF st[4] = <<>> THEN <<>> ELSE <<"else">> \o ShowBlock(st[4]))
      [] st[1] = "while" -> <<"while", "(">> \o Show(st[2], 1) \o <<")">> \o ShowBlock(st[3])
      [] st[1] = "break" -> <<"break", ";">>
      [] st[1] = "return" -> <<"return">> \o Show(st[2], 1) \o <<";">>
      [] st[1] = "puti" -> <<"puti", "(">> \o Show(st[2], 1) \o <<")", ";">>
      [] st[1] = "do" -> Show(st[2], 1) \o <<";">>

ShowParams(ps) == FlattenSeq([k \in DOMAIN ps |->
    (IF k = 1 THEN <<>> ELSE <<",">>) \o <<ps[k][1], ":">> \o ShowType(ps[k][2])])

\* An attribute stands on a line of its own.
ShowStructs == FlattenSeq([k \in DOMAIN Structs |->
    (IF Structs[k].packed THEN <<"#", "[", "packed", "]", "\n">> ELSE <<>>)
    \o <<"struct", Structs[k].name, "{">>
    \o FlattenSeq([j \in DOMAIN Structs[k].fields |->
           <<Structs[k].fields[j][1], ":">> \o ShowType(Structs[k].fields[j][2]) \o <<";">>])
    \o <<"}">>])

ShowProgram(prog) == ShowStructs \o FlattenSeq([k \in DOMAIN prog |->
    <<"fn", prog[k].name, "(">> \o ShowParams(prog[k].params) \o <<")", "->", "int">>
    \o ShowBlock(prog[k].body)])

-----------------------------------------------------------------------------
(* What a program does: the numbers it prints and the code it exits with.  *)
(* A store is a sequence of cells, one for every variable ever created;    *)
(* env gives the cell of each variable of the running function.  A pointer *)
(* names a cell and an element of it.                                      *)

Traps(o, l, r) == /\ o \in {"/", "%"}
                  /\ r = 0 \/ (Signed(l) = -(Span(8) \div 2) /\ Signed(r) = -1)

Quotient(l, r) == LET q == Abs(l) \div Abs(r) IN IF (l < 0) = (r < 0) THEN q ELSE -q

Apply(o, l, r) ==
    CASE o = "==" -> Bool(l = r)
      [] o = "!=" -> Bool(l # r)
      [] o = "<" -> Bool(Signed(l) < Signed(r))
      [] o = "<=" -> Bool(Signed(l) <= Signed(r))
      [] o = ">" -> Bool(Signed(l) > Signed(r))
      [] o = ">=" -> Bool(Signed(l) >= Signed(r))
      [] o = "|" -> l | r
      [] o = "&" -> l & r
      [] o = "<<" -> Word(l * 2^(r % (8 * BITS)))
      [] o = ">>" -> Word(Signed(l) \div 2^(r % (8 * BITS)))
      [] o = "+" -> Word(l + r)
      [] o = "-" -> Word(l - r)
      [] o = "*" -> Word(Signed(l) * Signed(r))
      [] o = "/" -> Word(Quotient(Signed(l), Signed(r)))
      [] o = "%" -> Word(Signed(l) - Signed(r) * Quotient(Signed(l), Signed(r)))

Loc(cell, k) == 8 * cell + k

StructOf(T) == SelectSeq(Structs, LAMBDA st : st.name = T[2])[1]

FieldIndex(T, f) == CHOOSE k \in DOMAIN StructOf(T).fields : StructOf(T).fields[k][1] = f

\* The sizes of the elements of a T; the fields of a struct are scalars.
Elements(T) ==
    CASE T[1] = "array" -> [k \in 1..Literals[T[2]] |-> Sizes[T[3][1]]]
      [] T[1] = "struct" -> [k \in DOMAIN StructOf(T).fields |-> Sizes[StructOf(T).fields[k][2][1]]]
      [] OTHER -> <<Sizes[T[1]]>>

Padded(n, a) == n + (-n % a)

\* Every field of a struct is aligned to its size and the struct to its
\* largest field, unless the struct is packed.
Packed(T) == T[1] = "struct" /\ StructOf(T).packed

AlignOf(T) == IF Packed(T) THEN 1 ELSE Max(ToSet(Elements(T)))

\* The end of elements of these sizes.
EndOf(T, sizes) == FoldLeft(LAMBDA n, k : (IF Packed(T) THEN n ELSE Padded(n, k)) + k, 0, sizes)

SizeOf(T) == Padded(EndOf(T, Elements(T)), AlignOf(T))

OffsetOf(T, f) ==
    LET k == FieldIndex(T, f) IN EndOf(T, SubSeq(Elements(T), 1, k)) - Elements(T)[k]

Read(s, loc) == s.store[loc \div 8].val[(loc % 8) + 1]
Write(s, loc, v) ==
    [s EXCEPT !.store[loc \div 8].val[(loc % 8) + 1] = 
        v % Span(Elements(s.store[loc \div 8].type)[(loc % 8) + 1])]

\* The variable x of type T, created unless the function has it already.
Declare(s, x, T) ==
    IF x \in DOMAIN s.env THEN s
    ELSE [s EXCEPT !.store = Append(@, [type |-> T,
                                        val |-> [k \in DOMAIN Elements(T) |-> 0]]),
                   !.env = [y \in DOMAIN s.env \cup {x} |->
                               IF y = x THEN Len(s.store) + 1 ELSE s.env[y]]]

\* The place of the field f of x.
FieldLoc(s, x, f) == Loc(s.env[x], FieldIndex(s.store[s.env[x]].type, f) - 1)

Clear(s, x) == [s EXCEPT !.store[s.env[x]].val = [k \in DOMAIN @ |-> 0]]

Stop(s, how) == [s EXCEPT !.flow = how]

FunctionOf(prog, f) == SelectSeq(prog, LAMBDA g : g.name = f)[1]

RECURSIVE Eval(_, _), EvalArgs(_, _), Exec(_, _), Do(_, _)

\* The value of e in s, and s after the calls in e.
Eval(e, s) ==
    CASE e[1] = "num" -> <<Literals[e[2]], s>>
      [] e[1] = "var" -> <<Read(s, Loc(s.env[e[2]], 0)), s>>
      [] e[1] = "index" -> LET i == Eval(e[3], s) IN <<Read(i[2], Loc(s.env[e[2]], i[1])), i[2]>>
      [] e[1] = "field" -> <<Read(s, FieldLoc(s, e[2], e[3])), s>>
      [] e[1] = "addrfield" -> <<FieldLoc(s, e[2], e[3]), s>>
      [] e[1] = "addr" -> <<Loc(s.env[e[2]], 0), s>>
      [] e[1] = "addrindex" -> LET i == Eval(e[3], s) IN <<Loc(s.env[e[2]], i[1]), i[2]>>
      [] e[1] = "sizeof" -> <<SizeOf(e[2]), s>>
      [] e[1] = "alignof" -> <<AlignOf(e[2]), s>>
      [] e[1] = "offsetof" -> <<OffsetOf(e[2], e[3]), s>>
      [] e[1] = "un" ->
            LET v == Eval(e[3], s)
            IN  <<CASE e[2] = "!" -> Bool(v[1] = 0)
                    [] e[2] = "~" -> Word(-1 - v[1])
                    [] e[2] = "-" -> Word(-v[1])
                    [] e[2] = "*" -> Read(v[2], v[1]), v[2]>>
      [] e[1] = "bin" ->
            LET l == Eval(e[3], s)
                r == Eval(e[4], l[2])
            IN  IF Traps(e[2], l[1], r[1]) THEN <<0, Stop(r[2], "trap")>>
                ELSE <<Apply(e[2], l[1], r[1]), r[2]>>
      [] e[1] = "call" ->
            LET args == EvalArgs(e[3], <<<<>>, s>>)
                fn == FunctionOf(s.prog, e[2])
                Bind(t, k) == LET d == Declare(t, fn.params[k][1], fn.params[k][2])
                              IN  Write(d, Loc(d.env[fn.params[k][1]], 0), args[1][k])
                entry == FoldLeft(Bind, [args[2] EXCEPT !.env = <<>>],
                                  [k \in DOMAIN fn.params |-> k])
                done == Exec(fn.body, entry)
            IN  IF args[2].flow = "trap" THEN <<0, args[2]>>
                ELSE <<IF done.flow = "return" THEN done.ret ELSE 0,
                       [done EXCEPT !.env = s.env,
                                    !.flow = IF @ = "trap" THEN "trap" ELSE "next"]>>

EvalArgs(es, acc) ==
    IF es = <<>> THEN acc
    ELSE LET v == Eval(es[1], acc[2]) IN EvalArgs(Tail(es), <<Append(acc[1], v[1]), v[2]>>)

Exec(b, s) == IF b = <<>> \/ s.flow # "next" THEN s ELSE Exec(Tail(b), Do(b[1], s))

Do(st, s) ==
    LET \* Evaluate e in t, then go on with the value unless that trapped.
        With(e, t, F(_, _)) == LET v == Eval(e, t)
                               IN  IF v[2].flow = "trap" THEN v[2] ELSE F(v[1], v[2])
    IN
    CASE st[1] = "let" -> With(st[4], s, LAMBDA v, t :
                              LET d == Declare(t, st[2], st[3]) IN Write(d, Loc(d.env[st[2]], 0), v))
      [] st[1] = "decl" -> Clear(Declare(s, st[2], st[3]), st[2])
      [] st[1] = "set" -> With(st[3], s, LAMBDA v, t : Write(t, Loc(t.env[st[2]], 0), v))
      [] st[1] = "setindex" -> With(st[3], s, LAMBDA i, t :
                              With(st[4], t, LAMBDA v, u : Write(u, Loc(u.env[st[2]], i), v)))
      [] st[1] = "setfield" -> With(st[4], s, LAMBDA v, t : Write(t, FieldLoc(t, st[2], st[3]), v))
      [] st[1] = "store" -> With(st[2], s, LAMBDA p, t :
                              With(st[3], t, LAMBDA v, u : Write(u, p, v)))
      [] st[1] = "if" -> With(st[2], s, LAMBDA v, t : Exec(IF v # 0 THEN st[3] ELSE st[4], t))
      [] st[1] = "while" -> With(st[2], s, LAMBDA v, t :
                              IF v = 0 THEN t
                              ELSE LET u == Exec(st[3], t)
                                   IN  IF u.flow = "break" THEN Stop(u, "next")
                                       ELSE IF u.flow = "next" THEN Do(st, u) ELSE u)
      [] st[1] = "break" -> Stop(s, "break")
      [] st[1] = "return" -> With(st[2], s, LAMBDA v, t : [Stop(t, "return") EXCEPT !.ret = v])
      [] st[1] = "puti" -> With(st[2], s, LAMBDA v, t : [t EXCEPT !.out = Append(@, v)])
      [] st[1] = "do" -> Eval(st[2], s)[2]

Meaning(prog) ==
    LET s == Eval(<<"call", "main", <<>>>>,
                  [prog |-> prog, env |-> <<>>, store |-> <<>>, out |-> <<>>, flow |-> "next", ret |-> 0])
    IN  [out |-> s[2].out, end |-> IF s[2].flow = "trap" THEN "trap" ELSE "exit",
         code |-> IF s[2].flow = "trap" THEN 0 ELSE s[1]]

-----------------------------------------------------------------------------
(* The counts that the compiler has limits for. *)

RECURSIVE Declared(_), Depth(_), LoopsIn(_), Breaks(_)

Subblocks(b) == {b[k][3] : k \in {j \in DOMAIN b : b[j][1] \in {"if", "while"}}}
                \cup {b[k][4] : k \in {j \in DOMAIN b : b[j][1] = "if"}}

Declared(b) == {b[k][2] : k \in {j \in DOMAIN b : b[j][1] \in {"let", "decl"}}}
               \cup UNION {Declared(d) : d \in Subblocks(b)}

\* The bodies of the loops in b.
LoopsIn(b) == {b[k][3] : k \in {j \in DOMAIN b : b[j][1] = "while"}}
              \cup UNION {LoopsIn(d) : d \in Subblocks(b)}

Depth(b) == IF LoopsIn(b) = {} THEN 0 ELSE 1 + Max({Depth(d) : d \in LoopsIn(b)})

\* The breaks in b that leave the loop around b.
Breaks(b) ==
    IF b = <<>> THEN 0
    ELSE Breaks(Tail(b)) + (CASE b[1][1] = "break" -> 1
                              [] b[1][1] = "if" -> Breaks(b[1][3]) + Breaks(b[1][4])
                              [] OTHER -> 0)

VariablesOf(fn) == Declared(fn.body) \cup {fn.params[k][1] : k \in DOMAIN fn.params}

\* The calls in the source text; the name behind "fn" is not a call.
CallSites(src, names) ==
    {k \in 2..Len(src) - 1 : src[k] \in names /\ src[k + 1] = "(" /\ src[k - 1] # "fn"}

=============================================================================
