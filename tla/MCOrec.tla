------------------------------- MODULE MCOrec -------------------------------
(* Programs for Orec: expressions nested two deep over two leaves, every    *)
(* operator and every kind of operand once, statements nested two deep, and *)
(* programs that reach each limit or exceed it by one.                      *)
EXTENDS Orec

Num(t) == <<"num", t>>
Var(x) == <<"var", x>>
Bin(o, l, r) == <<"bin", o, l, r>>
Un(o, e) == <<"un", o, e>>
CallOf(f, es) == <<"call", f, es>>

INT == <<"int">>
CHAR == <<"char">>

MCNames == {"main", "f", "g", "bump", "x", "y", "z", "c", "a", "s", "u", "p", "q", "n",
            "Mixed", "t", "w", "b", "h", "i", "l"}

MCStructs == <<[name |-> "Mixed", packed |-> FALSE,
                fields |-> <<<<"c", CHAR>>, <<"n", INT>>, <<"u", <<"u32">>>>>>]>>

\* f mixes the widths, g calls itself, bump writes through its parameter.
F == [name |-> "f", params |-> <<<<"n", INT>>, <<"c", CHAR>>>>,
      body |-> <<<<"return", Bin("-", Var("n"), Var("c"))>>>>]
G == [name |-> "g", params |-> <<<<"n", INT>>>>,
      body |-> <<<<"if", Bin("<", Var("n"), Num("2")), <<<<"return", Var("n")>>>>, <<>>>>,
                 <<"return", Bin("-", CallOf("g", <<Bin("-", Var("n"), Num("1"))>>),
                                      CallOf("g", <<Bin("-", Var("n"), Num("2"))>>))>>>>]
Bump == [name |-> "bump", params |-> <<<<"p", <<"ptr", INT>>>>>>,
         body |-> <<<<"store", Var("p"), Bin("/", Un("*", Var("p")), Num("2"))>>,
                    <<"puti", Un("*", Var("p"))>>>>]

Main(b) == [name |-> "main", params |-> <<>>, body |-> b]

-----------------------------------------------------------------------------
(* Expressions. *)

Leaf == {Var("x"), Num("2")}
Shallow == Leaf \cup {Un("-", e) : e \in Leaf}
                \cup {Bin(o, l, r) : o \in {"-", "*", "<<", "<"}, l \in Leaf, r \in Leaf}
Deep == {Bin(o, l, r) : o \in {"-", "*", "<<", "<"}, l \in Shallow, r \in Shallow}

\* Every kind of operand, under every operator, with the variables it needs.
OfScalars == {Num("3"), Var("c"), Var("u"), CallOf("f", <<Var("x"), Var("x")>>), CallOf("g", <<Num("3")>>),
              <<"sizeof", <<"array", "2", INT>>>>, <<"sizeof", <<"struct", "Mixed">>>>,
              <<"alignof", <<"struct", "Mixed">>>>, <<"offsetof", <<"struct", "Mixed">>, "u">>}
Scalar == <<<<"let", "x", INT, Num("5")>>, <<"let", "c", CHAR, Num("9")>>,
            <<"let", "u", <<"u32">>, Un("-", Num("1"))>>>>

OfNarrow == {Var("b"), Var("h"), Var("i"), Var("l")}
Narrow == <<<<"let", "b", <<"bool">>, Num("1")>>, <<"let", "h", <<"u8">>, Num("9")>>,
            <<"let", "i", <<"i32">>, Num("5")>>, <<"let", "l", <<"u64">>, Un("-", Num("1"))>>>>

OfArrays == {<<"index", "a", Num("1")>>, <<"index", "s", Var("c")>>,
             Un("*", Bin("+", Var("p"), Num("1"))), Un("*", <<"addrindex", "s", Num("2")>>)}
Arrays == <<<<"let", "c", CHAR, Num("2")>>,
            <<"decl", "a", <<"array", "2", INT>>>>, <<"setindex", "a", Num("1"), Num("4")>>,
            <<"decl", "s", <<"array", "4", CHAR>>>>, <<"setindex", "s", Num("2"), Num("5")>>,
            <<"let", "p", <<"ptr", INT>>, <<"addr", "a">>>>>>

OfFields == {<<"field", "t", "u">>, <<"field", "t", "c">>, Un("*", <<"addrfield", "t", "n">>)}
Record == <<<<"decl", "t", <<"struct", "Mixed">>>>, <<"setfield", "t", "u", Num("4")>>,
            <<"setfield", "t", "n", Un("-", Num("2"))>>, <<"setfield", "t", "c", Num("9")>>>>

Right == {Num("3"), <<"sizeof", CHAR>>, CallOf("f", <<Num("0"), Num("1")>>)}
Wide(Operand) == {Bin(o, l, r) : o \in DOMAIN Precedence, l \in Operand, r \in Right}
                 \cup {Un(o, e) : o \in {"!", "~", "-"}, e \in Operand}

Using(locals, Operand) == {<<F, G, Main(locals \o <<<<"return", e>>>>)>> : e \in Wide(Operand)}

ExprPrograms ==
    {<<Main(<<<<"let", "x", INT, Num("5")>>, <<"return", e>>>>)>> : e \in Deep}
    \cup Using(Scalar, OfScalars) \cup Using(Narrow, OfNarrow) \cup Using(Arrays, OfArrays) \cup Using(Record, OfFields)

-----------------------------------------------------------------------------
(* Statements: x counts down from 3. *)

Down == <<"set", "x", Bin("-", Var("x"), Num("1"))>>
Simple == {<<"puti", Var("x")>>, Down, <<"return", Var("x")>>, <<"let", "y", CHAR, Var("x")>>,
           <<"do", CallOf("bump", <<<<"addr", "x">>>>)>>}
InLoop == Simple \cup {<<"break">>}
Short(S) == {<<>>} \cup {<<st>> : st \in S}
Choice(S) == {<<"if", Bin("<", Var("x"), Num("2")), b, d>> : b \in Short(S), d \in Short(S)}
Loop(b) == <<"while", Bin(">", Var("x"), Num("0")), b>>

Bodies == {<<st>> : st \in Choice(Simple)}
          \cup {<<Loop(<<Down, st>>)>> : st \in Choice(InLoop)}
          \cup {<<Loop(<<st, Down>>), <<"puti", Var("x")>>>> : st \in Choice(InLoop)}
          \cup {<<Loop(<<Down, Loop(<<Down>> \o b), <<"puti", Var("x")>>>> \o d)>> : b \in Short(InLoop), d \in Short(InLoop)}
          \cup {<<Loop(<<Down>>), Loop(<<Loop(<<<<"break">>>>), <<"break">>>>)>> \o b : b \in Short(InLoop)}
          \cup {<<Loop(<<Down, Loop(<<Down, Loop(<<Down>>)>>)>>)>>}
          \cup {<<Loop(<<st, <<"break">>, <<"break">>>>)>> : st \in Choice(InLoop)}

StmtPrograms ==
    {<<Bump, Main(<<<<"let", "x", INT, Num("3")>>>> \o b \o <<<<"puti", Var("x")>>>>)>> : b \in Bodies}

-----------------------------------------------------------------------------
(* The limits: MAX_FUNCS + 1 functions; MAX_VARS and MAX_VARS + 1 variables *)
(* in one function, behind functions that have some of their own, with and  *)
(* without parameters among them; MAX_PARAMS and MAX_PARAMS + 1 parameters. *)

Zero == <<<<"return", Num("0")>>>>
Lets(xs) == [k \in DOMAIN xs |-> <<"let", xs[k], INT, Num("1")>>]
Params3 == <<<<"x", INT>>, <<"y", INT>>, <<"z", INT>>>>
Fn(n, xs) == [name |-> "f", params |-> SubSeq(Params3, 1, n), body |-> Lets(xs) \o Zero]

Locals == {<<>>, <<"p">>, <<"p", "q">>, <<"p", "q", "c">>, <<"p", "q", "c", "a">>,
           <<"p", "q", "c", "a", "s">>, <<"p", "q", "c", "a", "p">>}

LimitPrograms ==
    {<<F, G, Bump, Main(Zero)>>}
    \cup {<<Fn(n, xs), Main(Lets(ys) \o Zero)>> : n \in 0..3, xs \in Locals, ys \in Locals}

MCPrograms == ExprPrograms \cup StmtPrograms \cup LimitPrograms

=============================================================================
