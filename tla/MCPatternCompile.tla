-------------------------- MODULE MCPatternCompile --------------------------
EXTENDS PatternCompile

T == INSTANCE PatternText

MCIntegerTokens == ("0" :> 0) @@ ("1" :> 1) @@ ("2" :> 2)
MCStringTokens == ("'fd'" :> "fd") @@ ("'type'" :> "type") @@ ("'lib'" :> "lib") @@ ("'$cd'" :> "$cd")
MCRegisters == {"AX", "SP"}
MCOpcodes == {"MOVQ", "RET"}
MCGoKeywords == {"type"}

(* Nodes.                                                                    *)
With(is, fields) == fields @@ Zero(is)
Id(x) == With("identifier", [name |-> x])
Lit(x) == With("literal", [value |-> x])
Bin(l, op, r) == With("binary", [left |-> l, operator |-> op, right |-> r])
Un(op, r) == With("unary", [operator |-> op, right |-> r])
Ty(x) == With("type", [name |-> x])
Var(x, e) == With("variable", [type |-> Ty("bool"), name |-> x, value |-> e])
Block(ss) == With("block", [statements |-> ss])
Fn(ss) == With("function",
    [name |-> "f", params |-> <<With("param", [type |-> Ty("u32"), name |-> "a"])>>,
                            body |-> Block(ss)])

(* Expressions: one operator of every level, and every other form.           *)
Atoms == {Id("a"), Lit("1"), Un("$", Id("c"))}
Operators == {"||", "&&", "^^", "!=", "<=", ">>", "-", "/"}
Around(S) ==
    {Bin(l, op, Id("a")) : l \in S, op \in Operators}
      \union {Bin(Id("a"), op, r) : op \in Operators, r \in S}
      \union {Un(op, e) : op \in {"-", "!"}, e \in S}
      \union {With("cast", [type |-> With("type", [name |-> "t", member |-> "m"]),
          expr |-> e]) : e \in S}
      \union {With("call", [function |-> e, args |-> <<e, Id("a")>>]) : e \in S}
      \union {With("index", [left |-> e, index |-> e]) : e \in S}
      \union {With("scope", [left |-> e, member |-> "m"]) : e \in S}
      \union {With("ternary", [condition |-> e, true |-> e, false |-> e]) : e \in S}
Small == {Id("a")} \union Around({Id("a")})
Expressions == Around(Atoms) \union Around(Small)

(* Statements; an else goes to the nearest if, so that an if without one is  *)
(* not written before an else.                                               *)
RECURSIVE EndsOpen(_)
EndsOpen(s) ==
    CASE s.is = "if" -> s.elseBody = Nil \/ EndsOpen(s.elseBody)
      [] s.is \in {"while", "for"} -> EndsOpen(s.body)
      [] s.is = "try" -> s.catchBody = Nil \/ EndsOpen(s.catchBody)
      [] OTHER -> FALSE
Simple == {With("return", [value |-> Nil]), With("expression", [expr |-> Id("x")]),
           With("break", <<>>), With("continue", <<>>), Var("b", Lit("false"))}
Compound(S) ==
    {With("if", [condition |-> c, body |-> s]) : c \in {Lit("true"), Id("a")}, s \in S}
      \union {With("if", [condition |-> Id("a"), body |-> s, elseBody |-> t])
                : s \in {u \in S : ~EndsOpen(u)}, t \in S}
      \union {With("while", [condition |-> Id("a"), body |-> s]) : s \in S}
      \union {With("for", [init |-> Var("i", Lit("0")), condition |-> Id("a"),
                           post |-> With("expression", [expr |-> Id("i")]), body |-> s]) : s \in S}
      \union {With("try", [body |-> s, catchID |-> "e", catchBody |-> t])
                : s \in {u \in S : ~EndsOpen(u)}, t \in {Var("b", Lit("false"))}}
      \union {With("match", [value |-> Id("a"),
                  cases |-> <<With("case", [patterns |->
                                  <<With("casePattern", [start |-> Lit("1"), end |-> Lit("2")]),
                                    With("casePattern", [start |-> Id("_")])>>,
                                        body |-> <<s>>])>>]) : s \in S}
      \union {Block(<<s, s>>) : s \in S}
Bodies == Compound(Simple)
    \union Compound(Compound({With("return", [value |-> Nil]), Var("b", Lit("false"))}))
Loop == Block(<<Var("b", Lit("true")),
    With("while", [condition |-> Id("b"), body |-> Var("b", Lit("false"))])>>)

(* Definitions.                                                              *)
Member == With("variable", [type |-> Ty("u32"), name |-> "x", array |-> TRUE, offset |-> Lit("1")])
Padding == With("variable", [type |-> Ty("padding"), name |-> "padding"])
Definitions == {
    With("struct", [name |-> "s", base |-> "", members |-> <<Padding, Member>>]),
    With("struct", [name |-> "s", base |-> "t", members |-> <<Member, Member>>]),
    With("union", [name |-> "u", members |-> <<Member>>]),
    With("enum", [name |-> "e", base |-> Ty("u32"),
                  values |-> <<With("enumValue", [name |-> "x", value |-> Lit("1")]),
                               With("enumValue", [name |-> "y"])>>]),
    With("bitfield",
        [name |-> "b", fields |-> <<With("field", [name |-> "x", size |-> Lit("1")])>>]),
    With("using", [name |-> "n", type |-> Ty("u32")]),
    With("namespace", [name |-> "n", body |-> <<Member, Fn(<<>>)>>]),
    With("import", [path |-> <<"std", "::", "string">>]),
    With("endian", [order |-> "big_endian"]),
    With("arch", [arch |-> "x86_64"]),
    With("platforms", [platforms |-> <<With("platform", [name |-> "linux"]),
                                       With("platform", [name |-> "darwin"])>>]),
    With("variable", [type |-> Ty("s"), name |-> "v", pointer |-> TRUE, value |-> Id("a")])}

(* Patterns.                                                                 *)
Operand(fields) == With("operand", fields)
Operands == {
    Operand([wildcard |-> TRUE]), Operand([immediate |-> TRUE, literal |-> "1"]),
    Operand([immediate |-> TRUE, capture |-> "c"]), Operand([literal |-> "2"]),
    Operand([register |-> "AX"]), Operand([capture |-> "c"]),
    Operand([memory |-> TRUE, base |-> "AX"]), Operand([memory |-> TRUE, offset |-> "1"]),
    Operand([memory |-> TRUE, base |-> "c", index |-> "AX", scale |-> "2"]),
    Operand([capture |-> "c", memory |-> TRUE, offset |-> "c", base |-> "SP"])}
Instruction(ops) == With("instruction", [opcode |-> "MOVQ", operands |-> ops])
Ret == With("instruction", [opcode |-> "RET"])
Label == With("instruction", [label |-> "done"])
Instr(alts) == With("instr", [name |-> "i", alternatives |-> alts])
Alternatives == {<< <<Instruction(<<o1, o2>>), Ret>> >> : o1 \in Operands, o2 \in Operands}
    \union {<< <<Instruction(<<o>>)>>, <<Label, Ret>> >> : o \in Operands}
Bind == With("bind", [bindings |-> <<With("binding", [capture |-> "c", alias |-> "type"]),
                                     With("binding", [capture |-> "d", alias |-> "fd"])>>])
Gen(ts) == [is |-> "gen", text |-> ts]
Pattern(blocks, gen, bnd) ==
    With("pattern", [name |-> "fd", library |-> "lib", instrBlocks |-> blocks,
        genBlock |-> gen, bindBlock |-> bnd])

(* The texts of gen blocks: the pieces, with the braces balanced. A string   *)
(* may spell a captured variable, or begin with one.                         *)
Pieces == { <<"{">>, <<"}">>, <<"x">>, <<"if">>, <<"1">>, <<"$", "c">>, <<"'$cd'">> }
RECURSIVE Balanced(_, _)
Balanced(ps, depth) ==
    IF ps = <<>> THEN depth = 0
    ELSE LET d == CASE Head(ps) = <<"{">> -> depth + 1
                    [] Head(ps) = <<"}">> -> depth - 1
                    [] OTHER -> depth
         IN d >= 0 /\ Balanced(Tail(ps), d)
Texts(n) == {FlattenSeq(ps) : ps \in {qs \in [1..n -> Pieces] : Balanced(qs, 0)}}
GenTexts == UNION {Texts(n) : n \in 0..4}

(* Files: a program, or what is left of it when its tokens end early.        *)
Tokens(program) == FlattenSeq([i \in DOMAIN program |-> T!Text(program[i])])
File(program, length) ==
    [tokens |-> SubSeq(Tokens(program), 1, length), written |-> program,
     whole |-> Cardinality({i \in DOMAIN program : Len(Tokens(SubSeq(program, 1, i))) <= length})]

Function(s) == <<Fn(<<s>>), Var("g", Id("a"))>>
Whole ==
    {<<Fn(<<With("return", [value |-> e])>>)>> : e \in Expressions}
      \union {<<Pattern(<<Instr(<< <<Ret>> >>), Instr(a)>>, Nil, Bind)>> : a \in Alternatives}
      \union {<<Pattern(<<>>, Gen(ts), Bind), Pattern(<<>>, Gen(ts), Nil)>> : ts \in GenTexts}
      \union {Function(s) : s \in Bodies \union {Loop}}
Cut ==
    {Function(s) : s \in Compound({Var("b", Lit("false"))})}
        \union {<<d, Var("g", Lit("1"))>> : d \in Definitions}
      \union {<<Pattern(<<Instr(a)>>, Gen(<<"x", "{", "$", "c", "}">>), Bind), Var("g", Lit("1"))>>
                 : a \in {<< <<Instruction(<<o>>)>>, <<Label, Ret>> >> : o \in Operands}}

(* A directive is left in the tokens where a macro stands for it; a token    *)
(* that begins no definition ends the parse with an error.                   *)
Odd == LET program == <<Var("g", Lit("1")), Var("h", Lit("2"))>>
           whole == File(program, Len(Tokens(program)))
       IN {[whole EXCEPT !.tokens = <<Directive>> \o @ \o <<Directive>>],
           [whole EXCEPT !.tokens = @ \o <<"}">>]}

MCSources ==
    Odd \union {File(p, Len(Tokens(p))) : p \in Whole}
      \union UNION {{File(p, n) : n \in 0..Len(Tokens(p))} : p \in Cut}

(* A gen block with a condition as the documentation writes it:              *)
(* gen { @if ($c == "fd") { x; } else { y; } }                               *)
ConditionInText == <<"@", "if", "(", "$", "c", "==", "'fd'", ")", "{", "x", ";", "}",
                     "else", "{", "y", ";", "}">>
MCDocumented == LET program == <<Pattern(<<Instr(<< <<Ret>> >>)>>, Gen(ConditionInText), Bind)>>
                IN {File(program, Len(Tokens(program)))}
=============================================================================
