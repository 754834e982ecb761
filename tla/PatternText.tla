----------------------------- MODULE PatternText -----------------------------
(* The text of definitions, as docs/pattern-language.md writes them: with    *)
(* the parentheses that are needed and no others.                            *)
EXTENDS Integers, Sequences, SequencesExt

(* How tightly a kind of expression binds, with the precedences of C.        *)
Precedence(n) ==
    CASE n.is = "ternary" -> 0
      [] n.is = "binary" /\ n.operator = "||" -> 1
      [] n.is = "binary" /\ n.operator = "&&" -> 2
      [] n.is = "binary" /\ n.operator = "^^" -> 3
      [] n.is = "binary" /\ n.operator \in {"==", "!="} -> 4
      [] n.is = "binary" /\ n.operator \in {"<", ">", "<=", ">="} -> 5
      [] n.is = "binary" /\ n.operator \in {"<<", ">>"} -> 6
      [] n.is = "binary" /\ n.operator \in {"+", "-"} -> 7
      [] n.is = "binary" /\ n.operator \in {"*", "/", "%"} -> 8
      [] n.is = "unary" /\ n.operator # "$" -> 9
      [] OTHER -> 10

RECURSIVE Text(_)
Opt(n, before, after) == IF n.is = "nil" THEN <<>> ELSE before \o Text(n) \o after
Tight(n, level) == IF Precedence(n) >= level THEN Text(n) ELSE <<"(">> \o Text(n) \o <<")">>
Each(ns) == FlattenSeq([i \in DOMAIN ns |-> Text(ns[i])])
Listed(ns, sep) == FlattenSeq([i \in DOMAIN ns |-> (IF i = 1 THEN <<>> ELSE <<sep>>)
    \o Text(ns[i])])
Word(w) == IF w = "" THEN <<>> ELSE <<w>>

Address(op) ==
    (IF op.immediate THEN <<"$">> ELSE <<>>) \o (IF op.wildcard THEN <<"*">> ELSE <<>>)
    \o Word(op.literal) \o Word(op.register) \o Word(op.capture)
    \o IF ~op.memory THEN <<>>
       ELSE <<"(", IF op.base = "" THEN op.offset ELSE op.base, ")">>
            \o IF op.index = "" THEN <<>>
               ELSE <<"(", op.index>> \o (IF op.scale = "" THEN <<>> ELSE <<"*", op.scale>>)
                   \o <<")">>

Quoted(f, s) == IF s = "" THEN <<>> ELSE <<f, ":", "'" \o s \o "'", ";">>
Block(ns) == <<"{">> \o Each(ns) \o <<"}">>

Text(n) ==
    LET p == Precedence(n)
    IN CASE n.is = "nil" -> <<>>
         [] n.is = "literal" -> <<n.value>>
         [] n.is = "identifier" -> <<n.name>>
         [] n.is = "type" -> <<n.name>> \o IF n.member = "" THEN <<>> ELSE <<"::", n.member>>
         [] n.is = "binary" -> Tight(n.left, p) \o <<n.operator>> \o Tight(n.right, p + 1)
         [] n.is = "unary" -> <<n.operator>> \o Tight(n.right, p)
         [] n.is = "ternary" -> Tight(n.condition, 1) \o <<"?">> \o Text(n.true) \o <<":">>
             \o Text(n.false)
         [] n.is = "cast" -> Tight(n.expr, p) \o <<"as">> \o Text(n.type)
         [] n.is = "call" -> Tight(n.function, p) \o <<"(">> \o Listed(n.args, ",") \o <<")">>
         [] n.is = "index" -> Tight(n.left, p) \o <<"[">> \o Text(n.index) \o <<"]">>
         [] n.is = "scope" -> Tight(n.left, p) \o <<"::", n.member>>
         [] n.is = "block" -> Block(n.statements)
         [] n.is = "if" -> <<"if", "(">> \o Text(n.condition) \o <<")">> \o Text(n.body)
                           \o Opt(n.elseBody, <<"else">>, <<>>)
         [] n.is = "while" -> <<"while", "(">> \o Text(n.condition) \o <<")">> \o Text(n.body)
         [] n.is = "for" -> <<"for", "(">> \o Text(n.init)
                            \o (IF n.init.is = "nil" THEN <<";">> ELSE <<>>) \o Text(n.condition)
                            \o <<";">> \o (IF n.post.is = "nil" THEN <<>>
                                ELSE Text(n.post.expr)) \o <<")">> \o Text(n.body)
         [] n.is = "return" -> <<"return">> \o Text(n.value) \o <<";">>
         [] n.is \in {"break", "continue"} -> <<n.is, ";">>
         [] n.is = "expression" -> Text(n.expr) \o <<";">>
         [] n.is = "try" -> <<"try">> \o Text(n.body)
                            \o Opt(n.catchBody, <<"catch", "(", n.catchID, ")">>, <<>>)
         [] n.is = "match" -> <<"match", "(">> \o Text(n.value) \o <<")", "{">>
             \o Each(n.cases) \o <<"}">>
         [] n.is = "case" -> <<"(">> \o Listed(n.patterns, "|") \o <<")", ":", "{">>
             \o Each(n.body) \o <<"}">>
         [] n.is = "casePattern" -> Text(n.start) \o Opt(n.end, <<"...">>, <<>>)
         [] n.is = "variable" ->
              IF n.name = "padding" THEN <<"padding", "[", "1", "]", ";">>
              ELSE Text(n.type) \o (IF n.pointer THEN <<"*">> ELSE <<>>) \o <<n.name>>
                   \o (IF n.array THEN <<"[", "1", "]">> ELSE <<>>)
                   \o Opt(n.offset, <<"@">>, <<>>) \o Opt(n.value, <<"=">>, <<>>) \o <<";">>
         [] n.is = "struct" -> <<"struct", n.name>>
             \o (IF n.base = "" THEN <<>> ELSE <<":", n.base>>)
                               \o Block(n.members) \o <<";">>
         [] n.is = "union" -> <<"union", n.name>> \o Block(n.members) \o <<";">>
         [] n.is = "enum" -> <<"enum", n.name, ":">> \o Text(n.base) \o <<"{">>
             \o Listed(n.values, ",")
                             \o <<"}", ";">>
         [] n.is = "enumValue" -> <<n.name>> \o Opt(n.value, <<"=">>, <<>>)
         [] n.is = "bitfield" -> <<"bitfield", n.name>> \o Block(n.fields) \o <<";">>
         [] n.is = "field" -> <<n.name, ":">> \o Text(n.size) \o <<";">>
         [] n.is = "using" -> <<"using", n.name, "=">> \o Text(n.type) \o <<";">>
         [] n.is = "namespace" -> <<"namespace", n.name>> \o Block(n.body)
         [] n.is = "import" -> <<"import">> \o n.path \o <<";">>
         [] n.is = "function" -> <<"fn", n.name, "(">> \o Listed(n.params, ",") \o <<")">>
             \o Text(n.body)
         [] n.is = "param" -> Text(n.type) \o <<n.name>> \o Opt(n.default, <<"=">>, <<>>)
         [] n.is = "endian" -> <<n.order, ";">>
         [] n.is = "arch" -> <<"arch", n.arch, ";">>
         [] n.is = "platforms" -> <<"platform">> \o Listed(n.platforms, ",") \o <<";">>
         [] n.is = "platform" -> <<n.name>>
         [] n.is = "pattern" -> <<"pattern", "p", "{">> \o Quoted("name", n.name)
                                \o Quoted("library", n.library) \o Each(n.instrBlocks)
                                    \o Text(n.genBlock) \o Text(n.bindBlock) \o <<"}">>
         [] n.is = "instr" -> <<"instr", n.name, "{">>
                              \o FlattenSeq([i \in DOMAIN n.alternatives |->
                                    (IF i = 1 THEN <<>> ELSE <<"|">>) \o Each(n.alternatives[i])])
                              \o <<"}">>
         [] n.is = "instruction" -> (IF n.label = "" THEN <<n.opcode>> ELSE <<"@", n.label, ":">>)
                                    \o Listed(n.operands, ",")
         [] n.is = "operand" -> Address(n)
         [] n.is = "gen" -> <<"gen", "{">> \o n.text \o <<"}">>
         [] n.is = "bind" -> <<"bind", "{">> \o Each(n.bindings) \o <<"}">>
         [] n.is = "binding" -> <<n.capture, "as", "'" \o n.alias \o "'", ";">>
=============================================================================
