------------------------------- MODULE Parser -------------------------------
(* The parser of the pattern language (pattern/lang/parser/parser.go, with   *)
(* the nodes of pattern/lang/ast/ast.go and the tokens of                    *)
(* pattern/lang/token/token.go).                                             *)
(* A token is its spelling. What a function of the parser does with the      *)
(* tokens is written down as a list of items, one list for each function,    *)
(* and run says what an item does. Two things of the code matter in all of   *)
(* them: expect takes a token only if it is the expected one and never       *)
(* fails, and a loop whose body takes no token runs forever.                 *)
EXTENDS Integers, Sequences, TLC

CONSTANTS
    IntegerTokens,  \* the integers there are, and their values
    StringTokens,   \* the string literals there are, and what they spell
    Registers,      \* the identifiers isRegister knows
    Opcodes         \* the identifiers isOpcode takes for opcodes

VARIABLE tokens     \* the tokens that are parsed

-----------------------------------------------------------------------------
(* Tokens.                                                                   *)
TypeKeywords == {"u32", "str", "bool", "padding", "auto", "signed", "unsigned", "const"}
Keywords == TypeKeywords
    \union {"struct", "union", "using", "enum", "bitfield", "fn", "namespace", "import"}
    \union {"if", "else", "while", "for", "match", "return", "break", "continue", "try", "catch"}
    \union {"true", "false", "null", "parent", "this", "as", "is", "from", "in", "out", "reference"}
    \union {"little_endian", "big_endian", "sizeof", "addressof", "typenameof"}
    \union {"instr", "gen", "bind", "pattern", "arch", "platform"}
Marks == {"(", ")", "{", "}", "[", "]", ",", ".", ";", ":", "@", "=", "+", "-", "*", "/", "%",
          "&", "|", "^", "~", "<", ">", "!", "?", "$", "<<", ">>", "<=", ">=", "==", "!=",
          "&&", "||", "^^", "::", "...", "->"}

EOF == "EOF"
Directive == "Directive"
Own == Marks \union {EOF, Directive}   \* what is a type of its own
Type(token) ==
    CASE token \in Keywords -> "Keyword"
      [] token \in Own -> token
      [] token \in DOMAIN IntegerTokens -> "Integer"
      [] token \in DOMAIN StringTokens -> "String"
      [] OTHER -> "Identifier"
Literal(token) ==
    CASE token = EOF -> ""
      [] token \in DOMAIN StringTokens -> StringTokens[token]
      [] OTHER -> token

(* Position 0 stands for a loop that never ends: from there nothing is read, *)
(* and so it is where everything that called the loop ends up.               *)
Hung == 0
current(p) == IF p \in DOMAIN tokens THEN tokens[p] ELSE EOF
(* A mistake: the end of the tokens is not looked for.                       *)
advancePastEnd(p) == p + 1
advance(p) == IF p \in DOMAIN tokens THEN p + 1 ELSE p
isEOF(p) == current(p) = EOF
peekIs(p, S) == current(p) \in S \/ Type(current(p)) \in S

-----------------------------------------------------------------------------
(* The nodes as composite literals leave them: every field is empty. The     *)
(* fields that hold a node hold Nil, and Nil is also the result of a         *)
(* function that found nothing.                                              *)
Nil == [is |-> "nil"]

AtomNodes == [
    literal |-> [value |-> ""],
    identifier |-> [name |-> ""],
    type |-> [name |-> "", member |-> ""]]

ExpressionNodes == [
    binary |-> [left |-> Nil, operator |-> "", right |-> Nil],
    unary |-> [operator |-> "", right |-> Nil],
    ternary |-> [condition |-> Nil, true |-> Nil, false |-> Nil],
    cast |-> [type |-> Nil, expr |-> Nil],
    call |-> [function |-> Nil, args |-> <<>>],
    index |-> [left |-> Nil, index |-> Nil],
    scope |-> [left |-> Nil, member |-> ""],
    match |-> [value |-> Nil, cases |-> <<>>],
    case |-> [patterns |-> <<>>, body |-> <<>>],
    casePattern |-> [start |-> Nil, end |-> Nil]]

StatementNodes == [
    block |-> [statements |-> <<>>],
    if |-> [condition |-> Nil, body |-> Nil, elseBody |-> Nil],
    while |-> [condition |-> Nil, body |-> Nil],
    for |-> [init |-> Nil, condition |-> Nil, post |-> Nil, body |-> Nil],
    return |-> [value |-> Nil],
    break |-> <<>>,
    continue |-> <<>>,
    expression |-> [expr |-> Nil],
    try |-> [body |-> Nil, catchID |-> "", catchBody |-> Nil]]

VariableNodes == [
    variable |-> [type |-> Nil, pointer |-> FALSE, array |-> FALSE, name |-> "",
                  offset |-> Nil, value |-> Nil]]

DefinitionNodes == [
    struct |-> [name |-> "", base |-> "", members |-> <<>>],
    union |-> [name |-> "", members |-> <<>>],
    enum |-> [name |-> "", base |-> Nil, values |-> <<>>],
    enumValue |-> [name |-> "", value |-> Nil],
    bitfield |-> [name |-> "", fields |-> <<>>],
    field |-> [name |-> "", size |-> Nil],
    using |-> [name |-> "", type |-> Nil],
    namespace |-> [name |-> "", body |-> <<>>],
    import |-> [path |-> <<>>],
    function |-> [name |-> "", params |-> <<>>, body |-> Nil],
    param |-> [name |-> "", type |-> Nil, default |-> Nil]]

DirectiveNodes == [
    endian |-> [order |-> ""],
    arch |-> [arch |-> ""],
    platforms |-> [platforms |-> <<>>],
    platform |-> [name |-> ""]]

PatternNodes == [
    pattern |-> [name |-> "", library |-> "", version |-> "", description |-> "",
                 instrBlocks |-> <<>>, genBlock |-> Nil, bindBlock |-> Nil],
    instr |-> [name |-> "", alternatives |-> <<>>],
    instruction |-> [opcode |-> "", label |-> "", operands |-> <<>>],
    operand |-> [wildcard |-> FALSE, immediate |-> FALSE, literal |-> "", register |-> "",
                 capture |-> "", memory |-> FALSE, offset |-> "", base |-> "", index |-> "",
                 scale |-> ""],
    gen |-> [statements |-> <<>>],
    genText |-> [text |-> ""],
    genExpr |-> [expr |-> Nil],
    genIf |-> [condition |-> Nil, body |-> <<>>, elseBody |-> <<>>],
    genLoop |-> [init |-> <<>>, cond |-> Nil, post |-> <<>>, body |-> <<>>],
    bind |-> [bindings |-> <<>>],
    binding |-> [capture |-> "", alias |-> ""]]

Nodes == AtomNodes @@ ExpressionNodes @@ StatementNodes @@ VariableNodes @@ DefinitionNodes
    @@ DirectiveNodes @@ PatternNodes
Zero(is) == [is |-> is] @@ Nodes[is]

-----------------------------------------------------------------------------
(* Items. S is a set of spellings or types of tokens, f a field of the node  *)
(* that is being made, rule the function that is called.                     *)
Skip == [do |-> "skip"]
Take(f) == [do |-> "take", f |-> f]             \* node.f = advance().Literal
TakeMore(f) == [do |-> "takeMore", f |-> f]     \* appended to node.f
Expect(S) == [do |-> "expect", S |-> S]
ExpectAs(S, f) == [do |-> "expectAs", S |-> S, f |-> f]
Sub(rule, f) == [do |-> "sub", rule |-> rule, f |-> f]
Drop(rule) == [do |-> "drop", rule |-> rule]
Append_(rule, f) == [do |-> "append", rule |-> rule, f |-> f]
Set(f, v) == [do |-> "set", f |-> f, v |-> v]
Copy(f, g) == [do |-> "copy", f |-> f, g |-> g]
Until(S, body) == [do |-> "loop", until |-> S, body |-> body]
Choose(alts) == [do |-> "choose", alts |-> alts]   \* pairs <<S, items>>
Otherwise == {"any"}
When(S, items) == Choose(<< <<S, items>> >>)
Unless(S, items) == Choose(<< <<S, <<>> >>, <<Otherwise, items>> >>)

-----------------------------------------------------------------------------
(* The functions.                                                            *)
parseStruct == <<Skip, ExpectAs({"Identifier"}, "name"),
    When({":"}, <<Skip, ExpectAs({"Identifier"}, "base")>>),
    Expect({"{"}), Until({"}"}, <<Append_("member", "members")>>), Expect({"}"}), Expect({";"})>>

parsePadding == <<Take("name"), Expect({"["}), Drop("expression"), Expect({"]"}), Expect({";"}),
    Set("type", [Zero("type") EXCEPT !.name = "padding"])>>

parseUnion == <<Skip, ExpectAs({"Identifier"}, "name"),
    Expect({"{"}), Until({"}"}, <<Append_("variable", "members")>>), Expect({"}"}), Expect({";"})>>

parseEnum == <<Skip, ExpectAs({"Identifier"}, "name"), Expect({":"}), Sub("type", "base"),
    Expect({"{"}),
    Until({"}"}, <<Choose(<< <<{"Identifier"}, <<Append_("enumValue", "values")>> >>,
                             <<Otherwise, <<Skip>> >> >>)>>),
    Expect({"}"}), Expect({";"})>>

enumValue == <<Take("name"), When({"="}, <<Skip, Sub("expression", "value")>>),
    When({","}, <<Skip>>), When({";"}, <<Skip>>)>>

parseBitfield == <<Skip, ExpectAs({"Identifier"}, "name"),
    Expect({"{"}), Until({"}"}, <<Append_("field", "fields")>>), Expect({"}"}), Expect({";"})>>

field == <<ExpectAs({"Identifier"}, "name"), Expect({":"}), Sub("expression", "size"),
    Expect({";"})>>

parseUsing == <<Skip, ExpectAs({"Identifier"}, "name"), Expect({"="}), Sub("type", "type"),
    Expect({";"})>>

parseFunction == <<Skip, ExpectAs({"Identifier"}, "name"), Expect({"("}),
    Until({")"}, <<Append_("param", "params"), When({","}, <<Skip>>)>>), Expect({")"}),
    Sub("block", "body")>>

parseFunctionParam == <<Sub("type", "type"), When({"Identifier"}, <<Take("name")>>),
    When({"="}, <<Skip, Sub("expression", "default")>>)>>

parseBlock == <<Expect({"{"}), Until({"}"}, <<Append_("statement", "statements")>>), Expect({"}"})>>

parseNamespace == <<Skip, ExpectAs({"Identifier"}, "name"),
    Expect({"{"}), Until({"}"}, <<Append_("topLevel", "body")>>), Expect({"}"})>>

parseImport == <<Skip,
    Choose(<< <<{"String"}, <<TakeMore("path")>> >>,
              <<Otherwise, <<Until({";"}, <<TakeMore("path")>>)>> >> >>),
    Expect({";"})>>

parseEndian == <<Take("order"), Expect({";"})>>

parseArch == <<Skip, ExpectAs({"Identifier"}, "arch"), Expect({";"})>>

parsePlatform == <<Skip, Until({";"}, <<Append_("platform", "platforms")>>), Expect({";"})>>
platform == <<Take("name"), When({","}, <<Skip>>)>>

parsePattern ==
    LET Text(f) == <<{f}, <<Skip, Expect({":"}), ExpectAs({"String"}, f), Expect({";"})>> >>
    IN <<Skip, ExpectAs({"Identifier"}, "name"), Expect({"{"}),
         Until({"}"}, <<Choose(<<
             <<{"instr"}, <<Append_("instr", "instrBlocks")>> >>,
             <<{"gen"}, <<Sub("gen", "genBlock")>> >>,
             <<{"bind"}, <<Sub("bind", "bindBlock")>> >>,
             Text("name"), Text("library"), Text("version"), Text("description"),
             <<{"Identifier"}, <<Skip, Expect({":"}), Skip, Expect({";"})>> >>,
             <<Otherwise, <<Skip>> >> >>)>>),
         Expect({"}"})>>

parseBindBlock == <<Skip, Expect({"{"}), Until({"}"}, <<Append_("binding", "bindings")>>),
    Expect({"}"})>>
binding == <<ExpectAs({"Identifier"}, "capture"), Expect({"Keyword"}),
    ExpectAs({"String"}, "alias"), Expect({";"})>>

(* A token that cannot begin an instruction ends the block.                  *)
parseInstrBlock == <<Skip, Take("name"), Expect({"{"}),
    [do |-> "alternatives", while |-> {"|", "@", "Identifier", "Keyword"}], Expect({"}"})>>

parseInstructionPattern == <<Choose(<<
    <<{"@"}, <<Skip, Take("label"), When({":"}, <<Skip>>)>> >>,
    <<Otherwise, <<Take("opcode"),
             Until({"}", "|", "@"} \union Opcodes,
                   <<Choose(<< <<{";", ","}, <<Skip>> >>,
                               <<Otherwise, <<Append_("operand", "operands")>> >> >>)>>)>> >> >>)>>

parseOperandPattern ==
    LET afterName == When({"("}, <<Set("memory", TRUE), Skip, Choose(<<
            <<{"Identifier"}, <<Take("base"), When({")"}, <<Skip, When({"("},
                <<Skip, Take("index"), When({"*"}, <<Skip, Take("scale")>>),
                    Expect({")"})>>)>>)>> >>,
            <<{"Integer"}, <<Take("offset"), Expect({")"})>> >>,
            <<Otherwise, <<Expect({")"})>> >> >>)>>)
    IN <<Choose(<<
        <<{"*"}, <<Skip, Set("wildcard", TRUE)>> >>,
        <<{"$"}, <<Skip, Set("immediate", TRUE),
                   Choose(<< <<{"Integer"}, <<Take("literal")>> >>,
                       <<Otherwise, <<Take("capture")>> >> >>)>> >>,
        <<{"Integer"}, <<Take("literal")>> >>,
        <<Registers, <<Take("register"), When({"("}, <<Copy("register", "base")>>), afterName>> >>,
        <<{"Identifier", "Keyword"},
            <<Take("capture"), When({"("}, <<Copy("capture", "offset")>>), afterName>> >>,
        <<{"("}, <<Set("memory", TRUE), Skip,
                   Choose(<< <<{"Identifier"}, <<Take("base")>> >>,
                       <<{"Integer"}, <<Take("offset")>> >> >>),
                   Expect({")"}),
                   When({"("}, <<Skip, When({"Identifier"}, <<Take("index")>>),
                                 When({"*"}, <<Skip, When({"Identifier", "Integer"},
                                     <<Take("scale")>>)>>),
                                 Expect({")"})>>)>> >> >>)>>

parseType == <<When({"unsigned", "signed"}, <<Skip>>), When({"const"}, <<Skip>>),
    When({"Keyword", "Identifier"}, <<Take("name"), When({"::"}, <<Skip, Take("member")>>)>>)>>

(* What follows the type of a variable. The size of an array is not kept.    *)
variableOf == <<When({"*"}, <<Skip, Set("pointer", TRUE)>>),
    When({"Identifier"}, <<Take("name")>>),
    Choose(<< <<{"["}, <<Skip, Set("array", TRUE),
                         Choose(<< <<{"]"}, <<Skip>> >>,
                                   <<Otherwise, <<Drop("expression"), Expect({"]"})>> >> >>),
                         When({"@"}, <<Skip, Sub("expression", "offset")>>)>> >>,
              <<Otherwise, <<When({"@"}, <<Skip, Sub("expression", "offset")>>),
                       When({"="}, <<Skip, Sub("expression", "value")>>)>> >> >>),
    Expect({";"})>>

-----------------------------------------------------------------------------
(* Statements.                                                               *)
parseIf == <<Skip, Expect({"("}), Sub("expression", "condition"), Expect({")"}),
    Sub("statement", "body"), When({"else"}, <<Skip, Sub("statement", "elseBody")>>)>>

parseWhile == <<Skip, Expect({"("}), Sub("expression", "condition"), Expect({")"}),
    Sub("statement", "body")>>

parseFor == <<Skip, Expect({"("}),
    Unless({";"}, <<Sub("forInit", "init")>>), Expect({";"}),
    Unless({";"}, <<Sub("expression", "condition")>>), Expect({";"}),
    Unless({")"}, <<Sub("forPost", "post")>>), Expect({")"}),
    Sub("statement", "body")>>

parseReturn == <<Skip, Unless({";"}, <<Sub("expression", "value")>>), Expect({";"})>>

parseBreak == <<Skip, Expect({";"})>>

parseMatch == <<Skip, Expect({"("}), Sub("expression", "value"), Expect({")"}),
    Expect({"{"}), Until({"}"}, <<Append_("case", "cases")>>), Expect({"}"})>>

parseMatchCase == <<Expect({"("}),
    Until({")"}, <<Append_("casePattern", "patterns"), When({"|"}, <<Skip>>)>>),
    Expect({")"}), Expect({":"}),
    Choose(<< <<{"{"}, <<Skip, Until({"}"}, <<Append_("statement", "body")>>), Expect({"}"})>> >>,
              <<Otherwise, <<Append_("statement", "body")>> >> >>)>>

matchPattern == <<Sub("expression", "start"), When({"..."}, <<Skip, Sub("expression", "end")>>)>>

parseTryCatch == <<Skip, Sub("statement", "body"),
    When({"catch"}, <<Skip, Expect({"("}), ExpectAs({"Identifier"}, "catchID"), Expect({")"}),
                      Sub("statement", "catchBody")>>)>>

(* Gen blocks. Where they begin with @, two tokens have been taken before    *)
(* the function takes one more, which is the parenthesis: of a loop, expect  *)
(* then finds it missing; of a condition, its end is what is left over.      *)
parseGenExpr == <<Skip, Choose(<<
    <<{"{"}, <<Skip, Sub("expression", "expr"), Expect({"}"})>> >>,
    <<{"Identifier", "Keyword"}, <<Sub("name", "expr")>> >> >>)>>

genBody(f) == <<Expect({"{"}), Until({"}"}, <<Append_("genStatement", f)>>), Expect({"}"})>>

parseGenConditional == <<Skip, Skip, Skip, Sub("expression", "condition")>> \o genBody("body")
    \o <<When({"else"}, <<Skip>> \o genBody("elseBody"))>>

parseGenLoop == <<Skip, Skip, Skip, Expect({"("}),
    Until({";"}, <<TakeMore("init")>>), Expect({";"}), Sub("expression", "cond"), Expect({";"}),
    Until({")"}, <<TakeMore("post")>>), Expect({")"})>> \o genBody("body")

Items == [
    struct |-> parseStruct, padding |-> parsePadding, union |-> parseUnion, enum |-> parseEnum,
    enumValue |-> enumValue, bitfield |-> parseBitfield, field |-> field, using |-> parseUsing,
    function |-> parseFunction, param |-> parseFunctionParam, namespace |-> parseNamespace,
    import |-> parseImport, endian |-> parseEndian, arch |-> parseArch,
    platforms |-> parsePlatform, platform |-> platform, pattern |-> parsePattern,
    bind |-> parseBindBlock, binding |-> binding, instr |-> parseInstrBlock,
    instruction |-> parseInstructionPattern, operand |-> parseOperandPattern, type |-> parseType,
    block |-> parseBlock, if |-> parseIf, while |-> parseWhile, for |-> parseFor,
    return |-> parseReturn, break |-> parseBreak, continue |-> parseBreak, match |-> parseMatch,
    case |-> parseMatchCase, casePattern |-> matchPattern, try |-> parseTryCatch,
    genExpr |-> parseGenExpr, genIf |-> parseGenConditional, genLoop |-> parseGenLoop]

-----------------------------------------------------------------------------
(* What the parser does: a result is the position after what was read, and   *)
(* the node that was made of it.                                             *)
At(p, n) == [pos |-> p, node |-> n]
Then(r, Next(_)) == CHOOSE x \in {Next(y) : y \in {r}} : TRUE   \* Next(r)

RECURSIVE parse(_, _)
RECURSIVE run(_, _, _)
RECURSIVE loop(_, _, _)
RECURSIVE alternatives(_, _)

step(item, p, n) ==
    CASE item.do = "skip" -> At(advance(p), n)
      [] item.do = "take" -> At(advance(p), [n EXCEPT ![item.f] = Literal(current(p))])
      [] item.do = "takeMore" ->
           At(advance(p), [n EXCEPT ![item.f] = Append(@, Literal(current(p)))])
      [] item.do = "expect" -> At(IF peekIs(p, item.S) THEN advance(p) ELSE p, n)
      [] item.do = "expectAs" -> At(IF peekIs(p, item.S) THEN advance(p) ELSE p,
                                    [n EXCEPT ![item.f] = Literal(current(p))])
      [] item.do = "sub" ->
           Then(parse(item.rule, p), LAMBDA r : At(r.pos, [n EXCEPT ![item.f] = r.node]))
      [] item.do = "drop" -> At(parse(item.rule, p).pos, n)
      [] item.do = "append" ->
           Then(parse(item.rule, p), LAMBDA r :
                At(r.pos, IF r.node = Nil THEN n ELSE [n EXCEPT ![item.f] = Append(@, r.node)]))
      [] item.do = "set" -> At(p, [n EXCEPT ![item.f] = item.v])
      [] item.do = "copy" -> At(p, [n EXCEPT ![item.g] = n[item.f]])
      [] item.do = "loop" -> loop(item, p, n)
      [] item.do = "alternatives" -> alternatives(p, n)
      [] item.do = "choose" ->
           LET fit == {i \in DOMAIN item.alts :
                           item.alts[i][1] = Otherwise \/ peekIs(p, item.alts[i][1])}
           IN IF fit = {} THEN At(p, n)
              ELSE Then(item.alts[CHOOSE i \in fit : \A j \in fit : i <= j][2],
                        LAMBDA items : run(items, p, n))

run(items, p, n) ==
    IF items = <<>> THEN At(p, n)
    ELSE Then(Head(items), LAMBDA item :
         Then(step(item, p, n), LAMBDA r : run(Tail(items), r.pos, r.node)))

(* A mistake: the loop ends at the token it looks for and not at the end.    *)
loopToToken(item, p, n) ==
    IF peekIs(p, item.until) THEN At(p, n)
    ELSE Then(run(item.body, p, n), LAMBDA r :
              IF r.pos = p THEN At(Hung, n) ELSE loop(item, r.pos, r.node))

loop(item, p, n) ==
    IF isEOF(p) \/ peekIs(p, item.until) THEN At(p, n)
    ELSE Then(run(item.body, p, n), LAMBDA r :
              IF r.pos = p THEN At(Hung, n) ELSE loop(item, r.pos, r.node))

(* The loop of parseInstrBlock: bars between alternatives, the first of      *)
(* which is there only once an instruction or a bar is.                      *)
alternatives(p, n) ==
    CASE peekIs(p, {"|"}) ->
           Then([n EXCEPT !.alternatives = Append(@, <<>>)], LAMBDA m : alternatives(p + 1, m))
      [] peekIs(p, {"@", "Identifier", "Keyword"}) ->
           Then(parse("instruction", p), LAMBDA line :
           Then([n EXCEPT !.alternatives =
                    IF @ = <<>> THEN << <<line.node>> >>
                    ELSE [@ EXCEPT ![Len(n.alternatives)] = Append(@, line.node)]],
                LAMBDA m : alternatives(line.pos, m)))
      [] OTHER -> At(p, n)

-----------------------------------------------------------------------------
(* Expressions. The operators from the loosest to the tightest; &, | and ^   *)
(* are in none of the levels.                                                *)
(* A mistake: the two loosest levels are in the wrong order.                 *)
LevelsSwapped == << {"&&"}, {"||"}, {"^^"}, {"==", "!="}, {"<", ">", "<=", ">="}, {"<<", ">>"},
                    {"+", "-"}, {"*", "/", "%"} >>
Levels == << {"||"}, {"&&"}, {"^^"}, {"==", "!="}, {"<", ">", "<=", ">="}, {"<<", ">>"},
             {"+", "-"}, {"*", "/", "%"} >>

RECURSIVE parseBinary(_, _)
RECURSIVE climb(_, _)
RECURSIVE parseUnary(_)
RECURSIVE parsePostfix(_)
RECURSIVE parseArgs(_, _)
RECURSIVE parsePrimary(_)

(* parseOr, parseAnd, ..., parseMultiplicative: one function for each level. *)
parseBinary(level, p) ==
    IF level > Len(Levels) THEN parseUnary(p)
    ELSE Then(parseBinary(level + 1, p), LAMBDA left : climb(level, left))
climb(level, left) ==
    IF ~peekIs(left.pos, Levels[level]) THEN left
    ELSE Then(parseBinary(level + 1, left.pos + 1), LAMBDA right :
         Then(At(right.pos, [is |-> "binary", left |-> left.node,
                             operator |-> current(left.pos), right |-> right.node]),
              LAMBDA both : climb(level, both)))

parseTernary(p) ==
    Then(parseBinary(1, p), LAMBDA left :
         IF ~peekIs(left.pos, {"?"}) THEN left
         ELSE run(<<Skip, Sub("expression", "true"), Expect({":"}), Sub("expression", "false")>>,
                  left.pos, [Zero("ternary") EXCEPT !.condition = left.node]))

parseUnary(p) ==
    IF peekIs(p, {"-", "!", "~"})
    THEN Then(parseUnary(p + 1), LAMBDA right :
              At(right.pos, [is |-> "unary", operator |-> current(p), right |-> right.node]))
    ELSE Then(parsePrimary(p), LAMBDA left : parsePostfix(left))

parseArgs(p, args) ==
    IF isEOF(p) \/ peekIs(p, {")"}) THEN At(p, args)
    ELSE Then(run(<<Sub("expression", "value"), When({","}, <<Skip>>)>>, p, [value |-> Nil]),
        LAMBDA arg :
              IF arg.pos = p THEN At(Hung, args)
              ELSE parseArgs(arg.pos, Append(args, arg.node.value)))

(* The member after a dot becomes the index.                                 *)
parsePostfix(left) ==
    LET p == left.pos
        ExpectPast(q, t) == IF peekIs(q, {t}) THEN q + 1 ELSE q
        member == Literal(current(p + 1))
        More(q, n) == Then(At(q, n), LAMBDA longer : parsePostfix(longer))
    IN CASE peekIs(p, {"("}) ->
              Then(parseArgs(p + 1, <<>>), LAMBDA args :
                   More(ExpectPast(args.pos, ")"), [is |-> "call", function |-> left.node,
                       args |-> args.node]))
         [] peekIs(p, {"["}) ->
              Then(parse("expression", p + 1), LAMBDA index :
                   More(ExpectPast(index.pos, "]"), [is |-> "index", left |-> left.node,
                       index |-> index.node]))
         [] peekIs(p, {"."}) ->
              More(ExpectPast(p + 1, "Identifier"),
                   [is |-> "index", left |-> left.node, index |-> [is |-> "identifier",
                       name |-> member]])
         [] peekIs(p, {"::"}) ->
              More(ExpectPast(p + 1, "Identifier"), [is |-> "scope", left |-> left.node,
                  member |-> member])
         [] peekIs(p, {"as"}) ->
              Then(parse("type", p + 1), LAMBDA typ :
                   More(typ.pos, [is |-> "cast", type |-> typ.node, expr |-> left.node]))
         [] OTHER -> left

(* The identifiers come before sizeof, addressof, typenameof and match,      *)
(* which are keywords and so are never more than names here. A parenthesis   *)
(* is first tried as a cast, and then read again.                            *)
parsePrimary(p) ==
    CASE peekIs(p, {"Integer", "String", "true", "false", "null"}) ->
           At(p + 1, [is |-> "literal", value |-> current(p)])
      [] peekIs(p, {"Identifier", "Keyword"}) ->
           At(p + 1, [is |-> "identifier", name |-> current(p)])
      [] peekIs(p, {"("}) ->
           Then(parse("type", p + 1), LAMBDA typ :
                IF /\ typ.node # Nil
                   /\ peekIs(typ.pos, {")"})
                   /\ peekIs(typ.pos + 1, {"(", "Integer", "Identifier"})
                THEN Then(parsePrimary(typ.pos + 1), LAMBDA expr :
                          At(expr.pos, [is |-> "cast", type |-> typ.node, expr |-> expr.node]))
                ELSE Then(parse("expression", p + 1), LAMBDA inner :
                          At(IF peekIs(inner.pos, {")"}) THEN inner.pos + 1 ELSE inner.pos,
                              inner.node)))
      [] peekIs(p, {"$"}) ->
           Then(parsePrimary(p + 1), LAMBDA right :
                At(right.pos, [is |-> "unary", operator |-> "$", right |-> right.node]))
      [] OTHER -> At(p, Nil)

-----------------------------------------------------------------------------
(* The functions that call others, by what they find.                        *)
parseVariableDeclaration(p) ==
    IF ~peekIs(p, {"Identifier"} \union TypeKeywords) THEN At(p, Nil)
    ELSE Then(parse("type", p), LAMBDA typ :
              IF typ.node = Nil THEN At(typ.pos, Nil)
              ELSE run(variableOf, typ.pos, [Zero("variable") EXCEPT !.type = typ.node]))

TopLevel == ("struct" :> "struct") @@ ("union" :> "union") @@ ("enum" :> "enum")
    @@ ("bitfield" :> "bitfield") @@ ("using" :> "using") @@ ("fn" :> "function")
    @@ ("namespace" :> "namespace") @@ ("import" :> "import") @@ ("little_endian" :> "endian")
    @@ ("big_endian" :> "endian") @@ ("pattern" :> "pattern") @@ ("arch" :> "arch")
    @@ ("platform" :> "platforms")
parseTopLevel(p) ==
    IF current(p) \in DOMAIN TopLevel THEN parse(TopLevel[current(p)], p)
    ELSE parseVariableDeclaration(p)

Statements == ("{" :> "block") @@ ("if" :> "if") @@ ("while" :> "while") @@ ("for" :> "for")
    @@ ("return" :> "return") @@ ("break" :> "break") @@ ("continue" :> "continue")
    @@ ("match" :> "match") @@ ("try" :> "try") @@ ("fn" :> "function")
parseStatement(p) ==
    CASE current(p) \in DOMAIN Statements -> parse(Statements[current(p)], p)
      [] peekIs(p, {"struct", "union", "enum", "bitfield"}) -> At(p, Nil)
      [] peekIs(p, {";"}) -> At(p + 1, Nil)
      [] peekIs(p, TypeKeywords) -> parseVariableDeclaration(p)
      [] OTHER ->
           Then(parse("expression", p), LAMBDA expr :
                IF expr.node = Nil THEN At(advance(expr.pos), Nil)
                ELSE At(IF peekIs(expr.pos, {";"}) THEN expr.pos + 1 ELSE expr.pos,
                        [is |-> "expression", expr |-> expr.node]))

(* An expression in the place of a statement of a for.                       *)
asStatement(r) == At(r.pos, IF r.node = Nil THEN Nil ELSE [is |-> "expression", expr |-> r.node])
forInit(p) ==
    Then(parseVariableDeclaration(p), LAMBDA decl :
         IF decl.node # Nil THEN decl ELSE Then(parse("expression", decl.pos), asStatement))

(* The text of a gen block up to the next brace, dollar or word: what the    *)
(* tokens spell, put together without spaces, strings without their quotes.  *)
RECURSIVE genText(_, _)
(* A mistake: a dollar within the text does not end it.                      *)
genTextPastDollar(p, text) ==
    CASE isEOF(p) \/ peekIs(p, {"{", "}"}) -> At(p, text)
      [] peekIs(p, {"@"}) -> IF peekIs(p + 1, {"if", "for"}) THEN At(p + 1, text)
                             ELSE genText(p + 1, text \o "@")
      [] peekIs(p, {"Identifier", "Keyword"}) /\ text # "" -> At(p, text)
      [] OTHER -> genText(p + 1, text \o Literal(current(p)))
genText(p, text) ==
    CASE isEOF(p) \/ peekIs(p, {"{", "}", "$"}) -> At(p, text)
      [] peekIs(p, {"@"}) -> IF peekIs(p + 1, {"if", "for"}) THEN At(p + 1, text)
                             ELSE genText(p + 1, text \o "@")
      [] peekIs(p, {"Identifier", "Keyword"}) /\ text # "" -> At(p, text)
      [] OTHER -> genText(p + 1, text \o Literal(current(p)))
parseGenText(p) ==
    Then(genText(p, ""), LAMBDA r : At(r.pos, [is |-> "genText", text |-> r.node]))

parseGenStatement(p) ==
    CASE peekIs(p, {"$"}) -> parse("genExpr", p)
      [] peekIs(p, {"@"}) /\ peekIs(p + 1, {"if"}) -> parse("genIf", p)
      [] peekIs(p, {"@"}) /\ peekIs(p + 1, {"for"}) -> parse("genLoop", p)
      [] OTHER -> parseGenText(IF peekIs(p, {"@"}) THEN p + 1 ELSE p)

(* depth counts the braces that are open.                                    *)
RECURSIVE genStatements(_, _, _)
genStatements(p, depth, stmts) ==
    LET Text(text) == Append(stmts, [is |-> "genText", text |-> text])
    IN CASE isEOF(p) -> At(p, stmts)
         [] peekIs(p, {"{"}) -> genStatements(p + 1, depth + 1, Text("{"))
         [] peekIs(p, {"}"}) ->
              IF depth = 1 THEN At(p + 1, stmts) ELSE genStatements(p + 1, depth - 1, Text("}"))
         [] OTHER -> Then(parseGenStatement(p), LAMBDA r :
                          IF r.pos = p THEN At(Hung, stmts)
                          ELSE genStatements(r.pos, depth, Append(stmts, r.node)))
parseGenBlock(p) ==
    Then(genStatements(IF peekIs(p + 1, {"{"}) THEN p + 2 ELSE p + 1, 1, <<>>), LAMBDA r :
         At(r.pos, [is |-> "gen", statements |-> r.node]))

(* An operand nothing was read of and a type without a name are Nil; only a  *)
(* name without :: can be the base of an enum.                               *)
made(rule, r) ==
    CASE rule \in {"operand", "type"} /\ r.node = Zero(rule) -> At(r.pos, Nil)
      [] rule = "enum" /\ r.node.base # Nil ->
           IF r.node.base.member = "" THEN r ELSE At(r.pos, [r.node EXCEPT !.base = Nil])
      [] OTHER -> r

parse(rule, p) ==
    CASE rule = "expression" -> parseTernary(p)
      [] rule = "statement" -> parseStatement(p)
      [] rule = "topLevel" -> parseTopLevel(p)
      [] rule = "variable" -> parseVariableDeclaration(p)
      [] rule = "member" -> IF peekIs(p, {"padding"}) THEN parse("padding", p)
                            ELSE parseVariableDeclaration(p)
      [] rule = "forInit" -> forInit(p)
      [] rule = "forPost" -> Then(parse("expression", p), asStatement)
      [] rule = "name" -> At(p + 1, [is |-> "identifier", name |-> current(p)])
      [] rule = "gen" -> parseGenBlock(p)
      [] rule = "genStatement" -> parseGenStatement(p)
      [] rule = "padding" -> run(parsePadding, p, Zero("variable"))
      [] OTHER -> Then(run(Items[rule], p, Zero(rule)), LAMBDA r : made(rule, r))
=============================================================================
