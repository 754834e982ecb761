-------------------------- MODULE PatternEvaluator --------------------------
(* The values of the pattern language, what an expression evaluates to, and  *)
(* what a pattern definition is compiled to                                  *)
(* (pattern/lang/evaluator/evaluator.go). Nothing in it can fail.            *)
EXTENDS Parser, SequencesExt

CONSTANT GoKeywords    \* the names in a program that are keywords of Go

VARIABLE scopes        \* scopes: the innermost is the last

-----------------------------------------------------------------------------
(* Values; Bool and Int are there in a value of any type.                    *)
nullValue == [type |-> "null", int |-> 0, str |-> "", bool |-> FALSE]
intValue(v) == [nullValue EXCEPT !.type = "int", !.int = v]
stringValue(v) == [nullValue EXCEPT !.type = "string", !.str = v]
boolValue(v) == [nullValue EXCEPT !.type = "bool", !.bool = v]

String(v) ==
    CASE v.type = "int" -> ToString(v.int)
      [] v.type = "string" -> v.str
      [] v.type = "bool" -> IF v.bool THEN "true" ELSE "false"
      [] OTHER -> "null"

pushScope(stack) == Append(stack, <<>>)
(* A mistake: off by one, so that the outermost function leaves its scope.   *)
popScopeLate(stack) == IF Len(stack) > 2 THEN Front(stack) ELSE stack
popScope(stack) == IF Len(stack) > 1 THEN Front(stack) ELSE stack
setVar(stack, name, v) == [stack EXCEPT ![Len(stack)] = (name :> v) @@ @]

getVar(name) ==
    LET in == {i \in DOMAIN scopes : name \in DOMAIN scopes[i]}
    IN IF in = {} THEN stringValue(name) ELSE scopes[CHOOSE i \in in : \A j \in in : j <= i][name]

(* Division by zero is zero, and Go rounds to zero.                          *)
Quotient(a, b) ==
    LET size == (IF a < 0 THEN -a ELSE a) \div (IF b < 0 THEN -b ELSE b)
    IN IF b = 0 THEN 0 ELSE IF (a < 0) # (b < 0) THEN -size ELSE size

evalBinary(operator, left, right) ==
    CASE operator = "+" /\ "string" \in {left.type, right.type} ->
           stringValue(String(left) \o String(right))
      [] operator = "+" -> intValue(left.int + right.int)
      [] operator = "-" -> intValue(left.int - right.int)
      [] operator = "*" -> intValue(left.int * right.int)
      [] operator = "/" -> intValue(Quotient(left.int, right.int))
      [] operator = "%" -> intValue(IF right.int = 0 THEN 0
                                    ELSE left.int - right.int * Quotient(left.int, right.int))
      [] operator = "==" -> boolValue(String(left) = String(right))
      [] operator = "!=" -> boolValue(String(left) # String(right))
      [] operator = "<" -> boolValue(left.int < right.int)
      [] operator = ">" -> boolValue(left.int > right.int)
      [] operator = "<=" -> boolValue(left.int <= right.int)
      [] operator = ">=" -> boolValue(left.int >= right.int)
      [] operator = "&&" -> boolValue(left.bool /\ right.bool)
      [] operator = "||" -> boolValue(left.bool \/ right.bool)
      [] OTHER -> left

evalLiteral(token) ==
    CASE Type(token) = "Integer" -> intValue(IntegerTokens[token])
      [] Type(token) = "String" -> stringValue(StringTokens[token])
      [] token \in {"true", "false"} -> boolValue(token = "true")
      [] OTHER -> nullValue

(* Conditional expressions, indexes and calls of anything but print (which   *)
(* has no value either) are null.                                            *)
RECURSIVE evalExpr(_)
evalExpr(n) ==
    CASE n.is = "literal" -> evalLiteral(n.value)
      [] n.is = "identifier" -> getVar(n.name)
      [] n.is = "binary" -> evalBinary(n.operator, evalExpr(n.left), evalExpr(n.right))
      [] n.is = "unary" ->
           LET right == evalExpr(n.right)
           IN CASE n.operator = "-" -> [right EXCEPT !.int = -@]
                [] n.operator = "!" -> boolValue(~right.bool)
                [] OTHER -> right
      [] n.is = "scope" -> stringValue(n.member)
      [] n.is = "cast" -> evalExpr(n.expr)
      [] OTHER -> nullValue

-----------------------------------------------------------------------------
(* Gen blocks, without the spaces between the statements.                    *)
MaxIterations == 1000
Boundary(n) == IF n < 0 THEN 0 ELSE IF n > MaxIterations THEN MaxIterations ELSE n

Alias(name, bindings) ==
    LET hits == SelectSeq(bindings, LAMBDA b : b.capture = name)
    IN IF hits = <<>> THEN name ELSE Head(hits).alias

(* strings.ReplaceAll: from the left, and not again in what was put in.      *)
ReplaceAllIn(text, old, new) ==
    LET from[i \in 1..(Len(text) + 1)] ==
            IF i > Len(text) THEN ""
            ELSE IF i + Len(old) - 1 <= Len(text) /\ SubSeq(text, i, i + Len(old) - 1) = old
            THEN new \o from[i + Len(old)]
            ELSE SubSeq(text, i, i) \o from[i + 1]
    IN from[1]

(* One binding after the other, wherever its name stands behind a dollar: in *)
(* the middle of a string, and as the beginning of a longer name.            *)
expandVariables(text, bindings) ==
    LET after[i \in 0..Len(bindings)] ==
            IF i = 0 THEN text
            ELSE ReplaceAllIn(after[i - 1], "$" \o bindings[i].capture, bindings[i].alias)
    IN after[Len(bindings)]

evalGenExpr(n, bindings) ==
    CASE n.is = "identifier" -> Alias(n.name, bindings)
      [] n.is = "unary" /\ n.operator = "$" /\ n.right.is = "identifier" ->
           Alias(n.right.name, bindings)
      [] n.is = "unary" /\ n.operator = "$" -> String(evalExpr(n.right))
      [] OTHER -> String(evalExpr(n))

RECURSIVE evalGenStmts(_, _)
evalGenStmt(s, bindings) ==
    CASE s.is = "genText" -> <<expandVariables(s.text, bindings)>>
      [] s.is = "genExpr" -> <<evalGenExpr(s.expr, bindings)>>
      [] s.is = "genIf" ->
           evalGenStmts(IF evalExpr(s.condition).bool THEN s.body ELSE s.elseBody, bindings)
      [] s.is = "genLoop" ->
           FlattenSeq([i \in 1..Boundary(evalExpr(s.cond).int) |-> evalGenStmts(s.body, bindings)])
evalGenStmts(stmts, bindings) ==
    FlattenSeq([i \in DOMAIN stmts |-> evalGenStmt(stmts[i], bindings)])

(* A mistake: the keywords of Go are not looked up.                          *)
sanitizeNothing(s) == s
sanitizeGoIdent(s) == IF s \in GoKeywords THEN "_" \o s ELSE s

(* A mistake: base and index change places.                                  *)
OperandTurned(op) ==
    [wild |-> op.wildcard, imm |-> op.immediate, lit |-> op.literal, reg |-> op.register,
     cap |-> op.capture, base |-> op.index, index |-> op.base, scale |-> op.scale,
     off |-> op.offset]
(* What an operand was read as, one field for each; of a memory reference    *)
(* its parts are kept, and not that it is one.                               *)
CompiledOperand(op) ==
    [wild |-> op.wildcard, imm |-> op.immediate, lit |-> op.literal, reg |-> op.register,
     cap |-> op.capture,
     base |-> IF op.memory THEN op.base ELSE "", index |-> IF op.memory THEN op.index ELSE "",
     scale |-> IF op.memory THEN op.scale ELSE "", off |-> IF op.memory THEN op.offset ELSE ""]
CompiledInstruction(ip) ==
    [opcode |-> ip.opcode, isLabel |-> ip.label # "", labelName |-> ip.label,
     operands |-> [i \in DOMAIN ip.operands |-> CompiledOperand(ip.operands[i])]]
CompiledAlternatives(alts) ==
    [i \in DOMAIN alts |->
        [j \in DOMAIN alts[i] |-> CompiledInstruction(alts[i][j])]]

(* Each block replaces what the one before it has left. What a pattern would *)
(* say of its architecture and platforms, no pattern definition sets.        *)
evalPattern(pat) ==
    LET bindings == IF pat.bindBlock = Nil THEN <<>>
                    ELSE [i \in DOMAIN pat.bindBlock.bindings |->
                             [pat.bindBlock.bindings[i] EXCEPT !.alias = sanitizeGoIdent(@)]]
    IN [name |-> pat.name, library |-> pat.library, version |-> pat.version,
        alternatives |-> IF pat.instrBlocks = <<>> THEN <<>>
            ELSE CompiledAlternatives(Last(pat.instrBlocks).alternatives),
        bindings |-> bindings,
        genTemplate |-> IF pat.genBlock = Nil THEN <<>>
                        ELSE evalGenStmts(pat.genBlock.statements, bindings)]
=============================================================================
