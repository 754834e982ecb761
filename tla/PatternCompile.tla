--------------------------- MODULE PatternCompile ---------------------------
(* From the tokens of a pattern file to compiled patterns: the parser reads  *)
(* one definition after the other, and when it has read all of them the      *)
(* evaluator goes through the nodes (Parse of                                *)
(* pattern/lang/parser/parser.go, Evaluate and evalNode of                   *)
(* pattern/lang/evaluator/evaluator.go, which database.go calls one after    *)
(* the other).                                                               *)
EXTENDS PatternEvaluator

CONSTANT Sources  \* files: [tokens, written, whole], written the definitions that were
                  \* written, whole how many of them are all there in the tokens

VARIABLES
    source,       \* the file
    phase,        \* "parsing", "evaluating", "failed", "done"
    pos,          \* pos of the Parser
    nodes,        \* Nodes of the Program
    work,         \* what is left to do of the nodes that are evaluated
    patterns      \* patterns

vars == <<tokens, scopes, source, phase, pos, nodes, work, patterns>>

Init ==
    /\ source \in Sources
    /\ tokens = source.tokens
    /\ phase = "parsing" /\ pos = 1 /\ nodes = <<>>
    /\ scopes = << <<>> >> /\ work = <<>> /\ patterns = <<>>

-----------------------------------------------------------------------------
(* Parse.                                                                    *)
Parsing == phase = "parsing" /\ UNCHANGED <<tokens, source, scopes, patterns>>

SkipDirective ==
    /\ Parsing /\ peekIs(pos, {Directive})
    /\ pos' = pos + 1
    /\ UNCHANGED <<phase, nodes, work>>

ParseTopLevel ==
    /\ Parsing /\ ~isEOF(pos) /\ ~peekIs(pos, {Directive})
    /\ \E r \in {parseTopLevel(pos)} :
          /\ r.pos # Hung
          /\ pos' = r.pos
          /\ IF r.node # Nil THEN nodes' = Append(nodes, r.node) /\ UNCHANGED phase
             ELSE phase' = (IF isEOF(r.pos) THEN phase ELSE "failed") /\ UNCHANGED nodes
    /\ UNCHANGED work

EndParse ==
    /\ Parsing /\ isEOF(pos)
    /\ phase' = "evaluating" /\ work' = nodes
    /\ UNCHANGED <<pos, nodes>>

-----------------------------------------------------------------------------
(* evalNode: the node is replaced by what is left to do of it.               *)
PopScope == [is |-> "popScope"]
Evaluate(is) ==
    /\ phase = "evaluating" /\ work # <<>> /\ Head(work).is \in is
    /\ UNCHANGED <<tokens, source, phase, pos, nodes>>
node == Head(work)
After == Tail(work)

EvalVariable ==
    /\ Evaluate({"variable"})
    /\ scopes' = setVar(scopes, node.name, IF node.array THEN nullValue ELSE evalExpr(node.value))
    /\ work' = After /\ UNCHANGED patterns

(* A function is not called but run where it is defined.                     *)
EvalFunction ==
    /\ Evaluate({"function"})
    /\ scopes' = FoldSeq(LAMBDA param, stack : setVar(stack, param.name, nullValue),
                         pushScope(scopes), node.params)
    /\ work' = node.body.statements \o <<PopScope>> \o After
    /\ UNCHANGED patterns

EvalCompound ==
    /\ Evaluate({"block"})
    /\ scopes' = pushScope(scopes)
    /\ work' = node.statements \o <<PopScope>> \o After
    /\ UNCHANGED patterns

LeaveScope ==
    /\ Evaluate({"popScope"})
    /\ scopes' = popScope(scopes)
    /\ work' = After /\ UNCHANGED patterns

EvalConditional ==
    /\ Evaluate({"if"})
    /\ LET branch == IF evalExpr(node.condition).bool THEN node.body ELSE node.elseBody
       IN work' = (IF branch = Nil THEN <<>> ELSE <<branch>>) \o After
    /\ UNCHANGED <<scopes, patterns>>

EvalWhile ==
    /\ Evaluate({"while"})
    /\ work' = IF ~evalExpr(node.condition).bool THEN After
               ELSE (IF node.body = Nil THEN <<>> ELSE <<node.body>>) \o work
    /\ UNCHANGED <<scopes, patterns>>

EvalPattern ==
    /\ Evaluate({"pattern"})
    /\ patterns' = Append(patterns, evalPattern(node))
    /\ work' = After /\ UNCHANGED scopes

(* An expression statement is evaluated and changes nothing; a return does   *)
(* not leave the function; for, match and try are not evaluated.             *)
EvalOther ==
    /\ Evaluate({"expression", "return", "break", "continue", "for", "match", "try", "arch",
                 "platforms", "endian", "import", "using", "namespace", "struct", "union", "enum",
                 "bitfield"})
    /\ work' = After /\ UNCHANGED <<scopes, patterns>>

EndEvaluate ==
    /\ phase = "evaluating" /\ work = <<>>
    /\ phase' = "done"
    /\ UNCHANGED <<tokens, source, scopes, pos, nodes, work, patterns>>

Next ==
    \/ SkipDirective \/ ParseTopLevel \/ EndParse
    \/ EvalVariable \/ EvalFunction \/ EvalCompound \/ LeaveScope \/ EvalConditional \/ EvalWhile
    \/ EvalPattern \/ EvalOther \/ EndEvaluate

(* The caller runs the parser and the evaluator to their end.                *)
Spec == Init /\ [][Next]_vars /\ WF_vars(Next)

-----------------------------------------------------------------------------
(* In a definition as it is written, the gen block has its tokens.           *)
WithoutGen(n) == IF n.is = "pattern" THEN [n EXCEPT !.genBlock = Nil] ELSE n
Written(is) == SelectSeq(SubSeq(source.written, 1, source.whole), LAMBDA n : n.is \in is)

TypeOK ==
    /\ tokens = source.tokens
    /\ phase \in {"parsing", "evaluating", "failed", "done"}
    /\ pos \in 1..(Len(tokens) + 1)
    /\ \A i \in DOMAIN nodes : DOMAIN nodes[i] = DOMAIN Zero(nodes[i].is)

(* What was written is what is read: every definition that is all there in   *)
(* the file becomes the node that it is the text of, with every operator     *)
(* under the right one and every else at the right if, whatever comes after  *)
(* it and wherever the file ends.                                            *)
ReadsWhatIsWritten ==
    /\ \A i \in 1..Len(nodes) :
           i <= source.whole => WithoutGen(nodes[i]) = WithoutGen(source.written[i])
    /\ phase \in {"evaluating", "done"} => Len(nodes) >= source.whole

(* The text between the braces of a gen block, spaces aside, with the alias  *)
(* of a captured variable in the place of the variable.                      *)
Joined(texts) ==
    LET upTo[i \in 0..Len(texts)] == IF i = 0 THEN "" ELSE upTo[i - 1] \o texts[i]
    IN upTo[Len(texts)]
Substituted(name, bindings) ==
    IF \E b \in Range(bindings) : b.capture = name
    THEN (CHOOSE b \in Range(bindings) : b.capture = name).alias ELSE name
LiteralText(ts, bindings) ==
    Joined([i \in DOMAIN ts |->
        CASE ts[i] = "$" -> ""
          [] i > 1 /\ ts[i - 1] = "$" -> Substituted(ts[i], bindings)
          [] OTHER -> ts[i]])
(* A gen block in which there is neither a string nor an @ keeps its text,   *)
(* brace for brace, spaces aside, with the alias of every captured variable, *)
(* and of nothing else, in the place of the variable                         *)
(* (docs/pattern-language.md:321). Of strings it cannot be said: their quotes*)
(* are not in the template (parser.go:683), and a $ in them is a variable's. *)
Plain(ts) == \A k \in DOMAIN ts : Type(ts[k]) # "String" /\ ts[k] # "@"
TemplatesKeepTheText ==
    phase = "done" =>
        LET written == Written({"pattern"})
        IN \A i \in DOMAIN written :
              written[i].genBlock # Nil /\ Plain(written[i].genBlock.text) =>
                  Joined(patterns[i].genTemplate)
                      = LiteralText(written[i].genBlock.text, patterns[i].bindings)

(* A file gives one pattern for each definition of one, in their order, with *)
(* its captures renamed to identifiers of Go and with the instructions of    *)
(* its last instr block: every field of every operand of every alternative   *)
(* is what was written. (What the blocks before the last one say is lost.)   *)
SameOperand(c, o) ==
    /\ c.wild = o.wildcard /\ c.imm = o.immediate
    /\ <<c.lit, c.reg, c.cap>> = <<o.literal, o.register, o.capture>>
    /\ <<c.base, c.index, c.scale, c.off>> = <<o.base, o.index, o.scale, o.offset>>
SameInstruction(c, w) ==
    /\ <<c.opcode, c.labelName>> = <<w.opcode, w.label>>
    /\ c.isLabel <=> w.opcode = ""
    /\ Len(c.operands) = Len(w.operands)
    /\ \A k \in DOMAIN w.operands : SameOperand(c.operands[k], w.operands[k])
SameAlternatives(cs, ws) ==
    /\ Len(cs) = Len(ws)
    /\ \A i \in DOMAIN ws :
           /\ Len(cs[i]) = Len(ws[i])
           /\ \A j \in DOMAIN ws[i] : SameInstruction(cs[i][j], ws[i][j])
CompiledAsWritten ==
    phase = "done" =>
        LET written == Written({"pattern"})
        IN /\ Len(patterns) >= Len(written)
           /\ \A i \in DOMAIN written :
                 /\ patterns[i].name = written[i].name
                 /\ written[i].instrBlocks # <<>> =>
                       SameAlternatives(patterns[i].alternatives,
                                        Last(written[i].instrBlocks).alternatives)
                 /\ written[i].bindBlock # Nil =>
                       /\ Len(patterns[i].bindings) = Len(written[i].bindBlock.bindings)
                       /\ \A b \in DOMAIN patterns[i].bindings :
                             /\ patterns[i].bindings[b].capture
                                    = written[i].bindBlock.bindings[b].capture
                             /\ patterns[i].bindings[b].alias \notin GoKeywords

(* What is declared in a function, a block or a loop is gone when it is      *)
(* over: there are as many scopes as functions and blocks that are not, and  *)
(* the variables left are those declared outside of all of them.             *)
OnlyGlobalsRemain ==
    LET globals == {nodes[i].name : i \in {j \in DOMAIN nodes : nodes[j].is = "variable"}}
    IN /\ Len(scopes) = 1 + Len(SelectSeq(work, LAMBDA n : n = PopScope))
       /\ DOMAIN scopes[1] \subseteq globals
       /\ phase = "done" => globals = DOMAIN scopes[1]

(* A file is read and evaluated to the end or refused, wherever it was cut.  *)
CompileEnds == <>(phase \in {"done", "failed"})
=============================================================================
