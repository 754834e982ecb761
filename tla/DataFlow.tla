------------------------------ MODULE DataFlow ------------------------------
(* The data flow analysis of a basic block (analysis/dfa): the instructions  *)
(* are translated one after the other to values and statements               *)
(* (translate.go, with the operands of parse.go and the state of value.go),  *)
(* and then the statements are optimized (optimize.go).                      *)
(* Values are nodes that are shared and that simplifyValue changes in place, *)
(* so they are kept in a heap; a value is the number of its node.            *)
EXTENDS Machine, FiniteSets, FiniteSetsExt, TLC

CONSTANTS
    LowerCase,     \* the registers, and how they are written in the emitted code
    Offsets,       \* the offsets of the stack slots, as they are written
    Values,        \* values that registers and slots may have before the block
    Following(_)   \* the instructions that may come after those of a block

Registers == DOMAIN LowerCase

VARIABLES
    phase,        \* "translating", "optimizing", "done"
    block,        \* the instructions so far
    heap,         \* the nodes
    regs,         \* regs: the registers that were set, and their values
    stackSlots,   \* stackSlots: the names of the slots that were written
    lastCmp,      \* lastCmp
    stmts         \* stmts

vars == <<phase, block, heap, regs, stackSlots, lastCmp, stmts>>

-----------------------------------------------------------------------------
(* Values.                                                                   *)
Nil == 0
ConstValue(c) == [kind |-> "const", const |-> c]
RegValue(name) == [kind |-> "reg", reg |-> name]
BinOpValue(op, left, right) == [kind |-> "op", op |-> op, left |-> left, right |-> right]
UnaryValue(op, left) == [kind |-> "unary", op |-> op, left |-> left]
LoadValue(mem) == [kind |-> "load", mem |-> mem]
AddrOfValue(mem) == [kind |-> "addrof", mem |-> mem]
CallValue(func) == [kind |-> "call", func |-> func]

At(h, v) == [heap |-> h, value |-> v]
New(h, node) == At(Append(h, node), Len(h) + 1)

(* The name of a slot is made when it is written; before that it has another *)
(* one.                                                                      *)
GetReg(h, r) == IF r \in DOMAIN regs THEN At(h, regs[r]) ELSE New(h, RegValue(r))
varCount == Cardinality(DOMAIN stackSlots)
(* A mistake: the slots are not counted.                                     *)
GetStackSlotUncounted(offset) ==
    IF offset \in DOMAIN stackSlots THEN stackSlots[offset] ELSE "v0"
GetStackSlot(offset) ==
    IF offset \in DOMAIN stackSlots THEN stackSlots[offset] ELSE "v" \o ToString(varCount)
StackVarName(offset) ==
    IF offset \in DOMAIN stackSlots THEN stackSlots[offset] ELSE "stack_" \o offset

(* ParseOperand gives a value to registers and immediates only.              *)
ParsedValue(h, o) ==
    CASE o.kind = "register" -> New(h, RegValue(o.register))
      [] o.kind = "immediate" -> New(h, ConstValue(o.const))
      [] OTHER -> At(h, Nil)
resolveSrc(h, o) ==
    CASE IsSlot(o) -> New(h, RegValue(StackVarName(o.offset)))
      [] o.kind = "memory" -> New(h, LoadValue(o))
      [] o.kind = "register" -> GetReg(h, o.register)
      [] OTHER -> ParsedValue(h, o)

-----------------------------------------------------------------------------
(* simplifyValue: the sides of an operation are simplified where they are.   *)
evalConstBinOp(op, a, b) == ConstValue(Apply(op, a, b))

IsConst(h, v, c) == h[v].kind = "const" /\ h[v].const = c
SameReg(h, v, w) == h[v].kind = "reg" /\ h[w].kind = "reg" /\ h[v].reg = h[w].reg

(* A mistake: a constant goes to the right of a subtraction as well.         *)
simplifyOpSwapping(h, v) ==
    IF /\ h[v].op \in {"+", "-"} /\ Nil \notin {h[v].left, h[v].right}
       /\ h[h[v].left].kind = "const"
    THEN At([h EXCEPT ![v].left = h[v].right, ![v].right = h[v].left], v)
    ELSE At(h, v)
simplifyOp(h, v) ==
    LET op == h[v].op
        left == h[v].left
        right == h[v].right
        Swapped == [h EXCEPT ![v].left = right, ![v].right = left]
    IN CASE Nil \in {left, right} -> At(h, v)
         [] h[left].kind = "const" /\ h[right].kind = "const" ->
              New(h, evalConstBinOp(op, h[left].const, h[right].const))
         [] op \in {"^", "-"} /\ SameReg(h, left, right) -> New(h, ConstValue(0))
         [] op = "+" /\ IsConst(h, left, 0) -> At(Swapped, right)
         [] op = "+" /\ h[left].kind = "const" -> At(Swapped, v)
         [] op = "+" /\ IsConst(h, right, 0) -> At(h, left)
         [] op = "*" /\ IsConst(h, right, 1) -> At(h, left)
         [] op = "*" /\ IsConst(h, left, 1) -> At(h, right)
         [] op = "*" /\ IsConst(h, right, 0) -> New(h, ConstValue(0))
         [] OTHER -> At(h, v)

ApplyUnary(op, a) == Apply("-", IF op = "-" THEN 0 ELSE Modulus - 1, a)
simplifyUnary(h, v) ==
    LET left == h[v].left
    IN IF left = Nil \/ h[left].kind # "const" THEN At(h, v)
       ELSE New(h, ConstValue(ApplyUnary(h[v].op, h[left].const)))

RECURSIVE simplifyValue(_, _)
simplifyValue(h, v) ==
    CASE v = Nil -> At(h, v)
      [] h[v].kind = "op" ->
           LET left == simplifyValue(h, h[v].left)
               right == simplifyValue([left.heap EXCEPT ![v].left = left.value], h[v].right)
           IN simplifyOp([right.heap EXCEPT ![v].right = right.value], v)
      [] h[v].kind = "unary" ->
           LET left == simplifyValue(h, h[v].left)
           IN simplifyUnary([left.heap EXCEPT ![v].left = left.value], v)
      [] OTHER -> At(h, v)

-----------------------------------------------------------------------------
(* What a value is in the emitted code. A register has its small letters, of *)
(* an address only the base is left, and of a value that is missing a blank. *)
emitLoadName(mem) == IF IsSlot(mem) THEN mem ELSE [mem EXCEPT !.offset = ""]
RECURSIVE emitValueGo(_, _)
emitValueGo(h, v) ==
    IF v = Nil THEN [kind |-> "blank"]
    ELSE LET node == h[v]
         IN CASE node.kind = "reg" ->
                   RegValue(IF node.reg \in Registers THEN LowerCase[node.reg] ELSE node.reg)
              [] node.kind = "op" ->
                   BinOpValue(node.op, emitValueGo(h, node.left), emitValueGo(h, node.right))
              [] node.kind = "unary" -> UnaryValue(node.op, emitValueGo(h, node.left))
              [] node.kind \in {"load", "addrof"} -> [node EXCEPT !.mem = emitLoadName(@)]
              [] OTHER -> node

-----------------------------------------------------------------------------
(* The block is translated.                                                  *)
Init ==
    /\ phase = "translating"
    /\ block = <<>> /\ heap = <<>> /\ stmts = <<>>
    /\ regs = <<>> /\ stackSlots = <<>> /\ lastCmp = <<>>

Instruction(i) ==
    /\ phase = "translating" /\ i \in Following(block)
    /\ block' = Append(block, i)
    /\ UNCHANGED phase
SetReg(o, v) == regs' = (o.register :> v) @@ regs
AddStmt(s) == stmts' = Append(stmts, s)
source(i) == i.args[1]
target(i) == Last(i.args)
IsRegister(o) == o.kind = "register"

TranslateMOV(i) ==
    /\ Instruction(i) /\ i.op \in {"MOVQ", "MOVL"}
    /\ \E src \in {resolveSrc(heap, source(i))} :
          /\ heap' = src.heap
          /\ \/ /\ IsRegister(target(i)) /\ SetReg(target(i), src.value)
                /\ UNCHANGED <<stackSlots, stmts>>
             \/ /\ IsSlot(target(i))
                /\ LET name == GetStackSlot(target(i).offset)
                   IN /\ stackSlots' = (target(i).offset :> name) @@ stackSlots
                      /\ AddStmt([kind |-> "assign", dst |-> name, value |-> src.value])
                /\ UNCHANGED regs
             \/ /\ target(i).kind = "memory" /\ ~IsSlot(target(i))
                /\ AddStmt([kind |-> "store", dst |-> target(i), value |-> src.value])
                /\ UNCHANGED <<regs, stackSlots>>
             \/ /\ target(i).kind \notin {"register", "memory"}
                /\ UNCHANGED <<regs, stackSlots, stmts>>
    /\ UNCHANGED lastCmp

TranslateLEA(i) ==
    /\ Instruction(i) /\ i.op = "LEAQ"
    /\ IF IsRegister(target(i)) /\ source(i).kind = "memory"
       THEN heap' = Append(heap, AddrOfValue(source(i))) /\ SetReg(target(i), Len(heap'))
       ELSE UNCHANGED <<heap, regs>>
    /\ UNCHANGED <<stackSlots, lastCmp, stmts>>

(* A mistake: the operands are taken in the order of the instruction.        *)
TranslateBinOpSwapped(i) ==
    /\ Instruction(i) /\ i.op \in DOMAIN Arithmetic
    /\ LET dst == i.args[2]
       IN IF ~IsRegister(dst) THEN UNCHANGED <<heap, regs>>
          ELSE \E src \in {resolveSrc(heap, source(i))} :
               \E old \in {GetReg(src.heap, dst.register)} :
                  /\ heap' = Append(old.heap,
                                    BinOpValue(Arithmetic[i.op], src.value, old.value))
                  /\ SetReg(dst, Len(heap'))
    /\ UNCHANGED <<stackSlots, lastCmp, stmts>>

(* An operation on memory does nothing. With three operands the second is    *)
(* taken for the one that is changed.                                        *)
TranslateBinOp(i) ==
    /\ Instruction(i) /\ i.op \in DOMAIN Arithmetic
    /\ LET dst == i.args[2]
       IN IF ~IsRegister(dst) THEN UNCHANGED <<heap, regs>>
          ELSE \E src \in {resolveSrc(heap, source(i))} :
               \E old \in {GetReg(src.heap, dst.register)} :
                  /\ heap' = Append(old.heap,
                                    BinOpValue(Arithmetic[i.op], old.value, src.value))
                  /\ SetReg(dst, Len(heap'))
    /\ UNCHANGED <<stackSlots, lastCmp, stmts>>

TranslateIncDec(i) ==
    /\ Instruction(i) /\ i.op \in {"INCQ", "DECQ"}
    /\ IF ~IsRegister(target(i)) THEN UNCHANGED <<heap, regs, stmts>>
       ELSE \E old \in {GetReg(heap, target(i).register)} :
            \E one \in {New(old.heap, ConstValue(1))} :
               /\ heap' = Append(one.heap, BinOpValue(IF i.op = "INCQ" THEN "+" ELSE "-",
                                                      old.value, one.value))
               /\ SetReg(target(i), Len(heap'))
               /\ AddStmt([kind |-> "assign", dst |-> target(i).register,
                           value |-> Len(heap')])
    /\ UNCHANGED <<stackSlots, lastCmp>>

TranslateUnary(i) ==
    /\ Instruction(i) /\ i.op \in {"NEGQ", "NOTQ"}
    /\ IF ~IsRegister(target(i)) THEN UNCHANGED <<heap, regs>>
       ELSE \E old \in {GetReg(heap, target(i).register)} :
               /\ heap' = Append(old.heap,
                                 UnaryValue(IF i.op = "NEGQ" THEN "-" ELSE "^", old.value))
               /\ SetReg(target(i), Len(heap'))
    /\ UNCHANGED <<stackSlots, lastCmp, stmts>>

(* Of a comparison the registers are taken as they were before the block.    *)
TranslateCMP(i) ==
    /\ Instruction(i) /\ i.op = "CMPQ"
    /\ \E left \in {IF target(i).kind = "memory" THEN New(heap, LoadValue(target(i)))
                    ELSE ParsedValue(heap, target(i))} :
       \E right \in {ParsedValue(left.heap, source(i))} :
          /\ heap' = right.heap
          /\ lastCmp' = <<left.value, right.value>>
    /\ UNCHANGED <<regs, stackSlots, stmts>>

(* A mistake: a register that is tested is taken as before the block.        *)
TranslateTESTRaw(i) ==
    /\ Instruction(i) /\ i.op = "TESTQ"
    /\ \E left \in {ParsedValue(heap, source(i))} :
       \E right \in {ParsedValue(left.heap, target(i))} :
          /\ heap' = right.heap
          /\ lastCmp' = <<left.value, right.value>>
    /\ UNCHANGED <<regs, stackSlots, stmts>>

(* A register that is tested is taken as it is now, and memory is not there. *)
TranslateTEST(i) ==
    LET tested(h, o) == IF o.kind = "memory" THEN At(h, Nil) ELSE resolveSrc(h, o)
    IN /\ Instruction(i) /\ i.op = "TESTQ"
       /\ \E left \in {tested(heap, source(i))} :
          \E right \in {tested(left.heap, target(i))} :
             /\ heap' = right.heap
             /\ lastCmp' = <<left.value, right.value>>
       /\ UNCHANGED <<regs, stackSlots, stmts>>

TranslateCALL(i) ==
    /\ Instruction(i) /\ i.op = "CALL"
    /\ heap' = Append(heap, CallValue(i.func))
    /\ SetReg(Register("AX"), Len(heap'))
    /\ AddStmt([kind |-> "call", value |-> Len(heap')])
    /\ UNCHANGED <<stackSlots, lastCmp>>

TranslateRET(i) ==
    /\ Instruction(i) /\ i.op = "RET"
    /\ LET value == IF "AX" \in DOMAIN regs THEN regs["AX"] ELSE Nil
       IN AddStmt([kind |-> "return",
                   value |-> IF value = Nil \/ heap[value].kind = "reg" THEN Nil ELSE value])
    /\ UNCHANGED <<heap, regs, stackSlots, lastCmp>>

TranslateJMP(i) ==
    /\ Instruction(i) /\ i.op = "JMP"
    /\ AddStmt([kind |-> "goto", value |-> Nil])
    /\ UNCHANGED <<heap, regs, stackSlots, lastCmp>>

(* Two sides that are written alike are compared with 0.                     *)
Comparison == ("JEQ" :> "==") @@ ("JNE" :> "!=") @@ ("JGT" :> ">") @@ ("JLT" :> "<")
    @@ ("JGE" :> ">=") @@ ("JLE" :> "<=") @@ ("JHI" :> ">") @@ ("JLS" :> "<=")
buildCondition(opcode, h, left, right) ==
    LET one == emitValueGo(h, left)
        other == emitValueGo(h, right)
    IN [op |-> Comparison[opcode], left |-> one,
        right |-> IF one = other /\ opcode \in {"JEQ", "JNE"} THEN ConstValue(0) ELSE other]
TranslateCondJump(i) ==
    /\ Instruction(i) /\ i.op \in DOMAIN Comparison
    /\ IF lastCmp = <<>> \/ Nil \in Range(lastCmp)
       THEN UNCHANGED heap /\ AddStmt([kind |-> "if", value |-> Nil, cond |-> <<>>])
       ELSE \E left \in {simplifyValue(heap, lastCmp[1])} :
            \E right \in {simplifyValue(left.heap, lastCmp[2])} :
               /\ heap' = right.heap
               /\ AddStmt([kind |-> "if", value |-> Nil,
                           cond |-> buildCondition(i.op, heap', left.value, right.value)])
    /\ UNCHANGED <<regs, stackSlots, lastCmp>>

(* The flag that is stored in the register is not looked at.                 *)
TranslateSET(i) ==
    /\ Instruction(i) /\ i.op \in {"SETEQ", "SETNE"}
    /\ IF IsRegister(target(i))
       THEN heap' = Append(heap, ConstValue(1)) /\ SetReg(target(i), Len(heap'))
       ELSE UNCHANGED <<heap, regs>>
    /\ UNCHANGED <<stackSlots, lastCmp, stmts>>

TranslateNothing(i) ==
    /\ Instruction(i) /\ i.op = "PUSHQ"
    /\ UNCHANGED <<heap, regs, stackSlots, lastCmp, stmts>>

-----------------------------------------------------------------------------
(* OptimizeBlock.                                                            *)
OptimizeValues ==
    /\ phase = "translating" /\ stmts # <<>> /\ Following(block) = {}
    /\ phase' = "optimizing"
    /\ LET Simplify(r, s) ==
               LET v == simplifyValue(r.heap, s.value)
               IN [heap |-> v.heap, stmts |-> Append(r.stmts, [s EXCEPT !.value = v.value])]
       IN \E r \in {FoldLeft(Simplify, [heap |-> heap, stmts |-> <<>>], stmts)} :
             heap' = r.heap /\ stmts' = r.stmts
    /\ UNCHANGED <<block, regs, stackSlots, lastCmp>>

(* A mistake: of an operation only the left side is looked at.               *)
RECURSIVE valueUsesVarLeft(_, _)
valueUsesVarLeft(v, name) ==
    CASE v = Nil -> FALSE
      [] heap[v].kind = "reg" -> heap[v].reg = name
      [] heap[v].kind = "op" -> valueUsesVarLeft(heap[v].left, name)
      [] OTHER -> FALSE
(* Only names, and names in operations, count as uses.                       *)
RECURSIVE valueUsesVar(_, _)
valueUsesVar(v, name) ==
    CASE v = Nil -> FALSE
      [] heap[v].kind = "reg" -> heap[v].reg = name
      [] heap[v].kind = "op" ->
           valueUsesVar(heap[v].left, name) \/ valueUsesVar(heap[v].right, name)
      [] OTHER -> FALSE

assigns(s, name) == s.kind = "assign" /\ s.dst = name
(* What becomes of a name is decided by the first assignment to it that      *)
(* another assignment or a use comes after: by which of them is the first.   *)
(* If there is none, by whether the name is used in its own assignment.      *)
usedVars(name) ==
    LET at == {i \in DOMAIN stmts : assigns(stmts[i], name)}
        next(i) == {j \in (i + 1)..Len(stmts) :
                       assigns(stmts[j], name) \/ valueUsesVar(stmts[j].value, name)}
        decided == {i \in at : next(i) # {}}
    IN IF decided = {} THEN \E i \in at : valueUsesVar(stmts[i].value, name)
       ELSE ~assigns(stmts[Min(next(Min(decided)))], name)

EliminateDeadStores ==
    /\ phase = "optimizing"
    /\ phase' = "done"
    /\ stmts' = SelectSeq(stmts, LAMBDA s : s.kind = "assign" => usedVars(s.dst))
    /\ UNCHANGED <<block, heap, regs, stackSlots, lastCmp>>

Translate(i) ==
    \/ TranslateMOV(i) \/ TranslateLEA(i) \/ TranslateBinOp(i) \/ TranslateIncDec(i)
    \/ TranslateUnary(i) \/ TranslateCMP(i) \/ TranslateTEST(i) \/ TranslateCALL(i)
    \/ TranslateRET(i) \/ TranslateJMP(i) \/ TranslateCondJump(i) \/ TranslateSET(i)
    \/ TranslateNothing(i)
Next ==
    \/ \E i \in Following(block) : Translate(i)
    \/ OptimizeValues \/ EliminateDeadStores

Spec == Init /\ [][Next]_vars
-----------------------------------------------------------------------------
(* What an emitted expression means where names have the values env says:    *)
(* one value, or none where there is a load, a call or a name without value. *)
RECURSIVE Meaning(_, _)
Meaning(e, env) ==
    CASE e.kind = "const" -> {e.const}
      [] e.kind = "reg" -> IF e.reg \in DOMAIN env THEN env[e.reg] ELSE {}
      [] e.kind = "op" ->
           {Apply(e.op, a, b) : a \in Meaning(e.left, env), b \in Meaning(e.right, env)}
      [] e.kind = "unary" -> {ApplyUnary(e.op, a) : a \in Meaning(e.left, env)}
      [] OTHER -> {}
MeaningOf(h, v, env) == Meaning(emitValueGo(h, v), env)

Stores == [Registers \union Offsets -> Values]
Entry(store) ==
    LET register(name) == CHOOSE r \in Registers : LowerCase[r] = name
    IN [name \in Range(LowerCase) |-> {store[register(name)]}]
       @@ [name \in {"stack_" \o o : o \in Offsets} |->
              {store[CHOOSE o \in Offsets : name = "stack_" \o o]}]
(* The names after the statements, in a store.                               *)
Execute(store) ==
    FoldLeft(LAMBDA env, s : IF s.kind # "assign" THEN env
                             ELSE (s.dst :> MeaningOf(heap, s.value, env)) @@ env,
             Entry(store), stmts)

(* The blocks that the analysis expresses: plain instructions that write no  *)
(* slot twice, as a register that holds a slot holds its name.               *)
Expressible(b) ==
    /\ \A i \in DOMAIN b : Plain(b[i])
    /\ \A i, j \in DOMAIN b :
           i < j => Writes(b[i]) \intersect Writes(b[j]) \intersect Offsets = {}

(* While a block is translated, every register has the value that it has in  *)
(* the machine at that point, and every slot that was written has it under   *)
(* its name, whatever they were before the block.                            *)
RegistersMeanTheMachine ==
    phase = "translating" /\ Expressible(block) =>
        \A store \in Stores :
            LET env == Execute(store)
                machine == Run(block, store)
            IN /\ \A r \in DOMAIN regs : MeaningOf(heap, regs[r], env) = {machine[r]}
               /\ \A r \in Registers \ DOMAIN regs : store[r] = machine[r]
               /\ \A o \in DOMAIN stackSlots : env[stackSlots[o]] = {machine[o]}

(* Simplifying works on nodes that registers, statements and comparisons     *)
(* share: no node that is there may come to mean something else.             *)
NodesKeepTheirMeaning ==
    [][\A v \in DOMAIN heap :
           \/ heap'[v] = heap[v]
           \/ \A store \in Stores :
                  LET slot(name) == CHOOSE o \in DOMAIN stackSlots : stackSlots[o] = name
                      env == Entry(store)
                             @@ [name \in Range(stackSlots) |-> {store[slot(name)]}]
                  IN MeaningOf(heap', v, env) = MeaningOf(heap, v, env)]_vars

(* What is left of the statements returns what the machine has in AX: no     *)
(* store is dropped that the value needs, except that a use within a         *)
(* negation is not noticed.                                                  *)
ReturnsTheRegister ==
    /\ phase = "done" /\ Expressible(block)
    /\ \A i \in DOMAIN block : block[i].op \notin {"NEGQ", "NOTQ"}
    =>
        \A i \in DOMAIN stmts : stmts[i].kind = "return" /\ stmts[i].value # Nil =>
            \A store \in Stores :
                MeaningOf(heap, stmts[i].value, Execute(store)) = {Run(block, store)["AX"]}

(* A jump if equal, or if not, is written with a condition that holds when   *)
(* the machine jumps: of registers that were compared before the block       *)
(* changed them, and of a register that is tested against itself.            *)
Compares(b, c) ==
    /\ b[c].op \in {"CMPQ", "TESTQ"}
    /\ \A i \in (c + 1)..(Len(b) - 1) : b[i].op = "MOVQ"
    /\ IF b[c].op = "TESTQ" THEN b[c].args[1] = b[c].args[2] /\ IsRegister(b[c].args[1])
       ELSE /\ b[c].args[1] # b[c].args[2]
            /\ \A o \in Range(b[c].args) :
                   /\ ~IsSlot(o)
                   /\ \A i \in 1..(c - 1) : IsRegister(o) => o.register \notin Writes(b[i])
ConditionsAgree ==
    /\ phase = "translating" /\ Expressible(block)
    /\ block # <<>> /\ Last(block).op \in {"JEQ", "JNE"}
    =>
        \A c \in DOMAIN block : Compares(block, c) =>
            \A store \in Stores :
                LET cond == Last(stmts).cond
                    env == Execute(store)
                    holds == (cond.op = "==")
                                = (Meaning(cond.left, env) = Meaning(cond.right, env))
                    before == Run(SubSeq(block, 1, c - 1), store)
                IN holds = ((Last(block).op = "JEQ") = ZeroFlag(block[c], before))

=============================================================================
