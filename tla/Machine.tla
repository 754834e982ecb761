------------------------------ MODULE Machine -------------------------------
(* What the instructions of a block do in the machine, for the instructions  *)
(* whose effect on registers and stack slots the data flow analysis claims   *)
(* to express: the reference that its values are compared with.              *)
(* Instructions are [op, args], the operands source first.                   *)
EXTENDS Integers, Sequences, SequencesExt, Bitwise

CONSTANT Width          \* bits of a register
ASSUME WidthAssumption == Width \in Nat \ {0}

Modulus == 2 ^ Width

Register(r) == [kind |-> "register", register |-> r]
Immediate(c) == [kind |-> "immediate", const |-> c]
Memory(base, offset) == [kind |-> "memory", base |-> base, offset |-> offset]
Other == [kind |-> "other"]      \* an operand nobody can read, such as $-1
Slot(offset) == Memory("SP", offset)
IsSlot(o) == o.kind = "memory" /\ o.base = "SP"

-----------------------------------------------------------------------------
(* A store gives every register and every slot of the stack its value.       *)
Operand(o, store) ==
    CASE o.kind = "register" -> store[o.register]
      [] o.kind = "immediate" -> o.const
      [] IsSlot(o) -> store[o.offset]
Place(o) == IF o.kind = "register" THEN o.register ELSE o.offset

Arithmetic == ("ADDQ" :> "+") @@ ("SUBQ" :> "-") @@ ("IMULQ" :> "*") @@ ("ANDQ" :> "&")
    @@ ("ORQ" :> "|") @@ ("XORQ" :> "^") @@ ("SHLQ" :> "<<") @@ ("SHRQ" :> ">>")
Apply(operator, a, b) ==
    CASE operator = "+" -> (a + b) % Modulus
      [] operator = "-" -> (a - b) % Modulus
      [] operator = "*" -> (a * b) % Modulus
      [] operator = "&" -> a & b
      [] operator = "|" -> a | b
      [] operator = "^" -> a ^^ b
      [] operator = "<<" -> (a * 2 ^ b) % Modulus
      [] operator = ">>" -> a \div 2 ^ b

Exec(store, i) ==
    LET source == Operand(i.args[1], store)
        target == Place(i.args[Len(i.args)])
    IN CASE i.op = "MOVQ" -> [store EXCEPT ![target] = source]
         [] i.op \in DOMAIN Arithmetic ->
              [store EXCEPT ![target] = Apply(Arithmetic[i.op], @, source)]
         [] i.op = "INCQ" -> [store EXCEPT ![target] = Apply("+", @, 1)]
         [] i.op = "DECQ" -> [store EXCEPT ![target] = Apply("-", @, 1)]
         [] i.op = "NEGQ" -> [store EXCEPT ![target] = Apply("-", 0, @)]
         [] i.op = "NOTQ" -> [store EXCEPT ![target] = Apply("-", Modulus - 1, @)]
         [] OTHER -> store
Run(block, store) == FoldLeft(Exec, store, block)

(* The zero flag after a comparison, the only flag that is spoken of.        *)
ZeroFlag(i, store) ==
    LET a == Operand(i.args[1], store)
        b == Operand(i.args[2], store)
    IN IF i.op = "CMPQ" THEN a = b ELSE (a & b) = 0

-----------------------------------------------------------------------------
(* The instructions that Exec describes: 64 bits wide, between registers,    *)
(* immediates and slots. Only a move writes a slot, and a shift is by less   *)
(* than the width of a register.                                             *)
Plain(i) ==
    LET readable(o) == o.kind \in {"register", "immediate"} \/ IsSlot(o)
    IN CASE i.op = "MOVQ" ->
              /\ readable(i.args[1])
              /\ i.args[2].kind = "register" \/ IsSlot(i.args[2])
         [] i.op \in DOMAIN Arithmetic ->
              /\ Len(i.args) = 2 /\ readable(i.args[1]) /\ i.args[2].kind = "register"
              /\ i.op \in {"SHLQ", "SHRQ"} =>
                     i.args[1].kind = "immediate" /\ i.args[1].const < Width
         [] i.op \in {"INCQ", "DECQ", "NEGQ", "NOTQ"} -> i.args[1].kind = "register"
         [] i.op \in {"CMPQ", "TESTQ"} -> \A j \in DOMAIN i.args : readable(i.args[j])
         [] OTHER -> i.op \in {"RET", "JEQ", "JNE", "JMP"}
Writes(i) == IF i.op \in {"CMPQ", "TESTQ", "RET", "JEQ", "JNE", "JMP"} THEN {}
             ELSE {Place(i.args[Len(i.args)])}
=============================================================================
