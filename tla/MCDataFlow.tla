----------------------------- MODULE MCDataFlow -----------------------------
EXTENDS DataFlow

MCLowerCase == ("AX" :> "ax") @@ ("BX" :> "bx")
MCOffsets == {"8", "16"}
MCValues == {0, 3}

I(op, args) == [op |-> op, args |-> args]
ax == Register("AX")
bx == Register("BX")
slot8 == Slot("8")
slot16 == Slot("16")
cell == Memory("BX", "8")
one == Immediate(1)
zero == Immediate(0)

(* The instructions of the longer blocks.                                    *)
Core == {I("MOVQ", <<ax, slot8>>), I("MOVQ", <<bx, slot16>>), I("MOVQ", <<slot8, ax>>),
         I("MOVQ", <<slot8, bx>>), I("MOVQ", <<bx, ax>>), I("MOVQ", <<one, ax>>),
         I("ADDQ", <<one, bx>>), I("SUBQ", <<bx, ax>>), I("INCQ", <<ax>>), I("NEGQ", <<bx>>)}

(* Every instruction there is, at the beginning of a block.                  *)
Places == {ax, bx, slot8}
Sources == Places \union {one, zero, Immediate(3), cell, Other}
Every == Core
    \union {I("MOVQ", <<s, t>>) : s \in Sources, t \in Places}
    \union {I("MOVQ", <<ax, cell>>), I("MOVQ", <<ax, Other>>), I("MOVL", <<bx, ax>>)}
    \union {I("LEAQ", <<cell, ax>>), I("LEAQ", <<slot8, bx>>), I("LEAQ", <<ax, bx>>)}
    \union {I(op, <<s, t>>) : op \in DOMAIN Arithmetic, s \in {ax, bx, one, zero}, t \in {ax}}
    \union {I(op, <<s, bx>>) : op \in {"ADDQ", "SUBQ", "IMULQ", "XORQ"}, s \in Sources}
    \union {I("ADDQ", <<ax, slot8>>), I("IMULQ", <<one, ax, bx>>)}
    \union {I(op, <<t>>) : op \in {"INCQ", "DECQ", "NEGQ", "NOTQ"}, t \in Places}
    \union {I(op, <<s, t>>) : op \in {"CMPQ", "TESTQ"}, s \in Places \union {zero}, t \in Places}
    \union {I("CALL", <<Other>>) @@ [func |-> "f"], I("SETEQ", <<ax>>), I("SETNE", <<slot8>>)}
    \union {I("PUSHQ", <<bx>>)}

Ends == {I(op, <<>>) : op \in {"RET", "JEQ", "JNE", "JGT", "JMP"}}
Returns == {I("RET", <<>>)}
Comparisons == {I("TESTQ", <<ax, ax>>), I("CMPQ", <<bx, ax>>)}
Compared(b) == \E i \in DOMAIN b : b[i].op \in {"CMPQ", "TESTQ"}

MCFollowing(b) ==
    CASE b # <<>> /\ Last(b) \in Ends -> {}
      [] b = <<>> -> Every \union Ends
      [] Compared(b) -> Ends
      [] Len(b) = 1 -> (IF b[1] \in Core THEN Every ELSE Core) \union Returns
      [] Len(b) < 4 /\ Range(b) \subseteq Core -> Core \union Returns
      [] Len(b) < 4 /\ b[1] \in Core -> Comparisons \union Returns
      [] OTHER -> Returns
=============================================================================
