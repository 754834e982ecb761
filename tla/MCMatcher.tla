----------------------------- MODULE MCMatcher -----------------------------
(* Matcher over every stream of up to MaxLen instructions of six kinds,    *)
(* with a gap after the second, and four small databases.                  *)
EXTENDS Matcher

CONSTANT MaxLen         \* bound: the length of a stream

Part(kind, text) ==
  [kind |-> kind, text |-> text, base |-> None, off |-> None, dollar |-> FALSE]
R(name) == Part("reg", name)
Q       == Part("qual", "qword")
M(reg)  == [Part("mem", "[mem]") EXCEPT !.base = reg, !.off = "0x8"]
I(n)    == Part("imm", n)
D(n)    == [Part("imm", n) EXCEPT !.dollar = TRUE]

Kinds ==
  {[op |-> "MOV",  calls |-> {}, parts |-> <<R("RAX"), R("RBX")>>],
   [op |-> "MOV",  calls |-> {}, parts |-> <<R("RBX"), R("RAX")>>],
   [op |-> "MOV",  calls |-> {}, parts |-> <<D("$1"), R("RAX")>>],
   [op |-> "CALL", calls |-> {"main_f"}, parts |-> <<I("0x40")>>],
   [op |-> "ADD",  calls |-> {}, parts |-> <<Q, M("RSP"), R("RAX")>>],
   [op |-> None,   calls |-> {}, parts |-> << >>]}

Place(kinds) ==
  [k \in DOMAIN kinds |->
     [addr  |-> 2 * k + (IF k > 2 THEN 7 ELSE 0), size |-> 2,
      op    |-> kinds[k].op,
      calls |-> kinds[k].calls,
      parts |-> kinds[k].parts]]

MCStreams == {Place(kinds) : kinds \in SeqOf(Kinds, MaxLen)}

Plain    == [wild |-> FALSE, imm |-> FALSE, lit |-> None, reg |-> None,
             cap |-> None, base |-> None, off |-> None]
Cap(x)   == [Plain EXCEPT !.cap = x]
Wild     == [Plain EXCEPT !.wild = TRUE]
Imm(x)   == [Plain EXCEPT !.imm = TRUE, !.cap = x]
Reg(r)   == [Plain EXCEPT !.reg = r]
Mem(b,o) == [Plain EXCEPT !.base = b, !.off = o]
Ins(op, operands) == [op |-> op, label |-> None, operands |-> operands]
Lab(l)   == [op |-> None, label |-> l, operands |-> << >>]

Swap  == << Ins("MOV", <<Cap("x"), Cap("y")>>), Ins("MOV", <<Cap("y"), Cap("x")>>) >>
Move  == << Ins("MOV", <<Cap("x")>>) >>
Loose   == << Ins("MOV", <<Wild, Cap("y")>>), Ins("CALL", <<Cap("main_f")>>) >>
Other == << Ins("CALL", <<Cap("main_g")>>) >>
Field == << Ins("ADD", <<Mem("p", "o"), Reg("RAX")>>), Ins("MOV", << >>) >>
Stack == << Ins("ADD", <<Mem("SP", "o")>>) >>
Value == << Ins("ADD", <<Imm("v")>>), Ins("CALL", << >>), Lab("end") >>
Write == << Ins("CALL", <<[Imm(None) EXCEPT !.lit = "0x1"]>>) >>
Entry == << Lab("start"), Ins("MOV", << >>) >>

MCDatabases ==
  { << <<Swap, Move, Entry>>, <<Loose>> >>,
    << <<Loose, Other>>, <<Field>>, << << >>, Stack, Entry >> >>,
    << <<Field, Value, Write>>, << << Ins("ADD", <<Mem("p", None)>>) >> >>, <<Swap>> >>,
    << >> }

MCOpcodes == {"MOV", "CALL", "ADD", None}

MCKnownRegs == {"AX", "SP"}

=============================================================================
