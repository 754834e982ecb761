----------------------------- MODULE UserStream -----------------------------
(***************************************************************************)
(* From the bytes of .text to the instructions the matcher is given:       *)
(* DecodeStreamWithSymbols (disasm/disasm.go) sweeps the section, the      *)
(* symbol table cuts it into functions (recoverBySymbols in                *)
(* function/pclntab.go), and Decompile (actions/decompile.go) walks the    *)
(* user functions and gathers their instructions. Each of these loops      *)
(* advances one iteration a step.                                          *)
(*                                                                         *)
(* The section starts at address 1. What x86asm.Decode makes of it is the  *)
(* function text: the length of the instruction that would be decoded at   *)
(* an address, 0 where decoding fails. An instruction is [addr, size].     *)
(***************************************************************************)
EXTENDS Integers, Sequences

CONSTANTS Texts,          \* what may be in the section
          SymbolTables    \* sequences of function symbols [addr, user]; user
                          \* says that ClassifyFunction takes it for user code

VARIABLES
  text, symbols,          \* the input
  pc,
  offset,                 \* where the sweep is
  instructions,           \* what it decoded
  todo,                   \* the symbols recoverBySymbols has not come to
  functions,              \* UserFunctions, records entry and end
  f, addr,                \* the function and the address the walk is at
  visited,
  userInstructions

vars == <<text, symbols, pc, offset, instructions, todo, functions, f, addr,
          visited, userInstructions>>

ASSUME TextsAssumption ==
  \A t \in Texts : t \in Seq(Nat) /\ \A o \in DOMAIN t : o + t[o] <= Len(t) + 1

ASSUME SymbolTablesAssumption ==
  \A s \in SymbolTables : s \in Seq([addr : Nat \ {0}, user : BOOLEAN])

Init ==
  /\ text \in Texts
  /\ symbols \in SymbolTables
  /\ pc = "sweep"
  /\ offset = 1
  /\ instructions = << >>
  /\ todo = DOMAIN symbols
  /\ functions = << >>
  /\ f = 1 /\ addr = 0
  /\ visited = {}
  /\ userInstructions = << >>

input == <<text, symbols>>
swept == <<offset, instructions>>
recovered == <<todo, functions>>
walked == <<f, addr, visited, userInstructions>>

-----------------------------------------------------------------------------
(* DecodeStreamWithSymbols: a byte that starts no instruction is passed    *)
(* over.                                                                   *)
SkipByte ==
  /\ pc = "sweep"
  /\ offset \in DOMAIN text
  /\ text[offset] = 0
  /\ offset' = offset + 1
  /\ UNCHANGED <<input, pc, instructions, recovered, walked>>

(* A fault: after a short instruction the sweep skips a byte.              *)
DecodeAndSkip ==
  /\ pc = "sweep"
  /\ offset \in DOMAIN text
  /\ text[offset] # 0
  /\ instructions' = Append(instructions, [addr |-> offset, size |-> text[offset]])
  /\ offset' = offset + (IF text[offset] = 1 THEN 2 ELSE text[offset])
  /\ UNCHANGED <<input, pc, recovered, walked>>

DecodeNext ==
  /\ pc = "sweep"
  /\ offset \in DOMAIN text
  /\ text[offset] # 0
  /\ instructions' = Append(instructions, [addr |-> offset, size |-> text[offset]])
  /\ offset' = offset + text[offset]
  /\ UNCHANGED <<input, pc, recovered, walked>>

EndSweep ==
  /\ pc = "sweep"
  /\ offset \notin DOMAIN text
  /\ pc' = "recover"
  /\ UNCHANGED <<input, swept, recovered, walked>>

-----------------------------------------------------------------------------
(* recoverBySymbols: the symbols by address, those of one address in the   *)
(* order of the table. A function ends at the next address that has a      *)
(* symbol; the last ones end at 0.                                         *)
Later(table, a) ==
  {table[t].addr : t \in {u \in DOMAIN table : table[u].addr > a}}

EndsAt(table, a, e) ==
  IF Later(table, a) = {} THEN e = 0
  ELSE e \in Later(table, a) /\ \A b \in Later(table, a) : e <= b

Before(s, t) ==
  \/ symbols[s].addr < symbols[t].addr
  \/ symbols[s].addr = symbols[t].addr /\ s < t

(* A fault: the functions come in the order of the table.                  *)
RecoverUnsorted(s) ==
  /\ pc = "recover"
  /\ \A t \in todo : s <= t
  /\ \E e \in Later(symbols, symbols[s].addr) \cup {0} :
       /\ EndsAt(symbols, symbols[s].addr, e)
       /\ functions' = IF symbols[s].user
                       THEN Append(functions, [entry |-> symbols[s].addr, end |-> e])
                       ELSE functions
  /\ todo' = todo \ {s}
  /\ UNCHANGED <<input, pc, swept, walked>>

RecoverFunction(s) ==
  /\ pc = "recover"
  /\ \A t \in todo : ~Before(t, s)
  /\ \E e \in Later(symbols, symbols[s].addr) \cup {0} :
       /\ EndsAt(symbols, symbols[s].addr, e)
       /\ functions' = IF symbols[s].user
                       THEN Append(functions, [entry |-> symbols[s].addr, end |-> e])
                       ELSE functions
  /\ todo' = todo \ {s}
  /\ UNCHANGED <<input, pc, swept, walked>>

EntryOf(k) == IF k \in DOMAIN functions THEN functions[k].entry ELSE 0

(* RecoverFromBinary builds the blocks of every function, user code or     *)
(* not: those of the instructions that start in its range, with its entry  *)
(* as a leader. BuildControlFlowGraph panics on them where the entry       *)
(* starts none of them (see Panics of BasicBlocks).                        *)
OffStream(s) ==
  /\ \A k \in DOMAIN instructions : instructions[k].addr # symbols[s].addr
  /\ \E k \in DOMAIN instructions, e \in Later(symbols, symbols[s].addr) :
       /\ EndsAt(symbols, symbols[s].addr, e)
       /\ symbols[s].addr < instructions[k].addr
       /\ instructions[k].addr < e

PanicOnBlocks ==
  /\ pc = "recover"
  /\ todo = {}
  /\ \E s \in DOMAIN symbols : OffStream(s)
  /\ pc' = "panicked"
  /\ UNCHANGED <<input, swept, recovered, walked>>

StartWalk ==
  /\ pc = "recover"
  /\ todo = {}
  /\ \A s \in DOMAIN symbols : ~OffStream(s)
  /\ pc' = "walk"
  /\ addr' = EntryOf(1)
  /\ UNCHANGED <<input, swept, recovered, f, visited, userInstructions>>

-----------------------------------------------------------------------------
(* Decompile: every function from its entry to its end, by the lengths of  *)
(* the decoded instructions, by the byte where there is none. Functions    *)
(* with several names are walked several times; visited keeps their        *)
(* instructions from being gathered again.                                 *)
Walking == pc = "walk" /\ f \in DOMAIN functions /\ addr < functions[f].end

(* A fault: an instruction is gathered on every visit.                     *)
TakeAgain ==
  /\ Walking
  /\ \E k \in DOMAIN instructions :
       /\ instructions[k].addr = addr
       /\ userInstructions' = Append(userInstructions, instructions[k])
       /\ visited' = visited \cup {addr}
       /\ addr' = addr + instructions[k].size
  /\ UNCHANGED <<input, pc, swept, recovered, f>>

TakeInstruction ==
  /\ Walking
  /\ \E k \in DOMAIN instructions :
       /\ instructions[k].addr = addr
       /\ userInstructions' = IF addr \in visited THEN userInstructions
                              ELSE Append(userInstructions, instructions[k])
       /\ visited' = visited \cup {addr}
       /\ addr' = addr + instructions[k].size
  /\ UNCHANGED <<input, pc, swept, recovered, f>>

(* A fault: where no instruction starts the walk gives up the address.     *)
StayAtByte ==
  /\ Walking
  /\ \A k \in DOMAIN instructions : instructions[k].addr # addr
  /\ addr' = functions[f].end
  /\ UNCHANGED <<input, pc, swept, recovered, f, visited, userInstructions>>

NextByte ==
  /\ Walking
  /\ \A k \in DOMAIN instructions : instructions[k].addr # addr
  /\ addr' = addr + 1
  /\ UNCHANGED <<input, pc, swept, recovered, f, visited, userInstructions>>

NextFunction ==
  /\ pc = "walk"
  /\ f \in DOMAIN functions
  /\ addr >= functions[f].end
  /\ f' = f + 1
  /\ addr' = EntryOf(f + 1)
  /\ UNCHANGED <<input, pc, swept, recovered, visited, userInstructions>>

EndWalk ==
  /\ pc = "walk"
  /\ f \notin DOMAIN functions
  /\ pc' = "done"
  /\ UNCHANGED <<input, swept, recovered, walked>>

Ended == pc \in {"done", "panicked"} /\ UNCHANGED vars

Next ==
  \/ SkipByte \/ DecodeNext \/ EndSweep
  \/ (\E s \in todo : RecoverFunction(s)) \/ PanicOnBlocks \/ StartWalk
  \/ TakeInstruction \/ NextByte \/ NextFunction \/ EndWalk \/ Ended

Spec == Init /\ [][Next]_vars

-----------------------------------------------------------------------------
InstructionType == [addr : Nat \ {0}, size : Nat \ {0}]

FunctionType == [entry : Nat \ {0}, end : Nat]

(* Type invariant.                                                         *)
TypeOK ==
  /\ text \in Texts
  /\ symbols \in SymbolTables
  /\ pc \in {"sweep", "recover", "walk", "done", "panicked"}
  /\ offset \in 1 .. Len(text) + 1
  /\ instructions \in Seq(InstructionType)
  /\ todo \subseteq DOMAIN symbols
  /\ functions \in Seq(FunctionType)
  /\ f \in Nat \ {0} /\ addr \in Nat
  /\ visited \subseteq Nat
  /\ userInstructions \in Seq(InstructionType)

InOrder(s) ==
  \A j, k \in DOMAIN s : j < k => s[j].addr + s[j].size <= s[k].addr

(* The sweep resynchronises without a loss: a byte behind it that lies in  *)
(* no decoded instruction is one at which decoding fails.                  *)
SweepLosesNothing ==
  \A o \in 1 .. offset - 1 :
    \/ text[o] = 0
    \/ \E k \in DOMAIN instructions :
         /\ instructions[k].addr <= o
         /\ o < instructions[k].addr + instructions[k].size

(* What the matcher is given is in address order and free of overlaps and  *)
(* of duplicates, though the symbol table is in no order, names addresses  *)
(* several times and cuts through instructions. The matcher and both       *)
(* generators rely on it.                                                  *)
StreamInOrder == InOrder(userInstructions)

(* What the walk gathered is what the section has decoded in the ranges of *)
(* the user functions, neither more nor less, though it steps by lengths   *)
(* and by bytes, across bytes that do not decode, and several times over   *)
(* functions with several names.                                           *)
StreamIsUserCode ==
  pc = "done" =>
    \A k \in DOMAIN instructions :
      (\E u \in DOMAIN userInstructions : userInstructions[u] = instructions[k])
        <=> \E g \in DOMAIN functions :
              functions[g].entry <= instructions[k].addr
                /\ instructions[k].addr < functions[g].end

=============================================================================
