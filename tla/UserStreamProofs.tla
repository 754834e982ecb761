-------------------------- MODULE UserStreamProofs --------------------------
(***************************************************************************)
(* Proofs about UserStream for every section and every symbol table: the   *)
(* type invariant, that the sweep loses nothing, that what the matcher is  *)
(* given is in order, and that it is the code of the user functions.       *)
(***************************************************************************)
EXTENDS UserStream, SequenceTheorems, TLAPS

-----------------------------------------------------------------------------
(* The inductive invariant: TypeOK and the parts below.                    *)

(* What the sweep decoded lies behind it, in order.                        *)
Swept ==
  /\ InOrder(instructions)
  /\ \A k \in DOMAIN instructions : instructions[k].addr + instructions[k].size <= offset

(* The functions are in order, each begins at a symbol and ends at the     *)
(* next one, and the symbols that are left are not before them.            *)
Recovered ==
  /\ \A g \in DOMAIN functions :
       /\ EndsAt(symbols, functions[g].entry, functions[g].end)
       /\ \E s \in DOMAIN symbols : symbols[s].addr = functions[g].entry
       /\ \A t \in todo : functions[g].entry <= symbols[t].addr
  /\ \A g, h \in DOMAIN functions : g < h => functions[g].entry <= functions[h].entry

In(a, fn) == fn.entry <= a /\ a < fn.end

Passed(a) ==
  \/ \E g \in DOMAIN functions : g < f /\ In(a, functions[g])
  \/ f \in DOMAIN functions /\ In(a, functions[f]) /\ a < addr

(* The walk has visited the instructions of the functions before f and     *)
(* those of f before addr, and gathered each once.                         *)
Gathered ==
  /\ f <= Len(functions) + 1
  /\ pc \in {"sweep", "recover"} =>
       f = 1 /\ addr = 0 /\ visited = {} /\ userInstructions = << >>
  /\ pc = "sweep" => functions = << >>
  /\ pc = "walk" /\ f \in DOMAIN functions => functions[f].entry <= addr
  /\ pc = "done" => f \notin DOMAIN functions
  /\ pc \in {"walk", "done"} =>
       \A k \in DOMAIN instructions :
         instructions[k].addr \in visited <=> Passed(instructions[k].addr)
  /\ \A k \in DOMAIN instructions :
       instructions[k].addr \in visited
         => \E u \in DOMAIN userInstructions : userInstructions[u] = instructions[k]
  /\ \A u \in DOMAIN userInstructions :
       \E k \in DOMAIN instructions :
         userInstructions[u] = instructions[k] /\ instructions[k].addr \in visited

StreamInv ==
  /\ TypeOK /\ Swept /\ SweepLosesNothing /\ Recovered /\ Gathered /\ StreamInOrder

-----------------------------------------------------------------------------
(* The shape of the input, from the assumptions on the constants.          *)
LEMMA InputShape ==
  ASSUME TypeOK
  PROVE  /\ text \in Seq(Nat)
         /\ \A o \in DOMAIN text : o + text[o] <= Len(text) + 1
         /\ symbols \in Seq([addr : Nat \ {0}, user : BOOLEAN])
         /\ \A s \in DOMAIN symbols : symbols[s].addr \in Nat \ {0}
<1>1. /\ text \in Seq(Nat)
      /\ \A o \in DOMAIN text : o + text[o] <= Len(text) + 1
      /\ symbols \in Seq([addr : Nat \ {0}, user : BOOLEAN])
  BY TextsAssumption, SymbolTablesAssumption DEF TypeOK
<1>2. \A s \in DOMAIN symbols : symbols[s] \in [addr : Nat \ {0}, user : BOOLEAN]
  BY <1>1, LenProperties, ElementOfSeq
<1> QED
  BY <1>1, <1>2

(* What a well-typed sequence of instructions, or of functions, holds.     *)
LEMMA ElementShape ==
  ASSUME TypeOK
  PROVE  /\ \A k \in DOMAIN instructions :
              instructions[k].addr \in Nat \ {0} /\ instructions[k].size \in Nat \ {0}
         /\ \A u \in DOMAIN userInstructions :
              userInstructions[u].addr \in Nat \ {0} /\ userInstructions[u].size \in Nat \ {0}
         /\ \A g \in DOMAIN functions :
              functions[g].entry \in Nat \ {0} /\ functions[g].end \in Nat
         /\ DOMAIN instructions = 1 .. Len(instructions)
         /\ DOMAIN userInstructions = 1 .. Len(userInstructions)
         /\ DOMAIN functions = 1 .. Len(functions)
         /\ Len(instructions) \in Nat /\ Len(userInstructions) \in Nat
         /\ Len(functions) \in Nat
<1>1. \A k \in DOMAIN instructions : instructions[k] \in InstructionType
  BY LenProperties, ElementOfSeq DEF TypeOK
<1>2. \A u \in DOMAIN userInstructions : userInstructions[u] \in InstructionType
  BY LenProperties, ElementOfSeq DEF TypeOK
<1>3. \A g \in DOMAIN functions : functions[g] \in FunctionType
  BY LenProperties, ElementOfSeq DEF TypeOK
<1>4. /\ DOMAIN instructions = 1 .. Len(instructions) /\ Len(instructions) \in Nat
      /\ DOMAIN userInstructions = 1 .. Len(userInstructions) /\ Len(userInstructions) \in Nat
      /\ DOMAIN functions = 1 .. Len(functions) /\ Len(functions) \in Nat
  BY LenProperties DEF TypeOK
<1> QED
  BY <1>1, <1>2, <1>3, <1>4 DEF InstructionType, FunctionType

(* An instruction put behind the others keeps them in order.               *)
LEMMA AppendInOrder ==
  ASSUME NEW s \in Seq(InstructionType), NEW x \in InstructionType, InOrder(s),
         \A k \in DOMAIN s : s[k].addr + s[k].size <= x.addr
  PROVE  InOrder(Append(s, x))
<1>1. /\ DOMAIN s = 1 .. Len(s) /\ Len(s) \in Nat
      /\ DOMAIN Append(s, x) = 1 .. Len(s) + 1
      /\ \A k \in 1 .. Len(s) : Append(s, x)[k] = s[k]
      /\ Append(s, x)[Len(s) + 1] = x
  BY LenProperties, AppendProperties
<1> QED
  BY <1>1 DEF InOrder

(* The sweep decodes no address twice and no instruction inside another.   *)
LEMMA InstructionsApart ==
  ASSUME TypeOK, Swept, NEW j \in DOMAIN instructions, NEW k \in DOMAIN instructions
  PROVE  /\ instructions[j].addr < instructions[k].addr
              => instructions[j].addr + instructions[j].size <= instructions[k].addr
         /\ instructions[j].addr = instructions[k].addr => j = k
<1>1. /\ j \in Nat /\ k \in Nat
      /\ instructions[j].addr \in Nat /\ instructions[j].size \in Nat \ {0}
      /\ instructions[k].addr \in Nat /\ instructions[k].size \in Nat \ {0}
  BY ElementShape
<1>2. InOrder(instructions)
  BY DEF Swept
<1>3. CASE j < k
  <2>1. instructions[j].addr + instructions[j].size <= instructions[k].addr
    BY <1>2, <1>3 DEF InOrder
  <2> QED
    BY <1>1, <2>1
<1>4. CASE k < j
  <2>1. instructions[k].addr + instructions[k].size <= instructions[j].addr
    BY <1>2, <1>4 DEF InOrder
  <2> QED
    BY <1>1, <2>1
<1>5. CASE j = k
  BY <1>1, <1>5
<1> QED
  BY <1>1, <1>3, <1>4, <1>5

(* Two user functions have the same range, or the first ends before the    *)
(* second begins: recoverBySymbols takes the next address for the end.     *)
LEMMA FunctionsApart ==
  ASSUME TypeOK, Recovered,
         NEW g \in DOMAIN functions, NEW h \in DOMAIN functions, g < h
  PROVE  \/ functions[g].entry = functions[h].entry /\ functions[g].end = functions[h].end
         \/ functions[g].end <= functions[h].entry
<1>1. /\ functions[g].entry \in Nat /\ functions[g].end \in Nat
      /\ functions[h].entry \in Nat /\ functions[h].end \in Nat
  BY ElementShape
<1>2. functions[g].entry <= functions[h].entry
  BY DEF Recovered
<1>3. EndsAt(symbols, functions[g].entry, functions[g].end) /\ EndsAt(symbols, functions[h].entry, functions[h].end)
  BY DEF Recovered
<1>4. CASE functions[g].entry = functions[h].entry
  <2>1. \A b \in Later(symbols, functions[g].entry) : b \in Nat
    BY InputShape DEF Later
  <2>2. functions[g].end = functions[h].end
    BY <1>1, <1>3, <1>4, <2>1 DEF EndsAt
  <2> QED
    BY <1>4, <2>2
<1>5. CASE functions[g].entry < functions[h].entry
  <2>1. PICK s \in DOMAIN symbols : symbols[s].addr = functions[h].entry
    BY DEF Recovered
  <2>2. functions[h].entry \in Later(symbols, functions[g].entry)
    BY <1>5, <2>1 DEF Later
  <2> QED
    BY <1>3, <2>2 DEF EndsAt
<1> QED
  BY <1>1, <1>2, <1>4, <1>5

-----------------------------------------------------------------------------
(* The invariant holds at the start.                                       *)
LEMMA StreamInvInit == Init => StreamInv
<1> SUFFICES ASSUME Init PROVE StreamInv
  OBVIOUS
<1>1. /\ << >> \in Seq(InstructionType) /\ << >> \in Seq(FunctionType)
      /\ DOMAIN << >> = {} /\ Len(<< >>) = 0
  BY EmptySeq, LenProperties
<1>2. text \in Seq(Nat)
  BY TextsAssumption DEF Init
<1>3. TypeOK
  BY <1>1, <1>2, LenProperties DEF Init, TypeOK
<1>4. Swept /\ SweepLosesNothing
  BY <1>1 DEF Init, Swept, SweepLosesNothing, InOrder
<1>5. Recovered
  BY <1>1 DEF Init, Recovered
<1>6. Gathered /\ StreamInOrder
  BY <1>1 DEF Init, Gathered, StreamInOrder, InOrder
<1> QED
  BY <1>3, <1>4, <1>5, <1>6 DEF StreamInv

(* The sweep: the functions and the walk have not begun.                   *)
LEMMA SkipByteKeeps == StreamInv /\ SkipByte => StreamInv'
<1> SUFFICES ASSUME StreamInv, SkipByte PROVE StreamInv'
  OBVIOUS
<1> USE DEF StreamInv
<1>1. /\ text \in Seq(Nat) /\ DOMAIN text = 1 .. Len(text) /\ Len(text) \in Nat
      /\ offset \in 1 .. Len(text) /\ text[offset] = 0
  BY InputShape, LenProperties DEF SkipByte
<1>2. TypeOK'
  BY <1>1 DEF SkipByte, TypeOK, input, recovered, walked
<1>3. Swept'
  BY <1>1, ElementShape DEF SkipByte, Swept, InOrder
<1>4. SweepLosesNothing'
  BY <1>1 DEF SkipByte, SweepLosesNothing, input
<1>5. Recovered' /\ Gathered' /\ StreamInOrder'
  BY DEF SkipByte, Recovered, Gathered, StreamInOrder, InOrder, Passed, In,
         input, recovered, walked
<1> QED
  BY <1>2, <1>3, <1>4, <1>5

(* The sweep decodes an instruction, or passes over a byte.                *)
LEMMA DecodeNextKeeps == StreamInv /\ DecodeNext => StreamInv'
<1> SUFFICES ASSUME StreamInv, DecodeNext PROVE StreamInv'
  OBVIOUS
<1> USE DEF StreamInv
<1> DEFINE x == [addr |-> offset, size |-> text[offset]]
<1>1. /\ text \in Seq(Nat) /\ DOMAIN text = 1 .. Len(text) /\ Len(text) \in Nat
      /\ offset \in 1 .. Len(text) /\ text[offset] # 0
      /\ offset + text[offset] <= Len(text) + 1
  BY InputShape, LenProperties DEF DecodeNext
<1>2. text[offset] \in Nat
  BY <1>1, ElementOfSeq
<1>3. x \in InstructionType /\ x.addr = offset /\ x.size = text[offset]
  BY <1>1, <1>2 DEF InstructionType
<1>4. instructions \in Seq(InstructionType)
  BY DEF TypeOK
<1>5. instructions' = Append(instructions, x)
  BY DEF DecodeNext
<1> HIDE DEF x
<1>6. /\ DOMAIN instructions = 1 .. Len(instructions) /\ Len(instructions) \in Nat
      /\ DOMAIN instructions' = 1 .. Len(instructions) + 1
      /\ \A k \in DOMAIN instructions : instructions'[k] = instructions[k]
      /\ instructions'[Len(instructions) + 1] = x
      /\ instructions' \in Seq(InstructionType)
  BY <1>3, <1>4, <1>5, LenProperties, AppendProperties
<1>7. TypeOK'
  BY <1>1, <1>2, <1>6 DEF DecodeNext, TypeOK, input, recovered, walked
<1>8. Swept'
  <2>1. InOrder(instructions')
    BY <1>3, <1>4, <1>5, AppendInOrder DEF Swept
  <2>2. \A k \in DOMAIN instructions' : instructions'[k].addr + instructions'[k].size <= offset'
    BY <1>1, <1>2, <1>3, <1>6, ElementShape, SMTT(60) DEF Swept, DecodeNext
  <2> QED
    BY <2>1, <2>2 DEF Swept
<1>9. SweepLosesNothing'
  <2> SUFFICES ASSUME NEW o \in 1 .. offset' - 1
               PROVE  \/ text[o] = 0
                      \/ \E k \in DOMAIN instructions' :
                           /\ instructions'[k].addr <= o
                           /\ o < instructions'[k].addr + instructions'[k].size
    BY DEF SweepLosesNothing, DecodeNext, input
  <2>1. CASE o < offset
    BY <1>1, <1>6, <2>1, SMTT(30) DEF SweepLosesNothing
  <2>2. CASE o >= offset
    <3>1. o < offset + text[offset]
      BY <1>1, <1>2 DEF DecodeNext
    <3>2. Len(instructions) + 1 \in DOMAIN instructions'
      BY <1>6
    <3>3. /\ instructions'[Len(instructions) + 1].addr = offset
          /\ instructions'[Len(instructions) + 1].size = text[offset]
      BY <1>3, <1>6
    <3> QED
      BY <2>2, <3>1, <3>2, <3>3
  <2> QED
    BY <1>1, <2>1, <2>2
<1>10. Recovered'
  BY DEF DecodeNext, Recovered, input, recovered
<1>12. StreamInOrder'
  BY DEF DecodeNext, StreamInOrder, InOrder, walked
<1>11. Gathered'
  <2>1. visited = {} /\ visited' = {} /\ userInstructions' = << >> /\ DOMAIN << >> = {}
    BY DEF Gathered, DecodeNext, walked
  <2> QED
    BY <2>1 DEF Gathered, DecodeNext, input, recovered, walked
<1> QED
  BY <1>7, <1>8, <1>9, <1>10, <1>11, <1>12

(* The sweep is at the end of the section.                                 *)
LEMMA EndSweepKeeps == StreamInv /\ EndSweep => StreamInv'
<1> SUFFICES ASSUME StreamInv, EndSweep PROVE StreamInv'
  OBVIOUS
<1>1. TypeOK'
  BY DEF StreamInv, EndSweep, TypeOK, input, swept, recovered, walked
<1>2. Swept' /\ SweepLosesNothing' /\ Recovered' /\ StreamInOrder'
  BY DEF StreamInv, EndSweep, Swept, SweepLosesNothing, Recovered, StreamInOrder, InOrder,
         input, swept, recovered, walked
<1>3. Gathered'
  BY DEF StreamInv, EndSweep, Gathered, Passed, In, input, swept, recovered, walked
<1> QED
  BY <1>1, <1>2, <1>3 DEF StreamInv

(* recoverBySymbols: the symbol taken is the least of those left.          *)
LEMMA RecoverFunctionKeeps ==
  ASSUME StreamInv, NEW s \in todo, RecoverFunction(s)
  PROVE  StreamInv'
<1> USE DEF StreamInv
<1>1. PICK e \in Later(symbols, symbols[s].addr) \cup {0} :
        /\ EndsAt(symbols, symbols[s].addr, e)
        /\ functions' = IF symbols[s].user
                        THEN Append(functions, [entry |-> symbols[s].addr, end |-> e])
                        ELSE functions
  BY DEF RecoverFunction
<1>2. /\ s \in DOMAIN symbols /\ todo \subseteq DOMAIN symbols
      /\ \A t \in DOMAIN symbols : t \in Nat /\ symbols[t].addr \in Nat \ {0}
  BY InputShape, LenProperties DEF TypeOK
<1>3. \A t \in todo : symbols[s].addr <= symbols[t].addr
  BY <1>2 DEF RecoverFunction, Before
<1>4. e \in Nat
  BY <1>2 DEF Later
<1> DEFINE x == [entry |-> symbols[s].addr, end |-> e]
<1>5. x \in FunctionType /\ x.entry = symbols[s].addr /\ x.end = e
  BY <1>2, <1>4 DEF FunctionType
<1>6. functions \in Seq(FunctionType)
  BY DEF TypeOK
<1>7. functions' = IF symbols[s].user THEN Append(functions, x) ELSE functions
  BY <1>1
<1> HIDE DEF x
<1>8. /\ DOMAIN functions = 1 .. Len(functions) /\ Len(functions) \in Nat
      /\ functions' \in Seq(FunctionType)
      /\ \/ functions' = functions
         \/ /\ DOMAIN functions' = 1 .. Len(functions) + 1
            /\ \A g \in DOMAIN functions : functions'[g] = functions[g]
            /\ functions'[Len(functions) + 1] = x
            /\ Len(functions') = Len(functions) + 1
  BY <1>5, <1>6, <1>7, LenProperties, AppendProperties
<1>9. TypeOK'
  BY <1>8 DEF RecoverFunction, TypeOK, input, swept, walked
<1>10. Swept' /\ SweepLosesNothing' /\ StreamInOrder'
  BY DEF RecoverFunction, Swept, SweepLosesNothing, StreamInOrder, InOrder, input, swept, walked
<1>11. Recovered'
  <2>1. todo' = todo \ {s} /\ symbols' = symbols
    BY DEF RecoverFunction, input
  <2>4. ASSUME NEW g \in DOMAIN functions'
        PROVE  \/ g \in DOMAIN functions /\ functions'[g] = functions[g]
               \/ /\ g = Len(functions) + 1 /\ g \notin DOMAIN functions
                  /\ functions'[g].entry = symbols[s].addr /\ functions'[g].end = e
    BY <1>5, <1>8
  <2>2. ASSUME NEW g \in DOMAIN functions'
        PROVE  /\ EndsAt(symbols, functions'[g].entry, functions'[g].end)
               /\ \E t \in DOMAIN symbols : symbols[t].addr = functions'[g].entry
               /\ \A t \in todo' : functions'[g].entry <= symbols[t].addr
    <3>1. CASE g \in DOMAIN functions /\ functions'[g] = functions[g]
      BY <2>1, <3>1 DEF Recovered
    <3>2. CASE functions'[g].entry = symbols[s].addr /\ functions'[g].end = e
      BY <1>1, <1>2, <1>3, <2>1, <3>2
    <3> QED
      BY <2>4, <3>1, <3>2
  <2>3. ASSUME NEW g \in DOMAIN functions', NEW h \in DOMAIN functions', g < h
        PROVE  functions'[g].entry <= functions'[h].entry
    <3>1. g \in 1 .. Len(functions) + 1 /\ h \in 1 .. Len(functions) + 1
      BY <1>8
    <3>2. g \in DOMAIN functions /\ functions'[g] = functions[g]
      BY <1>8, <2>3, <2>4, <3>1
    <3>3. CASE h \in DOMAIN functions /\ functions'[h] = functions[h]
      BY <2>3, <3>2, <3>3 DEF Recovered
    <3>4. CASE functions'[h].entry = symbols[s].addr
      BY <3>2, <3>4 DEF Recovered
    <3> QED
      BY <2>4, <3>3, <3>4
  <2> QED
    BY <2>1, <2>2, <2>3 DEF Recovered
<1>12. Gathered'
  <2>1. visited = {} /\ userInstructions = << >> /\ DOMAIN << >> = {} /\ f = 1 /\ addr = 0
    BY DEF Gathered, RecoverFunction
  <2>2. Len(functions') \in Nat
    BY <1>8
  <2> QED
    BY <2>1, <2>2 DEF Gathered, RecoverFunction, input, swept, walked
<1> QED
  BY <1>9, <1>10, <1>11, <1>12

(* Nothing changes but that the program has panicked.                      *)
LEMMA PanicOnBlocksKeeps == StreamInv /\ PanicOnBlocks => StreamInv'
<1> SUFFICES ASSUME StreamInv, PanicOnBlocks PROVE StreamInv'
  OBVIOUS
<1>1. TypeOK'
  BY DEF StreamInv, PanicOnBlocks, TypeOK, input, swept, recovered, walked
<1>2. Swept' /\ SweepLosesNothing' /\ Recovered' /\ StreamInOrder'
  BY DEF StreamInv, PanicOnBlocks, Swept, SweepLosesNothing, Recovered, StreamInOrder,
         InOrder, input, swept, recovered, walked
<1>3. Gathered'
  BY DEF StreamInv, PanicOnBlocks, Gathered, Passed, In, input, swept, recovered, walked
<1> QED
  BY <1>1, <1>2, <1>3 DEF StreamInv

(* The walk over the functions begins.                                     *)
LEMMA StartWalkKeeps == StreamInv /\ StartWalk => StreamInv'
<1> SUFFICES ASSUME StreamInv, StartWalk PROVE StreamInv'
  OBVIOUS
<1> USE DEF StreamInv
<1>1. EntryOf(1) \in Nat /\ (1 \in DOMAIN functions => EntryOf(1) = functions[1].entry)
  BY ElementShape DEF EntryOf
<1>2. f = 1 /\ f' = 1 /\ visited = {} /\ visited' = {} /\ userInstructions = << >>
      /\ DOMAIN << >> = {} /\ functions' = functions /\ addr' = EntryOf(1)
  BY DEF Gathered, StartWalk, recovered
<1>3. TypeOK'
  BY <1>1 DEF StartWalk, TypeOK, input, swept, recovered
<1>4. Swept' /\ SweepLosesNothing' /\ Recovered' /\ StreamInOrder'
  BY DEF StartWalk, Swept, SweepLosesNothing, Recovered, StreamInOrder, InOrder,
         input, swept, recovered
<1>5. \A a \in Nat : ~Passed(a)'
  <2> SUFFICES ASSUME NEW a \in Nat, Passed(a)' PROVE FALSE
    OBVIOUS
  <2>1. \A g \in DOMAIN functions : g >= 1
    BY ElementShape
  <2>2. 1 \in DOMAIN functions /\ functions[1].entry <= a /\ a < EntryOf(1)
    BY <1>2, <2>1 DEF Passed, In
  <2> QED
    BY <1>1, <2>2, ElementShape
<1>6. Gathered'
  <2>1. \A k \in DOMAIN instructions' : instructions'[k].addr \in Nat
    BY ElementShape DEF StartWalk, swept
  <2>2. pc' = "walk" /\ (f' \in DOMAIN functions' => functions'[f'].entry <= addr')
    BY <1>1, <1>2, ElementShape DEF StartWalk
  <2> QED
    BY <1>2, <1>5, <2>1, <2>2, ElementShape DEF Gathered, StartWalk
<1> QED
  BY <1>3, <1>4, <1>6

(* TakeInstruction: an instruction that was not visited lies behind        *)
(* everything gathered, for a function that ends beyond it and is not the  *)
(* same as this one would begin behind this one.                           *)
LEMMA TakeInstructionKeeps == StreamInv /\ TakeInstruction => StreamInv'
<1> SUFFICES ASSUME StreamInv, TakeInstruction PROVE StreamInv'
  OBVIOUS
<1> USE DEF StreamInv
<1>1. PICK k \in DOMAIN instructions :
        /\ instructions[k].addr = addr
        /\ userInstructions' = IF addr \in visited THEN userInstructions
                               ELSE Append(userInstructions, instructions[k])
        /\ visited' = visited \cup {addr}
        /\ addr' = addr + instructions[k].size
  BY DEF TakeInstruction
<1>2. /\ pc = "walk" /\ pc' = "walk" /\ f \in DOMAIN functions /\ f' = f
      /\ functions' = functions /\ instructions' = instructions
      /\ functions[f].entry <= addr /\ addr < functions[f].end
  BY DEF TakeInstruction, Walking, Gathered, swept, recovered
<1>3. /\ addr \in Nat /\ instructions[k].size \in Nat \ {0} /\ addr' \in Nat
      /\ instructions[k] \in InstructionType /\ f \in Nat /\ addr < addr'
  BY <1>1, <1>2, ElementShape, ElementOfSeq, SMTT(60) DEF TypeOK
<1>4. userInstructions \in Seq(InstructionType)
  BY DEF TypeOK
<1>5. /\ DOMAIN userInstructions = 1 .. Len(userInstructions) /\ Len(userInstructions) \in Nat
      /\ userInstructions' \in Seq(InstructionType)
      /\ \/ addr \in visited /\ userInstructions' = userInstructions
         \/ /\ addr \notin visited
            /\ DOMAIN userInstructions' = 1 .. Len(userInstructions) + 1
            /\ \A u \in DOMAIN userInstructions : userInstructions'[u] = userInstructions[u]
            /\ userInstructions'[Len(userInstructions) + 1] = instructions[k]
  BY <1>1, <1>3, <1>4, LenProperties, AppendProperties
<1>6. TypeOK'
  BY <1>1, <1>3, <1>5 DEF TakeInstruction, TypeOK, input, swept, recovered
<1>7. Swept' /\ SweepLosesNothing' /\ Recovered'
  BY DEF TakeInstruction, Swept, SweepLosesNothing, Recovered, input, swept, recovered
<1>8. \A j \in DOMAIN instructions : instructions[j].addr < addr
        => instructions[j].addr + instructions[j].size <= addr
  BY <1>1, InstructionsApart
<1>9. \A j \in DOMAIN instructions : instructions[j].addr > addr
        => instructions[j].addr >= addr'
  BY <1>1, <1>3, InstructionsApart
<1>10. ASSUME addr \notin visited, NEW j \in DOMAIN instructions,
              instructions[j].addr \in visited
       PROVE  instructions[j].addr < addr
  <2> DEFINE a == instructions[j].addr
  <2>1. Passed(a) /\ ~Passed(addr)
    BY <1>1, <1>2, <1>10 DEF Gathered
  <2>2. CASE \E g \in DOMAIN functions : g < f /\ In(a, functions[g])
    <3>1. PICK g \in DOMAIN functions : g < f /\ In(a, functions[g])
      BY <2>2
    <3>2. ~In(addr, functions[g])
      BY <2>1, <3>1 DEF Passed
    <3>3. functions[g].end <= functions[f].entry
      BY <1>2, <3>1, <3>2, FunctionsApart DEF In
    <3> QED
      BY <1>2, <1>3, <3>1, <3>3, ElementShape, SMTT(30) DEF In
  <2>3. CASE f \in DOMAIN functions /\ In(a, functions[f]) /\ a < addr
    BY <2>3
  <2> QED
    BY <2>1, <2>2, <2>3 DEF Passed
<1>11. StreamInOrder'
  <2>1. CASE addr \in visited
    BY <1>5, <2>1 DEF StreamInOrder, InOrder
  <2>2. CASE addr \notin visited
    <3>1. ASSUME NEW u \in DOMAIN userInstructions
          PROVE  userInstructions[u].addr + userInstructions[u].size <= instructions[k].addr
      <4>1. PICK j \in DOMAIN instructions :
              userInstructions[u] = instructions[j] /\ instructions[j].addr \in visited
        BY DEF Gathered
      <4> QED
        BY <1>1, <1>8, <1>10, <2>2, <4>1
    <3>2. InOrder(Append(userInstructions, instructions[k]))
      BY <1>3, <1>4, <3>1, AppendInOrder DEF StreamInOrder
    <3> QED
      BY <1>1, <2>2, <3>2 DEF StreamInOrder
  <2> QED
    BY <2>1, <2>2
<1>12. \A j \in DOMAIN instructions :
         instructions[j].addr \in visited' <=> Passed(instructions[j].addr)'
  <2> SUFFICES ASSUME NEW j \in DOMAIN instructions
               PROVE  instructions[j].addr \in visited' <=> Passed(instructions[j].addr)'
    OBVIOUS
  <2> DEFINE a == instructions[j].addr
  <2>1. a \in Nat /\ (a < addr' <=> a <= addr)
    BY <1>3, <1>9, ElementShape
  <2>2. a \in visited <=> Passed(a)
    BY <1>2 DEF Gathered
  <2>3. Passed(a)' <=> \/ \E g \in DOMAIN functions : g < f /\ In(a, functions[g])
                       \/ In(a, functions[f]) /\ a < addr'
    BY <1>2 DEF Passed, TakeInstruction, swept
  <2>4. a = addr => In(a, functions[f])
    BY <1>2 DEF In
  <2> QED
    BY <1>1, <1>2, <1>3, <2>1, <2>2, <2>3, <2>4 DEF Passed
<1>13. Gathered'
  <2>1. \A j \in DOMAIN instructions :
          instructions[j].addr \in visited'
            => \E u \in DOMAIN userInstructions' : userInstructions'[u] = instructions[j]
    <3> SUFFICES ASSUME NEW j \in DOMAIN instructions, instructions[j].addr \in visited'
                 PROVE  \E u \in DOMAIN userInstructions' :
                          userInstructions'[u] = instructions[j]
      OBVIOUS
    <3>1. CASE instructions[j].addr \in visited
      <4>1. PICK u \in DOMAIN userInstructions : userInstructions[u] = instructions[j]
        BY <3>1 DEF Gathered
      <4> QED
        BY <1>5, <4>1
    <3>2. CASE instructions[j].addr \notin visited
      <4>1. instructions[j].addr = addr /\ addr \notin visited
        BY <1>1, <3>2
      <4>2. j = k
        BY <1>1, <4>1, InstructionsApart
      <4> QED
        BY <1>5, <4>1, <4>2
    <3> QED
      BY <3>1, <3>2
  <2>2. \A u \in DOMAIN userInstructions' :
          \E j \in DOMAIN instructions :
            userInstructions'[u] = instructions[j] /\ instructions[j].addr \in visited'
    <3> SUFFICES ASSUME NEW u \in DOMAIN userInstructions'
                 PROVE  \E j \in DOMAIN instructions :
                          userInstructions'[u] = instructions[j] /\ instructions[j].addr \in visited'
      OBVIOUS
    <3>1. CASE u \in DOMAIN userInstructions /\ userInstructions'[u] = userInstructions[u]
      BY <1>1, <3>1 DEF Gathered
    <3>2. CASE userInstructions'[u] = instructions[k]
      BY <1>1, <3>2
    <3> QED
      BY <1>5, <3>1, <3>2
  <2>3. f' <= Len(functions') + 1 /\ functions'[f'].entry <= addr'
    BY <1>2, <1>3, ElementShape
  <2> QED
    BY <1>2, <1>12, <2>1, <2>2, <2>3 DEF Gathered
<1> QED
  BY <1>6, <1>7, <1>11, <1>13

(* Nothing new at an address: the walk passes over it.                     *)
LEMMA NextByteKeeps == StreamInv /\ NextByte => StreamInv'
<1> SUFFICES ASSUME StreamInv, NextByte PROVE StreamInv'
  OBVIOUS
<1> USE DEF StreamInv
<1>1. /\ pc = "walk" /\ pc' = "walk" /\ f \in DOMAIN functions /\ f' = f
      /\ functions' = functions /\ instructions' = instructions /\ visited' = visited
      /\ userInstructions' = userInstructions /\ functions[f].entry <= addr
      /\ addr \in Nat /\ addr' = addr + 1
  BY DEF NextByte, Walking, Gathered, TypeOK, swept, recovered
<1>2. TypeOK'
  BY <1>1 DEF NextByte, TypeOK, input, swept, recovered
<1>3. Swept' /\ SweepLosesNothing' /\ Recovered' /\ StreamInOrder'
  BY DEF NextByte, Swept, SweepLosesNothing, Recovered, StreamInOrder, InOrder,
         input, swept, recovered
<1>4. \A j \in DOMAIN instructions :
        instructions[j].addr \in visited' <=> Passed(instructions[j].addr)'
  <2> SUFFICES ASSUME NEW j \in DOMAIN instructions
               PROVE  Passed(instructions[j].addr)' <=> Passed(instructions[j].addr)
    BY <1>1 DEF Gathered
  <2>1. instructions[j].addr \in Nat /\ instructions[j].addr # addr
    BY ElementShape DEF NextByte
  <2>2. instructions[j].addr < addr' <=> instructions[j].addr < addr
    BY <1>1, <2>1
  <2> QED
    BY <1>1, <2>2 DEF Passed
<1>5. functions'[f'].entry <= addr'
  BY <1>1, ElementShape
<1>6. Gathered'
  BY <1>1, <1>4, <1>5 DEF Gathered
<1> QED
  BY <1>2, <1>3, <1>6

(* The walk turns to the next function.                                    *)
LEMMA NextFunctionKeeps == StreamInv /\ NextFunction => StreamInv'
<1> SUFFICES ASSUME StreamInv, NextFunction PROVE StreamInv'
  OBVIOUS
<1> USE DEF StreamInv
<1>1. /\ pc = "walk" /\ pc' = "walk" /\ f \in DOMAIN functions /\ f' = f + 1
      /\ functions' = functions /\ instructions' = instructions /\ visited' = visited
      /\ userInstructions' = userInstructions /\ addr >= functions[f].end
      /\ f \in Nat /\ addr \in Nat /\ addr' = EntryOf(f + 1)
  BY DEF NextFunction, TypeOK, swept, recovered
<1>2. /\ EntryOf(f + 1) \in Nat
      /\ f + 1 \in DOMAIN functions => EntryOf(f + 1) = functions[f + 1].entry
  BY ElementShape DEF EntryOf
<1>3. TypeOK'
  BY <1>1, <1>2 DEF NextFunction, TypeOK, input, swept, recovered
<1>4. Swept' /\ SweepLosesNothing' /\ Recovered' /\ StreamInOrder'
  BY DEF NextFunction, Swept, SweepLosesNothing, Recovered, StreamInOrder, InOrder,
         input, swept, recovered
<1>5. \A j \in DOMAIN instructions :
        instructions[j].addr \in visited' <=> Passed(instructions[j].addr)'
  <2> SUFFICES ASSUME NEW j \in DOMAIN instructions
               PROVE  Passed(instructions[j].addr)' <=> Passed(instructions[j].addr)
    BY <1>1 DEF Gathered
  <2> DEFINE a == instructions[j].addr
  <2>1. a \in Nat /\ functions[f].end \in Nat
    BY <1>1, ElementShape
  <2>2. Passed(a)' <=> \/ \E g \in DOMAIN functions : g < f + 1 /\ In(a, functions[g])
                       \/ /\ f + 1 \in DOMAIN functions /\ In(a, functions[f + 1])
                          /\ a < EntryOf(f + 1)
    BY <1>1 DEF Passed
  <2>3. ~(/\ f + 1 \in DOMAIN functions /\ In(a, functions[f + 1])
          /\ a < EntryOf(f + 1))
    BY <1>2, <2>1 DEF In
  <2>4. In(a, functions[f]) => a < addr
    BY <1>1, <2>1 DEF In
  <2>5. \A g \in DOMAIN functions : g < f + 1 <=> g < f \/ g = f
    BY <1>1, ElementShape
  <2> QED
    BY <1>1, <2>2, <2>3, <2>4, <2>5 DEF Passed
<1>6. f' <= Len(functions') + 1 /\ (f' \in DOMAIN functions' => functions'[f'].entry <= addr')
  BY <1>1, <1>2, ElementShape
<1>7. Gathered'
  BY <1>1, <1>5, <1>6 DEF Gathered
<1> QED
  BY <1>3, <1>4, <1>7

(* The walk has passed the last function.                                  *)
LEMMA EndWalkKeeps == StreamInv /\ EndWalk => StreamInv'
<1> SUFFICES ASSUME StreamInv, EndWalk PROVE StreamInv'
  OBVIOUS
<1>1. TypeOK'
  BY DEF StreamInv, EndWalk, TypeOK, input, swept, recovered, walked
<1>2. Swept' /\ SweepLosesNothing' /\ Recovered' /\ StreamInOrder'
  BY DEF StreamInv, EndWalk, Swept, SweepLosesNothing, Recovered, StreamInOrder, InOrder,
         input, swept, recovered, walked
<1>3. Gathered'
  BY DEF StreamInv, EndWalk, Gathered, Passed, In, input, swept, recovered, walked
<1> QED
  BY <1>1, <1>2, <1>3 DEF StreamInv

(* The invariant, from its preservation by every action.                   *)
THEOREM StreamInvariant == Spec => []StreamInv
<1>1. StreamInv /\ [Next]_vars => StreamInv'
  <2> SUFFICES ASSUME StreamInv, [Next]_vars PROVE StreamInv'
    OBVIOUS
  <2>1. CASE SkipByte
    BY <2>1, SkipByteKeeps
  <2>2. CASE DecodeNext
    BY <2>2, DecodeNextKeeps
  <2>3. CASE EndSweep
    BY <2>3, EndSweepKeeps
  <2>4. CASE \E s \in todo : RecoverFunction(s)
    BY <2>4, RecoverFunctionKeeps
  <2>5. CASE StartWalk
    BY <2>5, StartWalkKeeps
  <2>6. CASE TakeInstruction
    BY <2>6, TakeInstructionKeeps
  <2>7. CASE NextByte
    BY <2>7, NextByteKeeps
  <2>8. CASE NextFunction
    BY <2>8, NextFunctionKeeps
  <2>9. CASE EndWalk
    BY <2>9, EndWalkKeeps
  <2>10. CASE PanicOnBlocks
    BY <2>10, PanicOnBlocksKeeps
  <2>11. CASE UNCHANGED vars
    <3>1. TypeOK'
      BY <2>11 DEF StreamInv, TypeOK, vars
    <3>2. Swept' /\ SweepLosesNothing' /\ Recovered' /\ StreamInOrder'
      BY <2>11 DEF StreamInv, Swept, SweepLosesNothing, Recovered, StreamInOrder, InOrder, vars
    <3>3. Gathered'
      BY <2>11 DEF StreamInv, Gathered, Passed, In, vars
    <3> QED
      BY <3>1, <3>2, <3>3 DEF StreamInv
  <2> QED
    BY <2>1, <2>2, <2>3, <2>4, <2>5, <2>6, <2>7, <2>8, <2>9, <2>10, <2>11 DEF Next, Ended
<1> QED
  BY <1>1, StreamInvInit, PTL DEF Spec

(* Type correctness of the sweep, of recoverBySymbols and of the walk.     *)
THEOREM StreamTypeCorrect == Spec => []TypeOK
<1>1. StreamInv => TypeOK
  BY DEF StreamInv
<1> QED
  BY <1>1, StreamInvariant, PTL

(* The linear sweep of DecodeStreamWithSymbols passes over no byte that    *)
(* could start an instruction, unless it lies in another one.              *)
THEOREM SweepIsLossless == Spec => []SweepLosesNothing
<1>1. StreamInv => SweepLosesNothing
  BY DEF StreamInv
<1> QED
  BY <1>1, StreamInvariant, PTL

(* Decompile hands the matcher a stream in address order: what Matcher     *)
(* assumes of its Streams.                                                 *)
THEOREM MatcherInputInOrder == Spec => []StreamInOrder
<1>1. StreamInv => StreamInOrder
  BY DEF StreamInv
<1> QED
  BY <1>1, StreamInvariant, PTL

(* Decompile hands the matcher the decoded instructions of the user        *)
(* functions and no other.                                                 *)
THEOREM MatcherInputIsUserCode == Spec => []StreamIsUserCode
<1>1. StreamInv => StreamIsUserCode
  <2> SUFFICES ASSUME StreamInv, pc = "done", NEW k \in DOMAIN instructions
               PROVE  (\E u \in DOMAIN userInstructions : userInstructions[u] = instructions[k])
                        <=> \E g \in DOMAIN functions : In(instructions[k].addr, functions[g])
    BY DEF StreamIsUserCode, In
  <2> USE DEF StreamInv
  <2>1. f \notin DOMAIN functions /\ \A g \in DOMAIN functions : g < f
    BY ElementShape DEF Gathered, TypeOK
  <2>2. instructions[k].addr \in visited
          <=> \E g \in DOMAIN functions : In(instructions[k].addr, functions[g])
    BY <2>1 DEF Gathered, Passed
  <2>3. ASSUME NEW u \in DOMAIN userInstructions, userInstructions[u] = instructions[k]
        PROVE  instructions[k].addr \in visited
    BY <2>3 DEF Gathered
  <2>4. instructions[k].addr \in visited
          => \E u \in DOMAIN userInstructions : userInstructions[u] = instructions[k]
    BY DEF Gathered
  <2> QED
    BY <2>2, <2>3, <2>4
<1> QED
  BY <1>1, StreamInvariant, PTL
=============================================================================
