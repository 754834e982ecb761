---------------------------- MODULE FunctionBody ----------------------------
(***************************************************************************)
(* The body of one function of a written project: buildFunctionDecl and    *)
(* buildFunctionBody of pattern/generate/generate.go, from the blocks of   *)
(* the function and the matches the matcher kept. Each step is one         *)
(* iteration of the loop over the blocks.                                  *)
(*                                                                         *)
(* StructureControlFlow never fills Loops and leaves every post-dominator  *)
(* at -1 (ControlStructure), so loopHeads is empty, buildLoop is not       *)
(* called, and findMergeBlock answers -1. A body is the sequence of what   *)
(* the code appends to it:                                                 *)
(*   label b   the label of block b                                        *)
(*   block b   block b begins                                              *)
(*   expand m  the template of match m                                     *)
(*   if m      the condition of an if statement, read off match m          *)
(*   else b    block b begins, inside the else branch of the last if       *)
(*   goto b    an else branch that only jumps to block b                   *)
(* What emitFunctionRangeAST appends is left out: it returns nil.          *)
(***************************************************************************)
EXTENDS BasicBlocks

CONSTANTS Functions,     \* records insts, entry, end: a function and its
                         \* instructions, see BasicBlocks
          Layouts,       \* the sets of matches, records start and end
          SimpleLimit    \* the 5 of isSimpleBlockContent

VARIABLES func, matches, pc, blocks, succ,
          i,             \* the block the loop is at
          emitted,       \* emittedBlocks
          body

vars == <<func, matches, pc, blocks, succ, i, emitted, body>>

(* The generator declares no function without instructions, and takes      *)
(* those of a function from its entry point on.                            *)
ASSUME FunctionsAssumption ==
  \A f \in Functions :
    /\ IsStream(f.insts)
    /\ f.entry \in Nat /\ f.entry <= f.insts[1].addr
    /\ f.end \in Nat

(* Matches are of at least one instruction, and the matcher keeps none     *)
(* that overlaps another.                                                  *)
ASSUME LayoutsAssumption ==
  \A ms \in Layouts :
    /\ ms \subseteq [start : Nat, end : Nat] /\ IsFiniteSet(ms)
    /\ \A m \in ms :
         /\ m.start < m.end
         /\ \A n \in ms : m # n => m.end <= n.start \/ n.end <= m.start

insts == func.insts

Init ==
  /\ func \in Functions
  /\ matches \in Layouts
  /\ pc = "recover"
  /\ blocks = << >> /\ succ = << >>
  /\ i = 1 /\ emitted = {} /\ body = << >>

-----------------------------------------------------------------------------
(* RecoverFromBinary builds the blocks of the same instructions first, with*)
(* extractFunctionBlocks, and nothing recovers from a panic in it. It keeps*)
(* them in Function.Blocks, which the body is not built from.              *)
ExtractBlocks ==
  /\ pc = "recover"
  /\ pc' = IF Panics(insts, func.entry) THEN "panicked" ELSE "build"
  /\ UNCHANGED <<func, matches, blocks, succ, i, emitted, body>>

(* buildFunctionDecl: the matches that lie in the function, which it sorts *)
(* by where they start.                                                    *)
FuncMatches == {m \in matches : m.start >= func.entry /\ m.end <= func.end}

ByAddress(ms) ==
  LET starts == InOrder({m.start : m \in ms})
  IN  [k \in DOMAIN starts |-> CHOOSE m \in ms : m.start = starts[k]]

Build ==
  /\ pc = "build"
  /\ pc' = "body"
  /\ blocks' = BlocksOf(insts, func.entry)
  /\ succ' = [b \in DOMAIN blocks' |-> Successors(insts, blocks', b)]
  /\ UNCHANGED <<func, matches, i, emitted, body>>

-----------------------------------------------------------------------------
LastOf(b) == insts[blocks[b].last]

IsCond(b) == LastOf(b).op = "JCC" /\ Len(succ[b]) > 1

(* What the else branch of a conditional block is made of.                 *)
ElseTarget(b) == succ[b][2]

isSimpleBlockContent(b) ==
  \/ LastOf(b).op \in {"JMP", "CALL", "RET"}
  \/ LastOf(b).op = "other" /\ blocks[b].last - blocks[b].first < SimpleLimit

(* The blocks that have an entry in addrToLabel.                           *)
Labelled ==
  {b \in DOMAIN blocks :
     \E k \in DOMAIN insts :
       insts[k].op \in {"JCC", "JMP"} /\ insts[k].target = blocks[b].addr}

UsedOfFirst ==                                                \* a wrong UsedLabels
  {b \in Labelled :
     /\ ~isSimpleBlockContent(b)
     /\ \E c \in DOMAIN blocks : IsCond(c) /\ b = succ[c][1]}

UsedLabels ==                                           \* collectLabelUses
  {b \in Labelled :
     /\ ~isSimpleBlockContent(b)
     /\ \E c \in DOMAIN blocks : IsCond(c) /\ b = ElseTarget(c)}

MatchesByStart(b) ==                                      \* a wrong BlockMatches
  {m \in FuncMatches : /\ m.start >= blocks[b].addr
                       /\ m.start <= EndAddr(insts, blocks[b])}

BlockMatches(b) ==
  {m \in FuncMatches : /\ m.start >= blocks[b].addr
                       /\ m.end <= EndAddr(insts, blocks[b])}

-----------------------------------------------------------------------------
Item(what, at) == [what |-> what, at |-> at]

Expand(ms) == [k \in DOMAIN ms |-> Item("expand", ms[k])]

LabelOf(b) == IF b \in UsedLabels THEN <<Item("label", b)>> ELSE << >>

(* buildPlainBlock: it passes over the matches that start at or right      *)
(* behind the last instruction.                                            *)
PlainBlock(b) ==
  Expand(ByAddress({m \in BlockMatches(b) :
                      m.start < LastOf(b).addr \/ m.start > After(LastOf(b))}))

(* buildCondBlock: parseCond always finds a condition, so the last match   *)
(* of the block is the condition and the others go into the branch.        *)
Test(b) ==
  IF BlockMatches(b) = {} THEN << >>
  ELSE <<Item("if", Last(ByAddress(BlockMatches(b))))>>

Branch(b) ==
  IF BlockMatches(b) = {} THEN << >> ELSE Expand(Front(ByAddress(BlockMatches(b))))

Inlines(b) ==
  /\ ElseTarget(b) \notin emitted \cup {b}
  /\ isSimpleBlockContent(ElseTarget(b))

JumpsElse(b) ==
  /\ ElseTarget(b) \notin emitted \cup {b}
  /\ ~isSimpleBlockContent(ElseTarget(b))
  /\ ElseTarget(b) \in Labelled

Else(b) ==
  IF Inlines(b)
  THEN <<Item("else", ElseTarget(b))>> \o PlainBlock(ElseTarget(b))
  ELSE IF JumpsElse(b) THEN <<Item("goto", ElseTarget(b))>> ELSE << >>

-----------------------------------------------------------------------------
SkipTwo ==                                                \* a wrong SkipBlock
  /\ pc = "body"
  /\ i \in DOMAIN blocks /\ i \in emitted
  /\ i' = i + 2
  /\ UNCHANGED <<func, matches, pc, blocks, succ, emitted, body>>

SkipBlock ==
  /\ pc = "body"
  /\ i \in DOMAIN blocks /\ i \in emitted
  /\ i' = i + 1
  /\ UNCHANGED <<func, matches, pc, blocks, succ, emitted, body>>

EmitCondForgetting ==                                     \* a wrong EmitCondBlock
  /\ pc = "body"
  /\ i \in DOMAIN blocks \ emitted
  /\ IsCond(i)
  /\ body' = body \o LabelOf(i) \o <<Item("block", i)>> \o Test(i) \o Branch(i) \o Else(i)
  /\ emitted' = emitted \cup {i}
  /\ i' = i + 1
  /\ UNCHANGED <<func, matches, pc, blocks, succ>>

EmitCondBlock ==
  /\ pc = "body"
  /\ i \in DOMAIN blocks \ emitted
  /\ IsCond(i)
  /\ body' = body \o LabelOf(i) \o <<Item("block", i)>> \o Test(i) \o Branch(i) \o Else(i)
  /\ emitted' = emitted \cup {i} \cup (IF Inlines(i) THEN {ElseTarget(i)} ELSE {})
  /\ i' = i + 1
  /\ UNCHANGED <<func, matches, pc, blocks, succ>>

EmitPlainBlock ==
  /\ pc = "body"
  /\ i \in DOMAIN blocks \ emitted
  /\ ~IsCond(i)
  /\ body' = body \o LabelOf(i) \o <<Item("block", i)>> \o PlainBlock(i)
  /\ emitted' = emitted \cup {i}
  /\ i' = i + 1
  /\ UNCHANGED <<func, matches, pc, blocks, succ>>

Return ==
  /\ pc = "body"
  /\ i \notin DOMAIN blocks
  /\ pc' = "done"
  /\ UNCHANGED <<func, matches, blocks, succ, i, emitted, body>>

Ended == pc \in {"done", "panicked"} /\ UNCHANGED vars

Next ==
  \/ ExtractBlocks \/ Build \/ SkipBlock \/ EmitCondBlock \/ EmitPlainBlock \/ Return \/ Ended

Spec == Init /\ [][Next]_vars

-----------------------------------------------------------------------------
TypeOK ==
  /\ \A m \in matches : m \in [start : Nat, end : Nat]
  /\ pc \in {"recover", "build", "body", "done", "panicked"}
  /\ succ \in [DOMAIN blocks -> Seq(DOMAIN blocks)]
  /\ i \in 1 .. Len(blocks) + 1
  /\ emitted \subseteq DOMAIN blocks
  /\ body \in Seq([what : {"label", "block", "else", "goto"}, at : DOMAIN blocks]
                    \cup [what : {"expand", "if"}, at : matches])

CountIn(items, what, at) ==
  Cardinality({k \in DOMAIN items : items[k].what \in what /\ items[k].at = at})

Count(what, at) == CountIn(body, what, at)

Built == pc \in {"body", "done"}

(* BuildControlFlowGraph indexes an empty block, and the program dies of   *)
(* it, exactly when the entry point of the function is no address of its   *)
(* instruction stream, which takes a linear sweep that decoded across it.  *)
PanicsOnlyOffStream ==
  /\ pc = "panicked" => func.entry \notin Addresses(insts)
  /\ pc = "build" \/ Built => func.entry \in Addresses(insts)

(* The blocks tile the stream, in its order.                               *)
BlocksTile ==
  Built =>
    /\ blocks[1].first = 1
    /\ blocks[Len(blocks)].last = Len(insts)
    /\ \A b \in 1 .. Len(blocks) - 1 : blocks[b + 1].first = blocks[b].last + 1

(* Where control may be after instruction k, within the function.          *)
FlowsTo(k) ==
  {j \in DOMAIN insts :
     \/ insts[k].op \notin {"RET", "JMP"} /\ insts[j].addr = After(insts[k])
     \/ insts[k].op # "other" /\ insts[j].addr = insts[k].target}

(* Control enters a block at its first instruction only, and leaves it     *)
(* along its edges only; and every edge is a way control may go.           *)
EdgesAreTheFlow ==
  Built =>
    \A b \in DOMAIN blocks :
      LET inside == blocks[b].first .. blocks[b].last
          flow   == UNION {{<<k, j>> : j \in FlowsTo(k)} : k \in inside}
          away   == {e \in flow : e[2] # e[1] + 1 \/ e[2] \notin inside}
      IN  {blocks[s].first : s \in Range(succ[b])} = {e[2] : e \in away}

(* The graph of a function is its control flow, or the program dies of it. *)
BlocksAreTheFlow == PanicsOnlyOffStream /\ BlocksTile /\ EdgesAreTheFlow

(* Once the loop has run, every block of the function is in the body       *)
(* exactly once: at the top level or as the else branch of one if, though  *)
(* several conditional blocks may name it.                                 *)
EveryBlockOnce ==
  pc = "done" => \A b \in DOMAIN blocks : Count({"block", "else"}, b) = 1

(* A goto that buildCondBlock appends has its label in the body, once,     *)
(* though collectLabelUses chose the labels before any block was emitted   *)
(* and the block may be inlined in between. The Go compiler refuses a jump *)
(* to a label that is not defined.                                         *)
GotosHaveLabels ==
  pc = "done" =>
    \A b \in DOMAIN blocks : Count({"goto"}, b) > 0 => Count({"label"}, b) = 1

(* A label no goto names, which the Go compiler refuses, too, is left only *)
(* where the conditional blocks it was meant for all come behind it: the   *)
(* guess of collectLabelUses is wrong in no other way.                     *)
LabelsAreForElse ==
  pc = "done" =>
    \A b \in DOMAIN blocks :
      LET naming == {c \in DOMAIN blocks : IsCond(c) /\ ElseTarget(c) = b}
      IN  Count({"label"}, b) > 0 =>
            /\ naming # {}
            /\ Count({"goto"}, b) > 0 \/ \A c \in naming : c >= b

(* The jumps and labels of a body fit each other as far as the guess goes. *)
LabelsFitGotos == GotosHaveLabels /\ LabelsAreForElse

(* No match is expanded twice, nor expanded and used as a condition.       *)
MatchesOnce ==
  \A m \in matches : Count({"expand", "if"}, m) <= 1

=============================================================================
