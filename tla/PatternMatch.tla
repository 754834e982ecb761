---------------------------- MODULE PatternMatch ----------------------------
(***************************************************************************)
(* Matching one compiled alternative against the instruction stream at one *)
(* position: tryMatch and what it calls in pattern/matcher/matcher.go.     *)
(*                                                                         *)
(* A stream instruction is a record                                        *)
(*   addr, size : where it lies in .text                                   *)
(*   op         : its opcode, case folded; None if it has none             *)
(*   calls      : the CALL targets fuzzyMatchCall accepts for its syntax   *)
(*   parts      : its operands in Intel order, each                        *)
(*                [kind, text, base, off, dollar]                          *)
(*                kind "qual" (qword, ptr, ...), "mem", "imm" or "reg",    *)
(*                dollar whether the text begins with a $                  *)
(* A pattern instruction is [op, label, operands]; a label has op = None.  *)
(* A pattern operand is [wild, imm, lit, reg, cap, base, off]: the fields  *)
(* of evaluator.CompiledOperand the matcher could look at.                 *)
(* Texts are compared case folded, so they are plain strings here. The     *)
(* definitions called faults are mistakes the code does not make, kept to  *)
(* see that the properties would notice them.                              *)
(***************************************************************************)
EXTENDS SequencesExt

CONSTANT KnownRegs      \* the names isKnownReg accepts

None == ""

(* The float64 confidence, scaled by a number every operand count up to 10 *)
(* and the tenth of a point per instruction divide.                        *)
ConfUnit == 2520

Bind(binds, var, text) ==
  [x \in DOMAIN binds \cup {var} |-> IF x = var THEN text ELSE binds[x]]

NoBindings == [x \in {} |-> None]

Yes(binds) == [ok |-> TRUE,  binds |-> binds]
No(binds)  == [ok |-> FALSE, binds |-> binds]

(* A memory operand against a pattern operand with a base register: a known*)
(* register must be the base, any other name captures it, overwriting what *)
(* it was bound to.                                                        *)
bindMemoryOperand(part, pat, binds) ==
  LET based == IF pat.base \in KnownRegs THEN binds
                                         ELSE Bind(binds, pat.base, part.base)
  IN  IF part.base = None \/ (pat.base \in KnownRegs /\ part.base # pat.base)
      THEN No(binds)
      ELSE Yes(IF pat.off = None \/ part.off = None THEN based ELSE Bind(based, pat.off, part.off))

(* A fault: a capture that is bound is bound again.                        *)
RebindingOperand(part, pat, binds) ==
  IF part.dollar \/ pat.imm \/ (pat.reg # None /\ part.text = pat.reg)
  THEN Yes(IF pat.cap = None THEN binds ELSE Bind(binds, pat.cap, part.text))
  ELSE IF pat.cap = None THEN No(binds) ELSE Yes(Bind(binds, pat.cap, part.text))

(* Everything else. An immediate pattern accepts any operand; its literal  *)
(* is not looked at. An operand that begins with a $ is accepted by any    *)
(* pattern, a register or a bound capture too, and binds the capture anew. *)
(* Other operands must meet a bound capture with the same text.            *)
matchSingleOperand(part, pat, binds) ==
  IF part.dollar \/ pat.imm
  THEN Yes(IF pat.cap = None THEN binds ELSE Bind(binds, pat.cap, part.text))
  ELSE IF pat.reg # None /\ part.text = pat.reg THEN Yes(binds)
  ELSE IF pat.cap = None THEN No(binds)
  ELSE IF pat.cap \in DOMAIN binds
       THEN [ok |-> part.text = binds[pat.cap], binds |-> binds]
       ELSE Yes(Bind(binds, pat.cap, part.text))

(* One iteration of the operand loop. An operand that does not fit the     *)
(* pattern operand in turn is passed over, not refused.                    *)
OperandStep(pats, acc, part) ==
  LET pat == pats[acc.pi]
      hit == IF pat.base # None /\ part.kind = "mem"
             THEN bindMemoryOperand(part, pat, acc.binds)
             ELSE matchSingleOperand(part, pat, acc.binds)
  IN  IF acc.pi > Len(pats) THEN acc
      ELSE IF pat.wild THEN [acc EXCEPT !.pi = @ + 1]
      ELSE IF part.kind = "qual" THEN acc
      ELSE [pi |-> IF hit.ok THEN acc.pi + 1 ELSE acc.pi, binds |-> hit.binds]

(* The pattern operands must all be consumed, in order, by operands of the *)
(* instruction.                                                            *)
AfterOperands(inst, pats, binds) ==
  LET after[k \in 0 .. Len(inst.parts)] ==
        IF k = 0 THEN [pi |-> 1, binds |-> binds]
                 ELSE OperandStep(pats, after[k - 1], inst.parts[k])
  IN  after

matchOperands(inst, pats, binds) ==
  LET end == AfterOperands(inst, pats, binds)[Len(inst.parts)]
  IN  [ok |-> end.pi > Len(pats), binds |-> end.binds]

instructionMatches(inst, pat) ==
  /\ inst.op = pat.op
  /\ (/\ pat.op = "CALL"
      /\ pat.operands # << >>
      /\ pat.operands[1].cap # None)  => pat.operands[1].cap \in inst.calls

-----------------------------------------------------------------------------
(* Labels match nothing and consume nothing: what an alternative consumes  *)
(* is one instruction for each of its own.                                 *)
Instructions(alt) == {k \in DOMAIN alt : alt[k].label = None}

Body(alt) ==
  LET upto[k \in 0 .. Len(alt)] ==
        IF k = 0 THEN << >>
        ELSE IF alt[k].label = None THEN Append(upto[k - 1], alt[k]) ELSE upto[k - 1]
  IN  upto[Len(alt)]

EndsWithLabel(alt) == alt # << >> /\ alt[Len(alt)].label # None

(* The loop stops when the stream or the alternative is exhausted, and an  *)
(* alternative with anything left, a label included, did not match: one    *)
(* that ends with a label needs an instruction after its last one.         *)
Fits(insts, i, alt) ==
  i + Cardinality(Instructions(alt)) - 1 + (IF EndsWithLabel(alt) THEN 1 ELSE 0) <= Len(insts)

(* One iteration of the loop over the instructions of an alternative.      *)
InstructionStep(inst, pat, acc) ==
  IF ~acc.ok \/ ~instructionMatches(inst, pat) THEN No(acc.binds)
                                               ELSE matchOperands(inst, pat.operands, acc.binds)

AfterInstructions(insts, i, body) ==
  LET after[k \in 0 .. Len(body)] ==
        IF k = 0 THEN Yes(NoBindings)
                 ELSE InstructionStep(insts[i + k - 1], body[k], after[k - 1])
  IN  after

MatchBody(insts, i, body) == AfterInstructions(insts, i, body)[Len(body)]

OperandsOf(alt) == UNION {{k} \X DOMAIN alt[k].operands : k \in DOMAIN alt}

(* 1 - wildcards / operands + 0.1 per instruction, at most 1. The program  *)
(* rounds it to a float64, so it may split a tie this number keeps.        *)
Confidence(alt) ==
  LET operands == Cardinality(OperandsOf(alt))
      wilds    == Cardinality({o \in OperandsOf(alt) :
                                 alt[o[1]].operands[o[2]].wild})
      exact    == IF operands = 0 THEN ConfUnit
                  ELSE ConfUnit - (wilds * ConfUnit) \div operands
      raised   == exact + Cardinality(Instructions(alt)) * (ConfUnit \div 10)
  IN  IF raised > ConfUnit THEN ConfUnit ELSE raised

(* tryMatch: whether alt matches at i, with which bindings, and the last   *)
(* instruction it covers.                                                  *)
tryMatch(insts, i, alt) ==
  LET size == Cardinality(Instructions(alt))
      hit  == IF Fits(insts, i, alt) THEN MatchBody(insts, i, Body(alt))
                                     ELSE No(NoBindings)
  IN  [ok    |-> hit.ok,
       binds |-> hit.binds,
       last  |-> IF i + size - 1 < 1 THEN 1 ELSE i + size - 1]

-----------------------------------------------------------------------------
(* resolveConflicts: the half-open ranges of two matches meet; one comes   *)
(* strictly before the other in the sorted list.                           *)
Overlap(m, n) == m.start < n.end /\ m.end > n.start

Outranks(m, n) ==
  \/ m.conf > n.conf
  \/ m.conf = n.conf /\ m.end - m.start > n.end - n.start
=============================================================================
