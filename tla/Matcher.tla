------------------------------ MODULE Matcher ------------------------------
(***************************************************************************)
(* pattern/matcher/matcher.go: a Matcher is built over a pattern database  *)
(* (New), scans an instruction stream for raw matches (Match), stops the   *)
(* scan early when there are too many, and keeps a set of them that does   *)
(* not overlap (resolveConflicts).                                         *)
(*                                                                         *)
(* The loops of New and Match advance one iteration a step. A database is  *)
(* a sequence of patterns, a pattern the sequence of its alternatives, an  *)
(* alternative a sequence of pattern instructions (see PatternMatch).      *)
(***************************************************************************)
EXTENDS PatternMatch

CONSTANTS Streams,         \* the instruction streams Match is given
          Databases,       \* the pattern databases New is given
          Opcodes,         \* the opcodes in them, None included
          MaxRawMatches    \* 10000 in the code

VARIABLES
  instructions, patterns,  \* the input
  byOpcode,                \* opcode -> patterns, one entry per alternative
  pc,
  i, c, a,                 \* the instruction, the candidate (in "index", the
                           \* pattern) and the alternative the loops are at
  raw,                     \* allMatches
  pending,                 \* positions of raw that are not resolved yet
  kept                     \* positions of raw that are in occupied

vars == <<instructions, patterns, byOpcode, pc, i, c, a, raw, pending, kept>>

Instruction == [addr : Nat, size : Nat \ {0}, op : Opcodes, calls : SUBSET STRING,
                parts : Seq([kind : STRING, text : STRING,
                             base : STRING, off : STRING, dollar : BOOLEAN])]

Operand == [wild : BOOLEAN, imm : BOOLEAN, lit : STRING, reg : STRING,
            cap : STRING, base : STRING, off : STRING]

PatternInstruction == [op : Opcodes, label : STRING, operands : Seq(Operand)]

(* The disassembler sweeps a section forwards, so a stream is in address   *)
(* order; the functions it is filtered by may leave gaps in it.            *)
InStreamOrder(s) ==
  \A j, k \in DOMAIN s : j < k => s[j].addr + s[j].size <= s[k].addr

ASSUME StreamsAssumption ==
  \A s \in Streams :
    /\ s \in Seq(Instruction)
    /\ InStreamOrder(s)

(* The parser gives a label no opcode (parseInstructionPattern).           *)
ASSUME DatabasesAssumption ==
  \A db \in Databases :
    /\ db \in Seq(Seq(Seq(PatternInstruction)))
    /\ \A p \in DOMAIN db : \A b \in DOMAIN db[p] : \A k \in DOMAIN db[p][b] :
         db[p][b][k].label # None => db[p][b][k].op = None

ASSUME MaxRawMatchesAssumption == MaxRawMatches \in Nat \ {0}

ASSUME OpcodesAssumption == None \in Opcodes /\ Opcodes \subseteq STRING

Init ==
  /\ instructions \in Streams
  /\ patterns \in Databases
  /\ byOpcode = [op \in Opcodes |-> << >>]
  /\ pc = "index"
  /\ i = 1 /\ c = 1 /\ a = 1
  /\ raw = << >>
  /\ pending = {}
  /\ kept = {}

-----------------------------------------------------------------------------
(* New: every alternative that is not empty enters its pattern under its   *)
(* first opcode. A pattern with several alternatives that begin with the   *)
(* same opcode is entered several times.                                   *)

(* A fault: only the first alternative is entered.                         *)
IndexFirstOnly ==
  /\ pc = "index" /\ c \in DOMAIN patterns /\ a \in DOMAIN patterns[c]
  /\ byOpcode' = IF patterns[c][a] = << >> \/ a > 1 THEN byOpcode
                 ELSE [byOpcode EXCEPT ![patterns[c][a][1].op] = Append(@, c)]
  /\ a' = a + 1
  /\ UNCHANGED <<instructions, patterns, pc, i, c, raw, pending, kept>>

IndexAlternative ==
  /\ pc = "index"
  /\ c \in DOMAIN patterns
  /\ a \in DOMAIN patterns[c]
  /\ byOpcode' =
       IF patterns[c][a] = << >> THEN byOpcode
       ELSE [byOpcode EXCEPT ![patterns[c][a][1].op] = Append(@, c)]
  /\ a' = a + 1
  /\ UNCHANGED <<instructions, patterns, pc, i, c, raw, pending, kept>>

IndexNextPattern ==
  /\ pc = "index"
  /\ c \in DOMAIN patterns
  /\ a \notin DOMAIN patterns[c]
  /\ c' = c + 1
  /\ a' = 1
  /\ UNCHANGED <<instructions, patterns, byOpcode, pc, i, raw, pending, kept>>

StartScan ==
  /\ pc = "index"
  /\ c \notin DOMAIN patterns
  /\ pc' = "scan"
  /\ c' = 1 /\ a' = 1
  /\ UNCHANGED <<instructions, patterns, byOpcode, i, raw, pending, kept>>

-----------------------------------------------------------------------------
(* Match: the three loops of the scan.                                     *)

(* An instruction without an opcode has no candidates.                     *)
Candidates(k) ==
  IF instructions[k].op = None THEN << >> ELSE byOpcode[instructions[k].op]

RawMatch(p, b, k) ==
  LET hit == tryMatch(instructions, k, patterns[p][b])
  IN  [pattern |-> p, alternative |-> b, at |-> k,
       start   |-> instructions[k].addr,
       end     |-> instructions[hit.last].addr + instructions[hit.last].size,
       conf    |-> Confidence(patterns[p][b])]

Scanning == pc = "scan" /\ i \in DOMAIN instructions

(* A candidate's alternative that begins with another opcode, or that is   *)
(* empty, is not tried. The scan ends with the match that fills raw.       *)
TryAlternative ==
  /\ Scanning
  /\ c \in DOMAIN Candidates(i)
  /\ a \in DOMAIN patterns[Candidates(i)[c]]
  /\ LET p   == Candidates(i)[c]
         alt == patterns[p][a]
         hit == /\ alt # << >>
                /\ alt[1].op = instructions[i].op
                /\ tryMatch(instructions, i, alt).ok
     IN  raw' = IF hit THEN Append(raw, RawMatch(p, a, i)) ELSE raw
  /\ IF Len(raw') >= MaxRawMatches
     THEN pc' = "resolve" /\ pending' = DOMAIN raw'
     ELSE UNCHANGED <<pc, pending>>
  /\ a' = a + 1
  /\ UNCHANGED <<instructions, patterns, byOpcode, i, c, kept>>

(* A fault: the candidate loop does not advance.                           *)
SameCandidate ==
  /\ Scanning /\ c \in DOMAIN Candidates(i)
  /\ a \notin DOMAIN patterns[Candidates(i)[c]]
  /\ a' = 1
  /\ UNCHANGED <<instructions, patterns, byOpcode, pc, i, c, raw, pending, kept>>

NextCandidate ==
  /\ Scanning
  /\ c \in DOMAIN Candidates(i)
  /\ a \notin DOMAIN patterns[Candidates(i)[c]]
  /\ c' = c + 1
  /\ a' = 1
  /\ UNCHANGED <<instructions, patterns, byOpcode, pc, i, raw, pending, kept>>

NextInstruction ==
  /\ Scanning
  /\ c \notin DOMAIN Candidates(i)
  /\ i' = i + 1
  /\ c' = 1 /\ a' = 1
  /\ UNCHANGED <<instructions, patterns, byOpcode, pc, raw, pending, kept>>

EndScan ==
  /\ pc = "scan"
  /\ i \notin DOMAIN instructions
  /\ pc' = "resolve"
  /\ pending' = DOMAIN raw
  /\ UNCHANGED <<instructions, patterns, byOpcode, i, c, a, raw, kept>>

-----------------------------------------------------------------------------
(* resolveConflicts: the matches in the order of a sort that is not stable,*)
(* so any one no other outranks may come next; it is kept if it overlaps   *)
(* none that was.                                                          *)

(* Faults: overlaps are kept; the matches are not sorted.                  *)
ResolveKeeping(m) ==
  /\ pc = "resolve"
  /\ \A n \in pending : ~Outranks(raw[n], raw[m])
  /\ pending' = pending \ {m}
  /\ kept' = kept \cup {m}
  /\ UNCHANGED <<instructions, patterns, byOpcode, pc, i, c, a, raw>>

ResolveUnsorted(m) ==
  /\ pc = "resolve"
  /\ pending' = pending \ {m}
  /\ kept' = IF \E n \in kept : Overlap(raw[m], raw[n])
             THEN kept ELSE kept \cup {m}
  /\ UNCHANGED <<instructions, patterns, byOpcode, pc, i, c, a, raw>>

Resolve(m) ==
  /\ pc = "resolve"
  /\ \A n \in pending : ~Outranks(raw[n], raw[m])
  /\ pending' = pending \ {m}
  /\ kept' = IF \E n \in kept : Overlap(raw[m], raw[n])
             THEN kept ELSE kept \cup {m}
  /\ UNCHANGED <<instructions, patterns, byOpcode, pc, i, c, a, raw>>

(* A fault: the last matches are not looked at.                            *)
ReturnEarly ==
  /\ pc = "resolve"
  /\ pc' = "done"
  /\ UNCHANGED <<instructions, patterns, byOpcode, i, c, a, raw, pending, kept>>

Return ==
  /\ pc = "resolve"
  /\ pending = {}
  /\ pc' = "done"
  /\ UNCHANGED <<instructions, patterns, byOpcode, i, c, a, raw, pending, kept>>

Index == IndexAlternative \/ IndexNextPattern \/ StartScan

Scan == TryAlternative \/ NextCandidate \/ NextInstruction \/ EndScan

Returned == pc = "done" /\ UNCHANGED vars

Next == Index \/ Scan \/ (\E m \in pending : Resolve(m)) \/ Return \/ Returned

(* The program is sequential: while a step is left, it takes one. This is  *)
(* WF_vars(Next) with its ENABLED written out, which TLC takes too long to *)
(* evaluate through the folds of tryMatch; that a step is left in every    *)
(* state but the last is what its search for deadlocks shows.              *)
Fairness == []<>(pc = "done") \/ []<><<Next>>_vars

Spec == Init /\ [][Next]_vars /\ Fairness

-----------------------------------------------------------------------------
Matches == [pattern : Nat, alternative : Nat, at : Nat, start : Nat,
            end : Nat, conf : Int]

(* Type invariant of the loops of New, Match and resolveConflicts.         *)
TypeOK ==
  /\ instructions \in Streams
  /\ patterns \in Databases
  /\ byOpcode \in [Opcodes -> Seq(DOMAIN patterns)]
  /\ pc \in {"index", "scan", "resolve", "done"}
  /\ i \in Nat \ {0} /\ c \in Nat \ {0} /\ a \in Nat \ {0}
  /\ raw \in Seq(Matches)
  /\ pending \subseteq DOMAIN raw
  /\ kept \subseteq DOMAIN raw

(* No two of the matches resolveConflicts has kept cover a common address, *)
(* whatever the order an unstable sort put equals in.                      *)
NoOverlap == \A m, n \in kept : m # n => ~Overlap(raw[m], raw[n])

(* resolveConflicts drops a match only for one it keeps, that the dropped  *)
(* one overlaps and does not outrank: nothing is lost to a match that is   *)
(* itself dropped, and nothing to a worse one.                             *)
DroppedForABetterOne ==
  pc \in {"resolve", "done"} =>
    \A m \in DOMAIN raw \ (kept \cup pending) :
      \E n \in kept : Overlap(raw[m], raw[n]) /\ ~Outranks(raw[m], raw[n])

(* The index by first opcode loses nothing, and a scan that is cut short   *)
(* loses only what comes after: wherever an alternative that begins with   *)
(* an opcode matches before the instruction the scan stands at, the   *)
(* match was recorded.                                                     *)
ScanFindsEveryMatch ==
  pc # "index" =>
    \A k \in DOMAIN instructions, p \in DOMAIN patterns :
      \A b \in DOMAIN patterns[p] :
        (/\ k < i
         /\ patterns[p][b] # << >>
         /\ patterns[p][b][1].op # None
         /\ tryMatch(instructions, k, patterns[p][b]).ok)
          => \E m \in DOMAIN raw :
               raw[m].pattern = p /\ raw[m].alternative = b /\ raw[m].at = k

(* The address range of a match holds the instructions it matched and no   *)
(* other, also where it runs across a gap in the stream: the generator     *)
(* finds the instructions a match replaces by its range alone.             *)
RangeIsExact ==
  \A m \in DOMAIN raw :
    {k \in DOMAIN instructions : instructions[k].addr >= raw[m].start
                              /\ instructions[k].addr < raw[m].end}
    = raw[m].at .. (raw[m].at - 1 +
        Cardinality(Instructions(patterns[raw[m].pattern][raw[m].alternative])))

(* The plain captures of a match name one text each: where an alternative  *)
(* uses one capture in several operands, the instructions it matched hold  *)
(* the same operand in all of them, in the order of the alternative        *)
(* (immediates and memory operands of the pattern aside, which bind again).*)
(* Only an operand that begins with a $ takes a capture away from the text *)
(* it had, and the capture then names such an operand (matcher.go:281).    *)
PlainCapture(o) ==
  ~o.wild /\ ~o.imm /\ o.reg = None /\ o.base = None /\ o.cap # None

DollarTexts(k, size) ==
  UNION {{part.text : part \in {q \in Range(instructions[j].parts) : q.dollar}} :
         j \in k .. k + size - 1}

CapturesAgree ==
  \A m \in DOMAIN raw :
    LET body  == Body(patterns[raw[m].pattern][raw[m].alternative])
        binds == tryMatch(instructions, raw[m].at,
                   patterns[raw[m].pattern][raw[m].alternative]).binds
    IN  (\A k \in DOMAIN body : \A o \in DOMAIN body[k].operands :
           PlainCapture(body[k].operands[o]))
        => \A k \in DOMAIN body :
             /\ instructions[raw[m].at + k - 1].op = body[k].op
             /\ \E f \in [DOMAIN body[k].operands ->
                            DOMAIN instructions[raw[m].at + k - 1].parts] :
                  /\ \A o1, o2 \in DOMAIN f : o1 < o2 => f[o1] < f[o2]
                  /\ \A o \in DOMAIN f :
                       binds[body[k].operands[o].cap]
                         \in {instructions[raw[m].at + k - 1].parts[f[o]].text}
                               \union DollarTexts(raw[m].at, Len(body))

(* What a match says of itself is true: its address range and its captures. *)
MatchesAreTrue == RangeIsExact /\ CapturesAgree

(* Match returns on every input.                                           *)
Termination == <>(pc = "done")

(* Match gives its caller what MatchSelection promises: the kept matches,  *)
(* all at once, when it returns. No position is 0, so {0} is no result.    *)
Unresolved == {0}

Selection ==
  INSTANCE MatchSelection WITH result <- IF pc = "done" THEN kept ELSE Unresolved

SelectsMatches == Selection!Spec
=============================================================================
