--------------------------- MODULE MatcherProofs ---------------------------
(***************************************************************************)
(* Proofs about Matcher for every set of streams and databases: the type   *)
(* invariant, that the kept matches do not overlap, that none is dropped   *)
(* without a reason, and that Matcher implements MatchSelection.           *)
(***************************************************************************)
EXTENDS Matcher, FiniteSetTheorems, SequenceTheorems, WellFoundedInduction, TLAPS

(* A set of natural numbers that is not empty has a least one.               *)
LEMMA LeastOf ==
    ASSUME NEW U, U \subseteq Nat, U # {}
    PROVE  \E u \in U : \A v \in U : u <= v
<1> DEFINE R == {ss \in Nat \X Nat : ss[1] < ss[2]}
<1>1. IsWellFoundedOn(R, Nat)
  BY NatLessThanWellFounded DEF OpToRel
<1>2. \E u \in U : \A v \in U : ~(<<v, u>> \in R)
  <2> HIDE DEF R
  <2> QED
    BY <1>1, WFMin, Zenon
<1>3. PICK u \in U : \A v \in U : ~(<<v, u>> \in R)
  BY <1>2
<1>4. \A v \in U : ~(v < u)
  <2> SUFFICES ASSUME NEW v \in U, v < u PROVE FALSE
    OBVIOUS
  <2>1. v \in Nat /\ u \in Nat
    OBVIOUS
  <2>2. <<v, u>> \in R
    BY <2>1
  <2> QED
    BY <1>3, <2>2
<1> QED
  BY <1>4

(* A set that has 0, and with a number the next, has every number: the way   *)
(* the proofs below do induction.                                            *)
LEMMA SetInduction ==
    ASSUME NEW U, 0 \in U, \A n \in Nat : n \in U => n + 1 \in U
    PROVE  Nat \subseteq U
<1> SUFFICES ASSUME Nat \ U # {} PROVE FALSE
  OBVIOUS
<1>1. PICK u \in Nat \ U : \A v \in Nat \ U : u <= v
  BY LeastOf
<1>2. u # 0 /\ u - 1 \in Nat /\ u - 1 \in U
  BY <1>1
<1> QED
  BY <1>1, <1>2

-----------------------------------------------------------------------------
(* An alternative has finitely many instructions.                          *)
LEMMA InstructionsFinite ==
  ASSUME NEW alt \in Seq(PatternInstruction)
  PROVE  /\ IsFiniteSet(Instructions(alt))
         /\ Cardinality(Instructions(alt)) \in Nat
<1>1. IsFiniteSet(1 .. Len(alt))
  BY FS_Interval, LenProperties
<1>2. Instructions(alt) \in SUBSET (1 .. Len(alt))
  BY LenProperties DEF Instructions
<1>3. IsFiniteSet(Instructions(alt))
  BY <1>1, <1>2, FS_Subset
<1> QED
  BY <1>3, FS_CardinalityType

(* An alternative has finitely many operands.                              *)
LEMMA OperandsFinite ==
  ASSUME NEW alt \in Seq(PatternInstruction)
  PROVE  IsFiniteSet(OperandsOf(alt))
<1> DEFINE Of(k) == {k} \X DOMAIN alt[k].operands
           D == DOMAIN alt
           T == {Of(k) : k \in D}
           f == [k \in D |-> Of(k)]
<1>1. D = 1 .. Len(alt) /\ IsFiniteSet(D)
  BY FS_Interval, LenProperties
<1>2. \A k \in D : IsFiniteSet(Of(k))
  <2> SUFFICES ASSUME NEW k \in D PROVE IsFiniteSet(Of(k))
    OBVIOUS
  <2>1. alt[k] \in PatternInstruction
    BY <1>1, ElementOfSeq
  <2>2. alt[k].operands \in Seq(Operand)
    BY <2>1 DEF PatternInstruction
  <2>3. DOMAIN alt[k].operands = 1 .. Len(alt[k].operands) /\ Len(alt[k].operands) \in Nat
    BY <2>2, LenProperties
  <2>4. IsFiniteSet(DOMAIN alt[k].operands)
    BY <2>3, FS_Interval
  <2>5. IsFiniteSet({k})
    BY FS_Singleton
  <2> QED
    BY <2>4, <2>5, FS_Product
<1>3. f \in Surjection(D, T)
  BY DEF Surjection
<1>4. IsFiniteSet(T)
  BY <1>1, <1>3, FS_Surjection DEF ExistsSurjection
<1>5. IsFiniteSet(UNION T)
  BY <1>2, <1>4, FS_UNION
<1> QED
  BY <1>5 DEF OperandsOf

(* A confidence is an integer, so any two are comparable.                  *)
LEMMA ConfidenceType ==
  ASSUME NEW alt \in Seq(PatternInstruction)
  PROVE  Confidence(alt) \in Int
<1> DEFINE operands == Cardinality(OperandsOf(alt))
           W        == {o \in OperandsOf(alt) : alt[o[1]].operands[o[2]].wild}
           wilds    == Cardinality(W)
           size     == Cardinality(Instructions(alt))
<1>1. operands \in Nat
  BY OperandsFinite, FS_CardinalityType
<1>2. wilds \in Nat
  BY OperandsFinite, FS_Subset, FS_CardinalityType
<1>3. size \in Nat
  BY InstructionsFinite
<1> HIDE DEF operands, wilds, size
<1>4. ASSUME operands # 0 PROVE (wilds * ConfUnit) \div operands \in Int
  <2>1. wilds * ConfUnit \in Int /\ operands \in Int /\ operands > 0
    BY <1>1, <1>2, <1>4 DEF ConfUnit
  <2> HIDE DEF ConfUnit
  <2>2. \A u, v \in Int : v > 0 => u \div v \in Int
    OBVIOUS
  <2> QED
    BY <2>1, <2>2
<1>5. ConfUnit \in Int /\ ConfUnit \div 10 \in Int
  BY DEF ConfUnit
<1> DEFINE exact == IF operands = 0 THEN ConfUnit
                    ELSE ConfUnit - (wilds * ConfUnit) \div operands
<1>6. exact \in Int
  BY <1>4, <1>5
<1> HIDE DEF exact
<1>7. size * (ConfUnit \div 10) \in Int
  BY <1>3, <1>5 DEF ConfUnit
<1>8. \/ Confidence(alt) = ConfUnit
      \/ Confidence(alt) = exact + size * (ConfUnit \div 10)
  BY DEF Confidence, exact, operands, wilds, size
<1> QED
  BY <1>5, <1>6, <1>7, <1>8

(* What tryMatch covers ends inside the stream.                            *)
LEMMA LastInStream ==
  ASSUME NEW S, NEW insts \in Seq(S), NEW alt \in Seq(PatternInstruction),
         NEW k \in DOMAIN insts, tryMatch(insts, k, alt).ok
  PROVE  tryMatch(insts, k, alt).last \in DOMAIN insts
<1>1. Cardinality(Instructions(alt)) \in Nat
  BY InstructionsFinite
<1>2. Fits(insts, k, alt)
  BY DEF tryMatch, No
<1>3. DOMAIN insts = 1 .. Len(insts) /\ Len(insts) \in Nat
  BY LenProperties
<1> QED
  BY <1>1, <1>2, <1>3 DEF tryMatch, Fits

(* A raw match recorded by TryAlternative is well typed.                   *)
LEMMA RawMatchType ==
  ASSUME instructions \in Seq(Instruction),
         patterns \in Seq(Seq(Seq(PatternInstruction))),
         NEW p \in DOMAIN patterns, NEW b \in DOMAIN patterns[p],
         NEW k \in DOMAIN instructions,
         tryMatch(instructions, k, patterns[p][b]).ok
  PROVE  RawMatch(p, b, k) \in Matches
<1> DEFINE alt  == patterns[p][b]
           last == tryMatch(instructions, k, alt).last
<1>1. p \in Nat /\ patterns[p] \in Seq(Seq(PatternInstruction))
  BY LenProperties, ElementOfSeq
<1>2. b \in Nat /\ alt \in Seq(PatternInstruction)
  BY <1>1, LenProperties, ElementOfSeq
<1>3. k \in Nat /\ instructions[k] \in Instruction
  BY LenProperties, ElementOfSeq
<1>4. last \in DOMAIN instructions
  BY <1>2, LastInStream
<1>5. instructions[last] \in Instruction
  BY <1>4, LenProperties, ElementOfSeq
<1>6. Confidence(alt) \in Int
  BY <1>2, ConfidenceType
<1>7. instructions[k].addr \in Nat
  BY <1>3 DEF Instruction
<1> HIDE DEF last, alt
<1>8. instructions[last].addr \in Nat /\ instructions[last].size \in Nat
  BY <1>5 DEF Instruction
<1>9. instructions[last].addr + instructions[last].size \in Nat
  <2>1. \A x, y \in Nat : x + y \in Nat
    OBVIOUS
  <2> QED
    BY <1>8, <2>1, Zenon
<1> QED
  BY <1>1, <1>2, <1>3, <1>6, <1>7, <1>9 DEF RawMatch, Matches, last, alt

(* The input of a run is what the assumptions say of it.                   *)
LEMMA InputType ==
  ASSUME instructions \in Streams, patterns \in Databases
  PROVE  /\ instructions \in Seq(Instruction)
         /\ patterns \in Seq(Seq(Seq(PatternInstruction)))
BY StreamsAssumption, DatabasesAssumption

(* The candidates of an instruction are patterns of the database.          *)
LEMMA CandidateType ==
  ASSUME TypeOK, NEW k \in DOMAIN instructions, NEW d \in DOMAIN Candidates(k)
  PROVE  Candidates(k)[d] \in DOMAIN patterns
<1>1. instructions[k].op \in Opcodes
  <2>1. instructions \in Seq(Instruction)
    BY InputType DEF TypeOK
  <2>2. instructions[k] \in Instruction
    BY <2>1, LenProperties, ElementOfSeq
  <2> QED
    BY <2>2 DEF Instruction
<1>2. instructions[k].op # None
  BY DEF Candidates
<1>3. Candidates(k) = byOpcode[instructions[k].op]
  BY <1>2 DEF Candidates
<1>4. Candidates(k) \in Seq(DOMAIN patterns)
  BY <1>1, <1>3 DEF TypeOK
<1> QED
  BY <1>4, LenProperties, ElementOfSeq

(* Type correctness: what the loops index is there, and what they record is*)
(* a match (New, Match, resolveConflicts).                                 *)
THEOREM TypeCorrect == Spec => []TypeOK
<1>1. Init => TypeOK
  <2> SUFFICES ASSUME Init PROVE TypeOK
    OBVIOUS
  <2>1. byOpcode \in [Opcodes -> Seq(DOMAIN patterns)]
    BY EmptySeq DEF Init
  <2>2. raw \in Seq(Matches)
    BY EmptySeq DEF Init
  <2> QED
    BY <2>1, <2>2 DEF Init, TypeOK
<1>2. TypeOK /\ [Next]_vars => TypeOK'
  <2> SUFFICES ASSUME TypeOK, [Next]_vars PROVE TypeOK'
    OBVIOUS
  <2>0. /\ instructions \in Seq(Instruction)
        /\ patterns \in Seq(Seq(Seq(PatternInstruction)))
    BY InputType DEF TypeOK
  <2>1. CASE IndexAlternative
    <3>1. patterns[c] \in Seq(Seq(PatternInstruction))
      BY <2>0, <2>1, LenProperties, ElementOfSeq DEF IndexAlternative
    <3>2. patterns[c][a] \in Seq(PatternInstruction)
      BY <2>1, <3>1, LenProperties, ElementOfSeq DEF IndexAlternative
    <3>3. ASSUME patterns[c][a] # << >>
          PROVE  patterns[c][a][1].op \in Opcodes
      <4>1. 1 \in 1 .. Len(patterns[c][a])
        BY <3>2, <3>3, EmptySeq, LenProperties
      <4>2. patterns[c][a][1] \in PatternInstruction
        BY <3>2, <4>1, ElementOfSeq
      <4> QED
        BY <4>2 DEF PatternInstruction
    <3>4. byOpcode' \in [Opcodes -> Seq(DOMAIN patterns)]
      BY <2>1, <3>3, AppendProperties DEF IndexAlternative, TypeOK
    <3> QED
      BY <2>1, <3>4 DEF IndexAlternative, TypeOK
  <2>2. CASE IndexNextPattern
    BY <2>2 DEF IndexNextPattern, TypeOK
  <2>3. CASE StartScan
    BY <2>3 DEF StartScan, TypeOK
  <2>4. CASE TryAlternative
    <3> DEFINE p == Candidates(i)[c]
    <3>1. i \in DOMAIN instructions /\ p \in DOMAIN patterns /\ a \in DOMAIN patterns[p]
      BY <2>4, CandidateType DEF TryAlternative, Scanning
    <3>2. raw' = raw \/ (/\ tryMatch(instructions, i, patterns[p][a]).ok
                         /\ raw' = Append(raw, RawMatch(p, a, i)))
      BY <2>4 DEF TryAlternative
    <3>3. raw' \in Seq(Matches) /\ DOMAIN raw \subseteq DOMAIN raw'
      <4>1. CASE raw' = raw
        BY <4>1 DEF TypeOK
      <4>2. CASE /\ tryMatch(instructions, i, patterns[p][a]).ok
                 /\ raw' = Append(raw, RawMatch(p, a, i))
        <5>1. RawMatch(p, a, i) \in Matches
          BY <2>0, <3>1, <4>2, RawMatchType
        <5>2. raw' \in Seq(Matches) /\ Len(raw') = Len(raw) + 1
          BY <4>2, <5>1, AppendProperties DEF TypeOK
        <5> QED
          BY <5>2, LenProperties DEF TypeOK
      <4> QED
        BY <3>2, <4>1, <4>2
    <3>4. pending' \subseteq DOMAIN raw' /\ pc' \in {"scan", "resolve"}
      BY <2>4, <3>3 DEF TryAlternative, Scanning, TypeOK
    <3> QED
      BY <2>4, <3>3, <3>4 DEF TryAlternative, TypeOK
  <2>5. CASE NextCandidate
    BY <2>5 DEF NextCandidate, TypeOK
  <2>6. CASE NextInstruction
    BY <2>6 DEF NextInstruction, TypeOK
  <2>7. CASE EndScan
    BY <2>7 DEF EndScan, TypeOK
  <2>8. ASSUME NEW m \in pending, Resolve(m) PROVE TypeOK'
    BY <2>8 DEF Resolve, TypeOK
  <2>9. CASE Return
    BY <2>9 DEF Return, TypeOK
  <2>10. CASE UNCHANGED vars
    BY <2>10 DEF vars, TypeOK
  <2> QED
    BY <2>1, <2>2, <2>3, <2>4, <2>5, <2>6, <2>7, <2>8, <2>9, <2>10
       DEF Next, Index, Scan, Returned
<1> QED
  BY <1>1, <1>2, PTL DEF Spec

-----------------------------------------------------------------------------
(* What the proofs of the two properties of resolveConflicts add to them.  *)

(* Before it, nothing is kept and the scan has room for a match; after it, *)
(* nothing is pending.                                                     *)
Phases ==
  /\ pc \in {"index", "scan"} => kept = {} /\ pending = {} /\ Len(raw) < MaxRawMatches
  /\ pc = "done" => pending = {}

(* The walk goes down: no pending match comes before a kept one. This is   *)
(* why a kept match that a pending one overlaps is a reason to drop it.    *)
WalkDescends ==
  \A m \in pending, n \in kept : ~Outranks(raw[m], raw[n])

ResolveInv == TypeOK /\ Phases /\ WalkDescends /\ NoOverlap /\ DroppedForABetterOne

(* Two matches overlap each other.                                         *)
LEMMA OverlapSymmetric ==
  ASSUME NEW m \in Matches, NEW n \in Matches
  PROVE  Overlap(m, n) <=> Overlap(n, m)
BY DEF Overlap, Matches

(* Before New has read its first pattern there is nothing to say.          *)
LEMMA ResolveInvInit == Init => Phases /\ WalkDescends /\ NoOverlap /\ DroppedForABetterOne
BY MaxRawMatchesAssumption
   DEF Init, Phases, WalkDescends, NoOverlap, DroppedForABetterOne

(* Every action preserves the invariant; Resolve is the one that works for *)
(* it, and Return finds nothing pending.                                   *)
LEMMA ResolveInvStep ==
  ASSUME ResolveInv, [Next]_vars, TypeOK'
  PROVE  (Phases /\ WalkDescends /\ NoOverlap /\ DroppedForABetterOne)'
<1> USE DEF ResolveInv
<1>1. CASE IndexAlternative
  BY <1>1 DEF IndexAlternative, Phases, WalkDescends, NoOverlap, DroppedForABetterOne
<1>2. CASE IndexNextPattern
  BY <1>2 DEF IndexNextPattern, Phases, WalkDescends, NoOverlap, DroppedForABetterOne
<1>3. CASE StartScan
  BY <1>3 DEF StartScan, Phases, WalkDescends, NoOverlap, DroppedForABetterOne
<1>4. CASE TryAlternative
  <2>1. kept = {} /\ kept' = {} /\ pc = "scan"
    BY <1>4 DEF TryAlternative, Scanning, Phases
  <2>2. CASE Len(raw') >= MaxRawMatches
    <3>1. pc' = "resolve" /\ pending' = DOMAIN raw'
      BY <1>4, <2>2 DEF TryAlternative
    <3> QED
      BY <2>1, <3>1 DEF Phases, WalkDescends, NoOverlap, DroppedForABetterOne
  <2>3. CASE ~(Len(raw') >= MaxRawMatches)
    <3>1. pc' = pc /\ pending' = pending
      BY <1>4, <2>3 DEF TryAlternative
    <3>2. Len(raw') < MaxRawMatches
      BY <2>3, MaxRawMatchesAssumption, LenProperties DEF TypeOK
    <3> QED
      BY <2>1, <3>1, <3>2 DEF Phases, WalkDescends, NoOverlap, DroppedForABetterOne
  <2> QED
    BY <2>2, <2>3
<1>5. CASE NextCandidate
  BY <1>5 DEF NextCandidate, Phases, WalkDescends, NoOverlap, DroppedForABetterOne
<1>6. CASE NextInstruction
  BY <1>6 DEF NextInstruction, Phases, WalkDescends, NoOverlap, DroppedForABetterOne
<1>7. CASE EndScan
  BY <1>7 DEF EndScan, Phases, WalkDescends, NoOverlap, DroppedForABetterOne
<1>8. ASSUME NEW m \in pending, Resolve(m)
      PROVE  (Phases /\ WalkDescends /\ NoOverlap /\ DroppedForABetterOne)'
  <2>1. pc = "resolve" /\ pc' = "resolve" /\ raw' = raw /\ pending' = pending \ {m}
    BY <1>8 DEF Resolve
  <2>2. \A n \in pending : ~Outranks(raw[n], raw[m])
    BY <1>8 DEF Resolve
  <2>3. \A n \in DOMAIN raw : raw[n] \in Matches
    BY LenProperties, ElementOfSeq DEF TypeOK
  <2>4. m \in DOMAIN raw
    BY DEF TypeOK
  <2>5. CASE \E n \in kept : Overlap(raw[m], raw[n])
    <3>1. kept' = kept
      BY <1>8, <2>5 DEF Resolve
    <3>2. PICK n \in kept : Overlap(raw[m], raw[n])
      BY <2>5
    <3>3. ~Outranks(raw[m], raw[n])
      BY <3>2 DEF WalkDescends
    <3>4. DroppedForABetterOne'
      BY <2>1, <3>1, <3>2, <3>3 DEF DroppedForABetterOne
    <3> QED
      BY <2>1, <3>1, <3>4 DEF Phases, WalkDescends, NoOverlap
  <2>6. CASE ~ \E n \in kept : Overlap(raw[m], raw[n])
    <3>1. kept' = kept \cup {m}
      BY <1>8, <2>6 DEF Resolve
    <3>2. \A n \in kept : ~Overlap(raw[m], raw[n]) /\ ~Overlap(raw[n], raw[m])
      BY <2>3, <2>4, <2>6, OverlapSymmetric DEF TypeOK
    <3>3. NoOverlap'
      BY <2>1, <3>1, <3>2 DEF NoOverlap
    <3>4. WalkDescends'
      BY <2>1, <2>2, <3>1 DEF WalkDescends
    <3>5. DroppedForABetterOne'
      BY <2>1, <3>1 DEF DroppedForABetterOne
    <3> QED
      BY <2>1, <3>3, <3>4, <3>5 DEF Phases
  <2> QED
    BY <2>5, <2>6
<1>9. CASE Return
  BY <1>9 DEF Return, Phases, WalkDescends, NoOverlap, DroppedForABetterOne
<1>10. CASE UNCHANGED vars
  BY <1>10 DEF vars, Phases, WalkDescends, NoOverlap, DroppedForABetterOne
<1> QED
  BY <1>1, <1>2, <1>3, <1>4, <1>5, <1>6, <1>7, <1>8, <1>9, <1>10
     DEF Next, Index, Scan, Returned

(* The invariant of resolveConflicts holds of every run of Match.          *)
LEMMA ResolveInvariant == Spec => []ResolveInv
<1>1. Init /\ TypeOK => ResolveInv
  BY ResolveInvInit DEF ResolveInv
<1>2. ResolveInv /\ [Next]_vars /\ TypeOK' => ResolveInv'
  BY ResolveInvStep DEF ResolveInv
<1> QED
  BY <1>1, <1>2, TypeCorrect, PTL DEF Spec

(* resolveConflicts returns matches that share no address, for every order *)
(* its unstable sort can leave equal matches in.                           *)
THEOREM KeptMatchesDisjoint == Spec => []NoOverlap
<1>1. ResolveInv => NoOverlap
  BY DEF ResolveInv
<1> QED
  BY <1>1, ResolveInvariant, PTL

(* resolveConflicts drops a match only for one it keeps and that the       *)
(* dropped one does not outrank.                                           *)
THEOREM DropsAreJustified == Spec => []DroppedForABetterOne
<1>1. ResolveInv => DroppedForABetterOne
  BY DEF ResolveInv
<1> QED
  BY <1>1, ResolveInvariant, PTL

-----------------------------------------------------------------------------
(* The scan and the walk are one Select of MatchSelection: Match adds raw  *)
(* matches one by one and then returns a set of them in one step.          *)
THEOREM ImplementsSelection == Spec => SelectsMatches
<1> DEFINE result == IF pc = "done" THEN kept ELSE Unresolved
<1>1. Init => Selection!Init
  BY DEF Init, Selection!Init
<1>2. ResolveInv /\ [Next]_vars /\ ResolveInv' => [Selection!Next]_Selection!vars
  <2> SUFFICES ASSUME ResolveInv, [Next]_vars, ResolveInv'
               PROVE  Selection!Next \/ (raw' = raw /\ result' = result)
    BY DEF Selection!vars
  <2>1. CASE IndexAlternative \/ IndexNextPattern \/ StartScan \/ NextCandidate
             \/ NextInstruction \/ EndScan \/ (\E m \in pending : Resolve(m))
    BY <2>1 DEF IndexAlternative, IndexNextPattern, StartScan, NextCandidate,
                NextInstruction, EndScan, Resolve, Scanning
  <2>2. CASE TryAlternative
    <3>1. result = Unresolved /\ result' = Unresolved
      BY <2>2 DEF TryAlternative, Scanning
    <3>2. Len(raw) < MaxRawMatches
      BY <2>2 DEF TryAlternative, Scanning, ResolveInv, Phases
    <3>3. PICK match : raw' = raw \/ raw' = Append(raw, match)
      BY <2>2 DEF TryAlternative
    <3>4. CASE raw' = raw
      BY <3>1, <3>4
    <3>5. CASE raw' = Append(raw, match)
      <4>1. /\ Len(raw') = Len(raw) + 1
            /\ \A k \in DOMAIN raw : raw'[k] = raw[k]
        BY <3>5, LenProperties DEF ResolveInv, TypeOK
      <4> QED
        BY <3>1, <3>2, <4>1 DEF Selection!Next, Selection!Find
    <3> QED
      BY <3>3, <3>4, <3>5
  <2>3. CASE Return
    <3>1. /\ pc = "resolve" /\ pc' = "done"
          /\ raw' = raw /\ kept' = kept /\ pending = {}
      BY <2>3 DEF Return
    <3>2. result = Unresolved /\ result' = kept
      BY <3>1
    <3>3. kept \in SUBSET DOMAIN raw
      BY DEF ResolveInv, TypeOK
    <3>4. Selection!Disjoint(kept)
      BY DEF Selection!Disjoint, ResolveInv, NoOverlap, Selection!Overlap, Overlap
    <3>5. Selection!Justified(kept)
      <4>1. \A m \in DOMAIN raw \ kept :
              \E n \in kept : Overlap(raw[m], raw[n]) /\ ~Outranks(raw[m], raw[n])
        BY <3>1 DEF ResolveInv, DroppedForABetterOne
      <4> QED
        BY <4>1 DEF Selection!Justified, Selection!Overlap, Overlap,
                    Selection!Outranks, Outranks
    <3> QED
      BY <3>1, <3>2, <3>3, <3>4, <3>5 DEF Selection!Next, Selection!Select
  <2>4. CASE UNCHANGED vars
    BY <2>4 DEF vars
  <2> QED
    BY <2>1, <2>2, <2>3, <2>4 DEF Next, Index, Scan, Returned
<1> QED
  BY <1>1, <1>2, ResolveInvariant, PTL DEF Spec, SelectsMatches, Selection!Spec
-----------------------------------------------------------------------------
(* The loops of matchOperands and tryMatch, as they are unrolled.          *)

(* matchOperands is at its start before the first part, and every part     *)
(* takes one step.                                                         *)
LEMMA OperandsUnrolled ==
  ASSUME NEW inst, Len(inst.parts) \in Nat, NEW pats, NEW binds
  PROVE  /\ AfterOperands(inst, pats, binds)[0] = [pi |-> 1, binds |-> binds]
         /\ \A k \in 1 .. Len(inst.parts) :
              AfterOperands(inst, pats, binds)[k] =
                OperandStep(pats, AfterOperands(inst, pats, binds)[k - 1], inst.parts[k])
<1> DEFINE start == [pi |-> 1, binds |-> binds]
           IsRun(f, n) ==
             f = [k \in 0 .. n |-> IF k = 0 THEN start
                                   ELSE OperandStep(pats, f[k - 1], inst.parts[k])]
           U == {n \in Nat : \E f : IsRun(f, n)}
           last == Len(inst.parts)
<1>1. AfterOperands(inst, pats, binds) = CHOOSE f : IsRun(f, last)
  BY DEF AfterOperands
<1>2. 0 \in U
  <2> DEFINE f == [k \in 0 .. 0 |-> start]
  <2>1. IsRun(f, 0)
    OBVIOUS
  <2> HIDE DEF IsRun, f
  <2> QED
    BY <2>1
<1>3. ASSUME NEW n \in Nat, n \in U PROVE n + 1 \in U
  <2>1. PICK f : IsRun(f, n)
    BY <1>3
  <2> DEFINE g == [k \in 0 .. n + 1 |->
                     IF k = n + 1 THEN OperandStep(pats, f[n], inst.parts[n + 1]) ELSE f[k]]
  <2>2. IsRun(g, n + 1)
    <3> HIDE DEF start
    <3> QED
      BY <2>1
  <2> HIDE DEF IsRun, g
  <2> QED
    BY <2>2
<1>4. last \in U
  <2> HIDE DEF U
  <2>1. Nat \subseteq U
    BY <1>2, <1>3, SetInduction
  <2> QED
    BY <2>1
<1>5. IsRun(CHOOSE f : IsRun(f, last), last)
  <2> HIDE DEF IsRun
  <2> QED
    BY <1>4, Zenon
<1> DEFINE run == AfterOperands(inst, pats, binds)
<1>6. IsRun(run, last)
  <2> HIDE DEF IsRun
  <2> QED
    BY <1>1, <1>5, Zenon
<1>7. \A k \in 0 .. last :
        run[k] = IF k = 0 THEN start ELSE OperandStep(pats, run[k - 1], inst.parts[k])
  <2> HIDE DEF run, start
  <2> QED
    BY <1>6
<1> HIDE DEF run, start
<1>8. run[0] = start /\ \A k \in 1 .. last : run[k] = OperandStep(pats, run[k - 1], inst.parts[k])
  BY <1>7
<1> QED
  BY <1>8 DEF run, start

(* So does the loop over the instructions of an alternative.               *)
LEMMA InstructionsUnrolled ==
  ASSUME NEW insts, NEW at, NEW body, Len(body) \in Nat
  PROVE  /\ AfterInstructions(insts, at, body)[0] = Yes(NoBindings)
         /\ \A k \in 1 .. Len(body) :
              AfterInstructions(insts, at, body)[k] =
                InstructionStep(insts[at + k - 1], body[k],
                                AfterInstructions(insts, at, body)[k - 1])
<1> DEFINE IsRun(f, n) ==
             f = [k \in 0 .. n |-> IF k = 0 THEN Yes(NoBindings)
                                   ELSE InstructionStep(insts[at + k - 1], body[k], f[k - 1])]
           U == {n \in Nat : \E f : IsRun(f, n)}
           last == Len(body)
<1>1. AfterInstructions(insts, at, body) = CHOOSE f : IsRun(f, last)
  BY DEF AfterInstructions
<1>2. 0 \in U
  <2> DEFINE f == [k \in 0 .. 0 |-> Yes(NoBindings)]
  <2>1. IsRun(f, 0)
    OBVIOUS
  <2> HIDE DEF IsRun, f
  <2> QED
    BY <2>1
<1>3. ASSUME NEW n \in Nat, n \in U PROVE n + 1 \in U
  <2>1. PICK f : IsRun(f, n)
    BY <1>3
  <2> DEFINE g == [k \in 0 .. n + 1 |->
                     IF k = n + 1
                     THEN InstructionStep(insts[at + (n + 1) - 1], body[n + 1], f[n])
                     ELSE f[k]]
  <2>2. IsRun(g, n + 1)
    BY <2>1
  <2> HIDE DEF IsRun, g
  <2> QED
    BY <2>2
<1>4. last \in U
  <2> HIDE DEF U
  <2>1. Nat \subseteq U
    BY <1>2, <1>3, SetInduction
  <2> QED
    BY <2>1
<1>5. IsRun(CHOOSE f : IsRun(f, last), last)
  <2> HIDE DEF IsRun
  <2> QED
    BY <1>4, Zenon
<1> DEFINE run == AfterInstructions(insts, at, body)
<1>6. IsRun(run, last)
  <2> HIDE DEF IsRun
  <2> QED
    BY <1>1, <1>5, Zenon
<1>7. \A k \in 0 .. last :
        run[k] = IF k = 0 THEN Yes(NoBindings)
                 ELSE InstructionStep(insts[at + k - 1], body[k], run[k - 1])
  <2> HIDE DEF run
  <2> QED
    BY <1>6
<1> HIDE DEF run
<1>8. /\ run[0] = Yes(NoBindings)
      /\ \A k \in 1 .. last :
           run[k] = InstructionStep(insts[at + k - 1], body[k], run[k - 1])
  BY <1>7
<1> QED
  BY <1>8 DEF run

(* tryMatch gives up at the first instruction that does not match: where   *)
(* it did not, every instruction matched, with the bindings so far.        *)
LEMMA EveryInstructionMatched ==
  ASSUME NEW insts, NEW at, NEW body, Len(body) \in Nat, MatchBody(insts, at, body).ok
  PROVE  \A k \in 1 .. Len(body) :
           /\ instructionMatches(insts[at + k - 1], body[k])
           /\ matchOperands(insts[at + k - 1], body[k].operands,
                            AfterInstructions(insts, at, body)[k - 1].binds).ok
           /\ AfterInstructions(insts, at, body)[k] =
                matchOperands(insts[at + k - 1], body[k].operands,
                              AfterInstructions(insts, at, body)[k - 1].binds)
<1> DEFINE after == AfterInstructions(insts, at, body)
           n == Len(body)
           U == {d \in Nat : d <= n => after[n - d].ok}
<1>1. \A k \in 1 .. n : after[k] = InstructionStep(insts[at + k - 1], body[k], after[k - 1])
  BY InstructionsUnrolled
<1>2. \A k \in 1 .. n : after[k].ok =>
        /\ after[k - 1].ok
        /\ instructionMatches(insts[at + k - 1], body[k])
        /\ after[k] = matchOperands(insts[at + k - 1], body[k].operands, after[k - 1].binds)
  <2> HIDE DEF after
  <2> SUFFICES ASSUME NEW k \in 1 .. n, after[k].ok
               PROVE  /\ after[k - 1].ok
                      /\ instructionMatches(insts[at + k - 1], body[k])
                      /\ after[k] = matchOperands(insts[at + k - 1], body[k].operands, after[k - 1].binds)
    OBVIOUS
  <2>1. after[k] = InstructionStep(insts[at + k - 1], body[k], after[k - 1])
    BY <1>1
  <2>2. ~No(after[k - 1].binds).ok
    BY DEF No
  <2> QED
    BY <2>1, <2>2, Zenon DEF InstructionStep
<1>3. 0 \in U
  BY DEF MatchBody
<1>4. ASSUME NEW d \in Nat, d \in U PROVE d + 1 \in U
  <2> HIDE DEF after
  <2> SUFFICES ASSUME d + 1 <= n PROVE after[n - (d + 1)].ok
    OBVIOUS
  <2>1. after[n - d].ok /\ n - d \in 1 .. n /\ n - (d + 1) = (n - d) - 1
    BY <1>4
  <2> QED
    BY <1>2, <2>1
<1>5. \A k \in 0 .. n : after[k].ok
  <2> HIDE DEF after
  <2>1. Nat \subseteq U
    <3> HIDE DEF U
    <3> QED
      BY <1>3, <1>4, SetInduction
  <2> SUFFICES ASSUME NEW k \in 0 .. n PROVE after[k].ok
    OBVIOUS
  <2>2. n - k \in Nat /\ n - k <= n /\ n - (n - k) = k
    OBVIOUS
  <2> QED
    BY <2>1, <2>2
<1> QED
  BY <1>2, <1>5
-----------------------------------------------------------------------------
(* The loop that lists the instructions of an alternative, unrolled.       *)
Lists(f, alt) ==
  /\ f[0] = << >>
  /\ \A k \in 1 .. Len(alt) :
       f[k] = IF alt[k].label = None THEN Append(f[k - 1], alt[k]) ELSE f[k - 1]
  /\ Body(alt) = f[Len(alt)]

(* It is, for every alternative.                                           *)
LEMMA BodyUnrolled ==
  ASSUME NEW alt, Len(alt) \in Nat
  PROVE  \E f : Lists(f, alt)
<1> DEFINE next(old, k) == IF alt[k].label = None THEN Append(old, alt[k]) ELSE old
           IsRun(f, n) == f = [k \in 0 .. n |-> IF k = 0 THEN << >> ELSE next(f[k - 1], k)]
           U == {n \in Nat : \E f : IsRun(f, n)}
           last == Len(alt)
           run == CHOOSE f : IsRun(f, last)
<1>1. Body(alt) = run[last]
  BY DEF Body
<1>2. 0 \in U
  <2> DEFINE f == [k \in 0 .. 0 |-> << >>]
  <2>1. IsRun(f, 0)
    OBVIOUS
  <2> HIDE DEF IsRun, f
  <2> QED
    BY <2>1
<1>3. ASSUME NEW n \in Nat, n \in U PROVE n + 1 \in U
  <2>1. PICK f : IsRun(f, n)
    BY <1>3
  <2> DEFINE g == [k \in 0 .. n + 1 |-> IF k = n + 1 THEN next(f[n], n + 1) ELSE f[k]]
  <2>2. IsRun(g, n + 1)
    <3> HIDE DEF next
    <3> QED
      BY <2>1
  <2> HIDE DEF IsRun, g
  <2> QED
    BY <2>2
<1>4. last \in U
  <2> HIDE DEF U
  <2>1. Nat \subseteq U
    BY <1>2, <1>3, SetInduction
  <2> QED
    BY <2>1
<1>5. IsRun(run, last)
  <2> HIDE DEF IsRun
  <2> QED
    BY <1>4, Zenon
<1>6. \A k \in 0 .. last : run[k] = IF k = 0 THEN << >> ELSE next(run[k - 1], k)
  <2> HIDE DEF run, next
  <2> QED
    BY <1>5
<1> HIDE DEF run
<1>7. run[0] = << >> /\ \A k \in 1 .. last : run[k] = next(run[k - 1], k)
  <2> HIDE DEF next
  <2> QED
    BY <1>6
<1>8. Lists(run, alt)
  BY <1>1, <1>7 DEF Lists
<1> QED
  BY <1>8

(* Body lists the instructions of an alternative in their order: the first *)
(* of them is the first of the alternative unless that is a label.         *)
LEMMA BodyLists ==
  ASSUME NEW alt \in Seq(PatternInstruction)
  PROVE  /\ Body(alt) \in Seq(PatternInstruction)
         /\ Len(Body(alt)) = Cardinality(Instructions(alt))
         /\ alt # << >> /\ alt[1].label = None =>
              Len(Body(alt)) >= 1 /\ Body(alt)[1] = alt[1]
<1> DEFINE n == Len(alt)
           Upto(k) == {j \in Instructions(alt) : j <= k}
<1>1. n \in Nat /\ DOMAIN alt = 1 .. n /\ \A k \in 1 .. n : alt[k] \in PatternInstruction
  BY LenProperties, ElementOfSeq
<1>2. PICK f : Lists(f, alt)
  BY <1>1, BodyUnrolled
<1>3. /\ f[0] = << >>
      /\ \A k \in 1 .. n :
           f[k] = IF alt[k].label = None THEN Append(f[k - 1], alt[k]) ELSE f[k - 1]
      /\ Body(alt) = f[n]
  BY <1>2 DEF Lists
<1>4. IsFiniteSet(Instructions(alt)) /\ \A k \in Instructions(alt) : k \in 1 .. n
  BY <1>1, InstructionsFinite DEF Instructions
<1> DEFINE Good(k) == /\ f[k] \in Seq(PatternInstruction)
                      /\ Len(f[k]) = Cardinality(Upto(k))
                      /\ k >= 1 /\ alt[1].label = None => Len(f[k]) >= 1 /\ f[k][1] = alt[1]
           U == {k \in Nat : k <= n => Good(k)}
<1>5. 0 \in U
  <2>1. Upto(0) = {}
    BY <1>4
  <2>2. Cardinality(Upto(0)) = 0
    BY <2>1, FS_EmptySet
  <2>3. f[0] \in Seq(PatternInstruction) /\ Len(f[0]) = 0
    <3>1. << >> \in Seq(PatternInstruction) /\ Len(<< >>) = 0
      OBVIOUS
    <3> QED
      BY <1>3, <3>1
  <2> HIDE DEF Upto
  <2> QED
    BY <2>2, <2>3
<1>6. ASSUME NEW k \in Nat, k \in U PROVE k + 1 \in U
  <2> SUFFICES ASSUME k + 1 <= n PROVE Good(k + 1)
    OBVIOUS
  <2>1. Good(k) /\ k + 1 \in 1 .. n /\ (k + 1) - 1 = k
    BY <1>1, <1>6
  <2>2. IsFiniteSet(Upto(k)) /\ k + 1 \notin Upto(k) /\ Cardinality(Upto(k)) \in Nat
    BY <1>4, FS_Subset, FS_CardinalityType
  <2>3. CASE alt[k + 1].label = None
    <3>1. f[k + 1] = Append(f[k], alt[k + 1])
      BY <1>3, <2>1, <2>3
    <3>2. /\ f[k + 1] \in Seq(PatternInstruction) /\ Len(f[k + 1]) = Len(f[k]) + 1
          /\ Len(f[k]) \in Nat
          /\ \A j \in 1 .. Len(f[k]) : f[k + 1][j] = f[k][j]
          /\ f[k + 1][Len(f[k]) + 1] = alt[k + 1]
      <4>1. PICK q, x : q = f[k] /\ x = alt[k + 1]
        OBVIOUS
      <4>2. q \in Seq(PatternInstruction) /\ x \in PatternInstruction
        BY <1>1, <2>1, <4>1
      <4>3. /\ Append(q, x) \in Seq(PatternInstruction) /\ Len(Append(q, x)) = Len(q) + 1
            /\ Len(q) \in Nat
            /\ \A j \in 1 .. Len(q) : Append(q, x)[j] = q[j]
            /\ Append(q, x)[Len(q) + 1] = x
        BY <4>2
      <4>4. f[k + 1] = Append(q, x)
        BY <3>1, <4>1
      <4> HIDE DEF Upto
      <4> QED
        BY <4>1, <4>3, <4>4
    <3>3. Upto(k + 1) = Upto(k) \cup {k + 1}
      <4>1. k + 1 \in Instructions(alt)
        BY <1>1, <2>1, <2>3 DEF Instructions
      <4> QED
        BY <1>4, <4>1
    <3>4. Cardinality(Upto(k + 1)) = Cardinality(Upto(k)) + 1
      <4> HIDE DEF Upto
      <4> QED
        BY <2>2, <3>3, FS_AddElement
    <3>5. ASSUME alt[1].label = None PROVE Len(f[k + 1]) >= 1 /\ f[k + 1][1] = alt[1]
      <4>1. CASE k = 0
        <5>1. Len(f[k]) = 0
          BY <1>3, <4>1
        <5> QED
          BY <3>2, <4>1, <5>1
      <4>2. CASE k # 0
        <5>1. Len(f[k]) >= 1 /\ f[k][1] = alt[1]
          BY <2>1, <3>5, <4>2
        <5> QED
          BY <3>2, <5>1
      <4> QED
        BY <4>1, <4>2
    <3> HIDE DEF Upto
    <3> QED
      BY <2>1, <3>2, <3>4, <3>5
  <2>4. CASE alt[k + 1].label # None
    <3>1. f[k + 1] = f[k]
      BY <1>3, <2>1, <2>4
    <3>2. Upto(k + 1) = Upto(k)
      <4>1. k + 1 \notin Instructions(alt)
        BY <2>4 DEF Instructions
      <4> QED
        BY <1>4, <4>1
    <3>3. alt[1].label = None => k # 0
      BY <2>4
    <3> HIDE DEF Upto
    <3> QED
      BY <2>1, <3>1, <3>2, <3>3
  <2> QED
    BY <2>3, <2>4
<1>7. Good(n)
  <2> HIDE DEF U, Good
  <2>1. Nat \subseteq U
    BY <1>5, <1>6, SetInduction
  <2> QED
    BY <1>1, <2>1 DEF U
<1>8. Upto(n) = Instructions(alt)
  BY <1>1, <1>4
<1>9. alt # << >> => n >= 1
  BY <1>1, EmptySeq
<1> HIDE DEF Upto
<1> QED
  BY <1>3, <1>7, <1>8, <1>9

(* Where an alternative that begins with an instruction matches, the       *)
(* stream has that instruction's opcode there.                             *)
LEMMA FirstOpcodeMatches ==
  ASSUME NEW insts, NEW alt \in Seq(PatternInstruction), NEW at \in Nat,
         alt # << >>, alt[1].label = None, tryMatch(insts, at, alt).ok
  PROVE  insts[at].op = alt[1].op
<1>1. /\ Len(Body(alt)) \in Nat /\ Len(Body(alt)) >= 1 /\ Body(alt)[1] = alt[1]
  BY BodyLists, LenProperties
<1>2. MatchBody(insts, at, Body(alt)).ok
  BY DEF tryMatch, No
<1>3. instructionMatches(insts[at + 1 - 1], Body(alt)[1])
  BY <1>1, <1>2, EveryInstructionMatched
<1>4. at + 1 - 1 = at
  OBVIOUS
<1> QED
  BY <1>1, <1>3, <1>4 DEF instructionMatches

-----------------------------------------------------------------------------
(* What the index and the scan have done so far.                           *)

(* Every alternative that New has seen is in the index.                    *)
Entered(p, b) ==
  patterns[p][b] # << >> =>
    \E d \in DOMAIN byOpcode[patterns[p][b][1].op] : byOpcode[patterns[p][b][1].op][d] = p

Indexed ==
  \A p \in DOMAIN patterns : \A b \in DOMAIN patterns[p] :
    (pc # "index" \/ p < c \/ (p = c /\ b < a)) => Entered(p, b)

(* Whether an alternative is a match where its pattern is a candidate.     *)
Hits(p, b, k) ==
  /\ patterns[p][b] # << >>
  /\ patterns[p][b][1].op = instructions[k].op
  /\ tryMatch(instructions, k, patterns[p][b]).ok

Recorded(p, b, k) ==
  Hits(p, b, k) =>
    \E m \in DOMAIN raw : raw[m].pattern = p /\ raw[m].alternative = b /\ raw[m].at = k

(* Every alternative of a candidate that the scan has passed is recorded   *)
(* where it is a match.                                                    *)
Before(k, d, b) == k < i \/ (k = i /\ (d < c \/ (d = c /\ b < a)))

Passed ==
  IF pc = "index" THEN i = 1
  ELSE \A k \in DOMAIN instructions : \A d \in DOMAIN Candidates(k) :
         \A b \in DOMAIN patterns[Candidates(k)[d]] :
           Before(k, d, b) => Recorded(Candidates(k)[d], b, k)

(* And nothing is recorded that is no match.                               *)
IsHit(match) ==
  /\ match.pattern \in DOMAIN patterns
  /\ match.alternative \in DOMAIN patterns[match.pattern]
  /\ match.at \in DOMAIN instructions
  /\ instructions[match.at].op # None
  /\ Hits(match.pattern, match.alternative, match.at)
  /\ match = RawMatch(match.pattern, match.alternative, match.at)

OnlyHits == \A m \in DOMAIN raw : IsHit(raw[m])

(* A step that leaves what is matched and what was found leaves this.      *)
LEMMA HitsStay ==
  ASSUME OnlyHits, instructions' = instructions, patterns' = patterns, raw' = raw
  PROVE  OnlyHits'
<1>1. \A match : IsHit(match) => IsHit(match)'
  BY DEF IsHit, Hits, RawMatch
<1>2. ASSUME NEW m \in (DOMAIN raw)' PROVE IsHit(raw[m])'
  <2>1. PICK match : match = raw'[m] /\ IsHit(match)'
    BY <1>1 DEF OnlyHits
  <2> QED
    BY <2>1, Zenon DEF IsHit, Hits
<1> QED
  BY <1>2, Zenon DEF OnlyHits

(* The invariant of the index and the scan. ScanFindsEveryMatch is not one  *)
(* a step preserves: that the scan loses nothing rests on the index holding*)
(* all that it tries, and on the place the three loops stand at.           *)
ScanInv == TypeOK /\ Indexed /\ Passed /\ OnlyHits

(* Where the loops of New and Match stand is numbered from 1.              *)
LEMMA Loops ==
  ASSUME TypeOK
  PROVE  /\ DOMAIN patterns = 1 .. Len(patterns) /\ Len(patterns) \in Nat
         /\ \A p \in DOMAIN patterns :
              DOMAIN patterns[p] = 1 .. Len(patterns[p]) /\ Len(patterns[p]) \in Nat
         /\ DOMAIN instructions = 1 .. Len(instructions) /\ Len(instructions) \in Nat
         /\ \A k \in DOMAIN instructions :
              DOMAIN Candidates(k) = 1 .. Len(Candidates(k)) /\ Len(Candidates(k)) \in Nat
         /\ DOMAIN raw = 1 .. Len(raw) /\ Len(raw) \in Nat
         /\ \A p \in DOMAIN patterns : \A b \in DOMAIN patterns[p] :
              patterns[p][b] \in Seq(PatternInstruction)
         /\ \A p \in DOMAIN patterns : \A b \in DOMAIN patterns[p] :
              patterns[p][b] # << >> => patterns[p][b][1].op \in Opcodes
         /\ \A k \in DOMAIN instructions : instructions[k] \in Instruction
<1>1. /\ instructions \in Seq(Instruction)
      /\ patterns \in Seq(Seq(Seq(PatternInstruction)))
  BY InputType DEF TypeOK
<1>2. \A p \in DOMAIN patterns : patterns[p] \in Seq(Seq(PatternInstruction))
  BY <1>1, LenProperties, ElementOfSeq
<1>3. \A p \in DOMAIN patterns : \A b \in DOMAIN patterns[p] :
        patterns[p][b] \in Seq(PatternInstruction)
  BY <1>2, LenProperties, ElementOfSeq
<1>4. ASSUME NEW p \in DOMAIN patterns, NEW b \in DOMAIN patterns[p], patterns[p][b] # << >>
      PROVE  patterns[p][b][1].op \in Opcodes
  <2>1. patterns[p][b] \in Seq(PatternInstruction)
    BY <1>3
  <2>2. patterns[p][b][1] \in PatternInstruction
    BY <1>4, <2>1, EmptySeq, LenProperties, ElementOfSeq
  <2> QED
    BY <2>2 DEF PatternInstruction
<1>5. \A k \in DOMAIN instructions : instructions[k] \in Instruction
  BY <1>1, LenProperties, ElementOfSeq
<1>6. ASSUME NEW k \in DOMAIN instructions
      PROVE  DOMAIN Candidates(k) = 1 .. Len(Candidates(k)) /\ Len(Candidates(k)) \in Nat
  <2>1. instructions[k].op \in Opcodes
    BY <1>5 DEF Instruction
  <2>2. byOpcode[instructions[k].op] \in Seq(DOMAIN patterns)
    BY <2>1 DEF TypeOK
  <2>3. Candidates(k) \in Seq(DOMAIN patterns)
    BY <2>2, EmptySeq DEF Candidates
  <2> QED
    BY <2>3, LenProperties
<1>7. DOMAIN raw = 1 .. Len(raw) /\ Len(raw) \in Nat
  BY LenProperties DEF TypeOK
<1> QED
  BY <1>1, <1>2, <1>3, <1>4, <1>5, <1>6, <1>7, LenProperties

(* An alternative that begins with an opcode begins with no label.         *)
LEMMA FirstIsInstruction ==
  ASSUME TypeOK, NEW p \in DOMAIN patterns, NEW b \in DOMAIN patterns[p],
         patterns[p][b] # << >>, patterns[p][b][1].op # None
  PROVE  patterns[p][b][1].label = None
<1>1. patterns[p][b] \in Seq(PatternInstruction)
  BY Loops
<1>2. 1 \in DOMAIN patterns[p][b]
  BY <1>1, EmptySeq, LenProperties
<1> QED
  BY <1>2, DatabasesAssumption DEF TypeOK

(* New begins with an empty index and nothing recorded.                    *)
LEMMA ScanInit == Init => Indexed /\ Passed /\ OnlyHits
<1> SUFFICES ASSUME Init PROVE Indexed /\ Passed /\ OnlyHits
  OBVIOUS
<1>1. Init => TypeOK
  <2>1. Init => byOpcode \in [Opcodes -> Seq(DOMAIN patterns)]
    BY EmptySeq DEF Init
  <2> QED
    BY <2>1, EmptySeq DEF Init, TypeOK
<1>2. Indexed
  BY <1>1, Loops DEF Init, Indexed
<1>3. OnlyHits
  BY <1>1, Loops, EmptySeq DEF Init, OnlyHits
<1> QED
  BY <1>2, <1>3 DEF Init, Passed

(* IndexAlternative enters the alternative it is at and takes none out.    *)
LEMMA IndexAlternativeKeeps ==
  ASSUME ScanInv, IndexAlternative
  PROVE  (Indexed /\ Passed /\ OnlyHits)'
<1> USE DEF ScanInv
<1>1. /\ UNCHANGED <<instructions, patterns, pc, i, c, raw>> /\ pc = "index" /\ a' = a + 1
      /\ c \in DOMAIN patterns /\ a \in DOMAIN patterns[c]
  BY DEF IndexAlternative
<1>2. ASSUME NEW p \in DOMAIN patterns, NEW b \in DOMAIN patterns[p],
             Entered(p, b) \/ (p = c /\ b = a)
      PROVE  Entered(p, b)'
  <2> SUFFICES ASSUME patterns[p][b] # << >>
               PROVE  \E d \in DOMAIN byOpcode'[patterns[p][b][1].op] :
                        byOpcode'[patterns[p][b][1].op][d] = p
    BY <1>1 DEF Entered
  <2> DEFINE op == patterns[p][b][1].op
  <2>1. op \in Opcodes /\ byOpcode \in [Opcodes -> Seq(DOMAIN patterns)]
    BY Loops DEF TypeOK
  <2>2. byOpcode[op] \in Seq(DOMAIN patterns)
    BY <2>1
  <2>3. \/ byOpcode'[op] = byOpcode[op]
        \/ byOpcode'[op] = Append(byOpcode[op], c)
    BY <2>1 DEF IndexAlternative
  <2>4. p = c /\ b = a => byOpcode'[op] = Append(byOpcode[op], c)
    BY <2>1 DEF IndexAlternative
  <2> HIDE DEF op
  <2>5. /\ Append(byOpcode[op], c)[Len(byOpcode[op]) + 1] = c
        /\ Len(byOpcode[op]) + 1 \in DOMAIN Append(byOpcode[op], c)
        /\ \A d \in DOMAIN byOpcode[op] :
             d \in DOMAIN Append(byOpcode[op], c) /\ Append(byOpcode[op], c)[d] = byOpcode[op][d]
    BY <1>1, <2>2, AppendProperties, LenProperties
  <2>6. CASE p = c /\ b = a
    BY <2>4, <2>5, <2>6 DEF op
  <2>7. CASE Entered(p, b)
    <3>1. PICK d \in DOMAIN byOpcode[op] : byOpcode[op][d] = p
      BY <2>7 DEF Entered, op
    <3> QED
      BY <2>3, <2>5, <3>1 DEF op
  <2> QED
    BY <1>2, <2>6, <2>7
<1>3. Indexed'
  <2> SUFFICES ASSUME NEW p \in DOMAIN patterns, NEW b \in DOMAIN patterns[p],
                      p < c \/ (p = c /\ b < a + 1)
               PROVE  Entered(p, b)'
    BY <1>1 DEF Indexed
  <2>1. p < c \/ (p = c /\ b < a) \/ (p = c /\ b = a)
    BY <1>1, Loops
  <2> QED
    BY <1>2, <2>1 DEF Indexed
<1>4. Passed'
  BY <1>1 DEF Passed
<1>5. OnlyHits'
  BY <1>1, HitsStay
<1> QED
  BY <1>3, <1>4, <1>5

(* When New goes to the next pattern, all alternatives of this one are in. *)
LEMMA IndexNextPatternKeeps ==
  ASSUME ScanInv, IndexNextPattern
  PROVE  (Indexed /\ Passed /\ OnlyHits)'
<1> USE DEF ScanInv
<1>1. /\ UNCHANGED <<instructions, patterns, byOpcode, pc, i, raw>> /\ pc = "index"
      /\ c' = c + 1 /\ a' = 1
      /\ c \in DOMAIN patterns /\ a \notin DOMAIN patterns[c]
  BY DEF IndexNextPattern
<1>2. Indexed'
  <2> SUFFICES ASSUME NEW p \in DOMAIN patterns, NEW b \in DOMAIN patterns[p],
                      p < c + 1 \/ (p = c + 1 /\ b < 1)
               PROVE  Entered(p, b)
    BY <1>1 DEF Indexed, Entered
  <2>1. p < c \/ p = c
    BY <1>1, Loops
  <2>2. p = c => b < a
    BY <1>1, Loops DEF TypeOK
  <2> QED
    BY <2>1, <2>2 DEF Indexed
<1>3. Passed'
  BY <1>1 DEF Passed
<1>4. OnlyHits'
  BY <1>1, HitsStay
<1> QED
  BY <1>2, <1>3, <1>4

(* When the scan starts, every pattern is in the index and no instruction  *)
(* has been passed.                                                        *)
LEMMA StartScanKeeps ==
  ASSUME ScanInv, StartScan
  PROVE  (Indexed /\ Passed /\ OnlyHits)'
<1> USE DEF ScanInv
<1>1. /\ UNCHANGED <<instructions, patterns, byOpcode, i, raw>> /\ pc = "index" /\ pc' = "scan"
      /\ c' = 1 /\ a' = 1 /\ c \notin DOMAIN patterns
  BY DEF StartScan
<1>2. Indexed'
  <2> SUFFICES ASSUME NEW p \in DOMAIN patterns, NEW b \in DOMAIN patterns[p]
               PROVE  Entered(p, b)
    BY <1>1 DEF Indexed, Entered
  <2>1. p < c
    BY <1>1, Loops DEF TypeOK
  <2> QED
    BY <2>1 DEF Indexed
<1>3. Passed'
  <2>1. i = 1 /\ i' = 1
    BY <1>1 DEF Passed
  <2>2. \A k \in DOMAIN instructions : \A d \in DOMAIN Candidates(k) :
          \A b \in DOMAIN patterns[Candidates(k)[d]] : ~Before(k, d, b)'
    <3> SUFFICES ASSUME NEW k \in DOMAIN instructions, NEW d \in DOMAIN Candidates(k),
                        NEW b \in DOMAIN patterns[Candidates(k)[d]]
                 PROVE  ~Before(k, d, b)'
      OBVIOUS
    <3>1. k \in Nat \ {0} /\ d \in Nat \ {0} /\ b \in Nat \ {0}
      BY Loops, CandidateType
    <3> QED
      BY <1>1, <2>1, <3>1 DEF Before
  <2>3. \A k \in DOMAIN instructions : Candidates(k)' = Candidates(k)
    BY <1>1 DEF Candidates
  <2> QED
    BY <1>1, <2>2, <2>3 DEF Passed
<1>4. OnlyHits'
  BY <1>1, HitsStay
<1> QED
  BY <1>2, <1>3, <1>4
(* TryAlternative records the alternative it is at, if it is a match.      *)
LEMMA TryAlternativeKeeps ==
  ASSUME ScanInv, TryAlternative
  PROVE  (Indexed /\ Passed /\ OnlyHits)'
<1> USE DEF ScanInv
<1> DEFINE p0 == Candidates(i)[c]
<1>1. /\ UNCHANGED <<instructions, patterns, byOpcode, i, c>> /\ a' = a + 1
      /\ pc = "scan" /\ pc' \in {"scan", "resolve"}
      /\ i \in DOMAIN instructions /\ c \in DOMAIN Candidates(i)
      /\ p0 \in DOMAIN patterns /\ a \in DOMAIN patterns[p0]
      /\ i \in Nat /\ a \in Nat /\ c \in Nat
  BY CandidateType DEF TryAlternative, Scanning, TypeOK
<1>2. raw' = IF Hits(p0, a, i) THEN Append(raw, RawMatch(p0, a, i)) ELSE raw
  BY DEF TryAlternative, Hits
<1> HIDE DEF p0
<1>3. ASSUME Hits(p0, a, i)
      PROVE  /\ DOMAIN raw' = 1 .. Len(raw) + 1 /\ Len(raw) \in Nat /\ DOMAIN raw = 1 .. Len(raw)
             /\ raw'[Len(raw) + 1] = RawMatch(p0, a, i)
             /\ \A m \in DOMAIN raw : raw'[m] = raw[m]
  <2>1. RawMatch(p0, a, i) \in Matches
    <3>1. /\ instructions \in Seq(Instruction)
          /\ patterns \in Seq(Seq(Seq(PatternInstruction)))
      BY InputType DEF TypeOK
    <3>2. tryMatch(instructions, i, patterns[p0][a]).ok
      BY <1>3 DEF Hits
    <3> QED
      BY <1>1, <3>1, <3>2, RawMatchType
  <2>2. raw \in Seq(Matches)
    BY DEF TypeOK
  <2>3. raw' = Append(raw, RawMatch(p0, a, i))
    BY <1>2, <1>3
  <2>4. /\ Append(raw, RawMatch(p0, a, i)) \in Seq(Matches)
        /\ Len(Append(raw, RawMatch(p0, a, i))) = Len(raw) + 1
        /\ \A m \in 1 .. Len(raw) : Append(raw, RawMatch(p0, a, i))[m] = raw[m]
        /\ Append(raw, RawMatch(p0, a, i))[Len(raw) + 1] = RawMatch(p0, a, i)
    BY <2>1, <2>2, AppendProperties
  <2>5. DOMAIN raw = 1 .. Len(raw) /\ Len(raw) \in Nat
    BY Loops
  <2>6. raw' \in Seq(Matches) /\ Len(raw') = Len(raw) + 1
    BY <2>3, <2>4
  <2>7. DOMAIN raw' = 1 .. Len(raw) + 1
    BY <2>6, LenProperties
  <2> QED
    BY <2>3, <2>4, <2>5, <2>7
<1>4. Indexed'
  BY <1>1 DEF Indexed, Entered
<1>5. ASSUME NEW p, NEW b, NEW k, Recorded(p, b, k) \/ (p = p0 /\ b = a /\ k = i)
      PROVE  Recorded(p, b, k)'
  <2>1. Hits(p, b, k)' <=> Hits(p, b, k)
    BY <1>1 DEF Hits
  <2> SUFFICES ASSUME Hits(p, b, k)
               PROVE  \E m \in DOMAIN raw' :
                        raw'[m].pattern = p /\ raw'[m].alternative = b /\ raw'[m].at = k
    BY <2>1 DEF Recorded
  <2>2. CASE p = p0 /\ b = a /\ k = i
    <3>1. Len(raw) + 1 \in DOMAIN raw' /\ raw'[Len(raw) + 1] = RawMatch(p0, a, i)
      BY <1>3, <2>2
    <3> QED
      BY <2>2, <3>1 DEF RawMatch
  <2>3. CASE Recorded(p, b, k)
    <3>1. PICK m \in DOMAIN raw : raw[m].pattern = p /\ raw[m].alternative = b /\ raw[m].at = k
      BY <2>3 DEF Recorded
    <3>2. m \in DOMAIN raw' /\ raw'[m] = raw[m]
      BY <1>2, <1>3
    <3> QED
      BY <3>1, <3>2
  <2> QED
    BY <1>5, <2>2, <2>3
<1>6. Passed'
  <2>1. \A k \in DOMAIN instructions : Candidates(k)' = Candidates(k)
    BY <1>1 DEF Candidates
  <2> SUFFICES ASSUME NEW k \in DOMAIN instructions, NEW d \in DOMAIN Candidates(k),
                      NEW b \in DOMAIN patterns[Candidates(k)[d]], Before(k, d, b)'
               PROVE  Recorded(Candidates(k)[d], b, k)'
    BY <1>1, <2>1 DEF Passed
  <2>2. k \in Nat /\ d \in Nat /\ b \in Nat
    BY Loops, CandidateType
  <2>3. Before(k, d, b) \/ (k = i /\ d = c /\ b = a)
    BY <1>1, <2>2 DEF Before
  <2>4. Recorded(Candidates(k)[d], b, k) \/ (Candidates(k)[d] = p0 /\ b = a /\ k = i)
    BY <1>1, <2>3 DEF Passed, p0
  <2>5. PICK q : q = Candidates(k)[d]
    OBVIOUS
  <2>6. Recorded(q, b, k)'
    BY <1>5, <2>4, <2>5
  <2> QED
    BY <2>1, <2>5, <2>6 DEF Recorded, Hits
<1>7. OnlyHits'
  <2>1. \A match : IsHit(match) => IsHit(match)'
    BY <1>1 DEF IsHit, Hits, RawMatch
  <2>2. ASSUME Hits(p0, a, i) PROVE IsHit(RawMatch(p0, a, i))
    <3>1. instructions[i].op # None
      BY <1>1 DEF Candidates
    <3>2. /\ RawMatch(p0, a, i).pattern = p0 /\ RawMatch(p0, a, i).alternative = a
          /\ RawMatch(p0, a, i).at = i
      BY DEF RawMatch
    <3>3. p0 \in DOMAIN patterns /\ a \in DOMAIN patterns[p0] /\ i \in DOMAIN instructions
      BY <1>1
    <3> QED
      BY ONLY <2>2, <3>1, <3>2, <3>3, Zenon DEF IsHit
  <2>3. ASSUME NEW m \in DOMAIN raw' PROVE IsHit(raw'[m])
    <3>1. CASE Hits(p0, a, i)
      <4>1. m \in DOMAIN raw \/ m = Len(raw) + 1
        BY <1>3, <3>1
      <4> QED
        BY <1>3, <2>2, <3>1, <4>1 DEF OnlyHits
    <3>2. CASE ~Hits(p0, a, i)
      BY <1>2, <3>2 DEF OnlyHits
    <3> QED
      BY <3>1, <3>2
  <2>4. DOMAIN raw' = (DOMAIN raw)' /\ \A m : raw'[m] = (raw[m])'
    OBVIOUS
  <2>5. \A m \in DOMAIN raw' : \E match : match = raw'[m] /\ IsHit(match)'
    BY <2>1, <2>3
  <2>6. ASSUME NEW m \in (DOMAIN raw)' PROVE IsHit(raw[m])'
    <3>1. PICK match : match = raw'[m] /\ IsHit(match)'
      BY <2>5
    <3> QED
      BY <3>1, Zenon DEF IsHit, Hits
  <2> QED
    BY <2>6, Zenon DEF OnlyHits
<1> QED
  BY <1>4, <1>6, <1>7

(* When Match goes to the next candidate, all alternatives of this one     *)
(* have been tried.                                                        *)
LEMMA NextCandidateKeeps ==
  ASSUME ScanInv, NextCandidate
  PROVE  (Indexed /\ Passed /\ OnlyHits)'
<1> USE DEF ScanInv
<1>1. /\ UNCHANGED <<instructions, patterns, byOpcode, pc, i, raw>> /\ c' = c + 1 /\ a' = 1
      /\ pc = "scan" /\ i \in DOMAIN instructions /\ c \in DOMAIN Candidates(i)
      /\ a \notin DOMAIN patterns[Candidates(i)[c]]
      /\ i \in Nat /\ a \in Nat \ {0} /\ c \in Nat
  BY DEF NextCandidate, Scanning, TypeOK
<1>2. Passed'
  <2>1. \A k \in DOMAIN instructions : Candidates(k)' = Candidates(k)
    BY <1>1 DEF Candidates
  <2> SUFFICES ASSUME NEW k \in DOMAIN instructions, NEW d \in DOMAIN Candidates(k),
                      NEW b \in DOMAIN patterns[Candidates(k)[d]], Before(k, d, b)'
               PROVE  Recorded(Candidates(k)[d], b, k)
    BY <1>1, <2>1 DEF Passed, Recorded, Hits
  <2>2. k \in Nat /\ d \in Nat /\ b \in Nat /\ b >= 1 /\ Candidates(k)[d] \in DOMAIN patterns
    BY Loops, CandidateType
  <2>3. k = i /\ d = c => b < a
    <3> SUFFICES ASSUME k = i, d = c PROVE b < a
      OBVIOUS
    <3>1. DOMAIN patterns[Candidates(k)[d]] = 1 .. Len(patterns[Candidates(k)[d]])
          /\ Len(patterns[Candidates(k)[d]]) \in Nat
      BY <2>2, Loops
    <3> QED
      BY <1>1, <3>1
  <2>4. Before(k, d, b)
    BY <1>1, <2>2, <2>3 DEF Before
  <2> QED
    BY <1>1, <2>4 DEF Passed
<1> QED
  BY <1>1, <1>2, HitsStay DEF Indexed, Entered

(* When Match goes to the next instruction, all its candidates have been   *)
(* tried.                                                                  *)
LEMMA NextInstructionKeeps ==
  ASSUME ScanInv, NextInstruction
  PROVE  (Indexed /\ Passed /\ OnlyHits)'
<1> USE DEF ScanInv
<1>1. /\ UNCHANGED <<instructions, patterns, byOpcode, pc, raw>> /\ i' = i + 1 /\ c' = 1 /\ a' = 1
      /\ pc = "scan" /\ i \in DOMAIN instructions /\ c \notin DOMAIN Candidates(i)
      /\ i \in Nat /\ a \in Nat /\ c \in Nat \ {0}
  BY DEF NextInstruction, Scanning, TypeOK
<1>2. Passed'
  <2>1. \A k \in DOMAIN instructions : Candidates(k)' = Candidates(k)
    BY <1>1 DEF Candidates
  <2> SUFFICES ASSUME NEW k \in DOMAIN instructions, NEW d \in DOMAIN Candidates(k),
                      NEW b \in DOMAIN patterns[Candidates(k)[d]], Before(k, d, b)'
               PROVE  Recorded(Candidates(k)[d], b, k)
    BY <1>1, <2>1 DEF Passed, Recorded, Hits
  <2>2. k \in Nat /\ d \in Nat /\ b \in Nat /\ d >= 1 /\ b >= 1
    BY Loops, CandidateType
  <2>3. k = i => d < c
    BY <1>1, Loops
  <2>4. Before(k, d, b)
    BY <1>1, <2>2, <2>3 DEF Before
  <2> QED
    BY <1>1, <2>4 DEF Passed
<1> QED
  BY <1>1, <1>2, HitsStay DEF Indexed, Entered

(* What comes after the scan leaves what it found.                         *)
LEMMA OtherStepsKeep ==
  ASSUME ScanInv, EndScan \/ (\E m \in pending : Resolve(m)) \/ Return \/ UNCHANGED vars
  PROVE  (Indexed /\ Passed /\ OnlyHits)'
<1> USE DEF ScanInv
<1>1. /\ UNCHANGED <<instructions, patterns, byOpcode, i, c, a, raw>>
      /\ pc' = pc \/ (pc # "index" /\ pc' # "index")
  BY DEF EndScan, Resolve, Return, vars
<1>2. Indexed'
  BY <1>1 DEF Indexed, Entered
<1>3. Passed'
  <2>1. \A k \in DOMAIN instructions : Candidates(k)' = Candidates(k)
    BY <1>1 DEF Candidates
  <2> QED
    BY <1>1, <2>1 DEF Passed, Before, Recorded, Hits
<1> QED
  BY <1>1, <1>2, <1>3, HitsStay

(* The invariant of the index and the scan holds of every run of Match.    *)
LEMMA ScanInvariant == Spec => []ScanInv
<1>1. Init /\ TypeOK => ScanInv
  BY ScanInit DEF ScanInv
<1>2. ScanInv /\ [Next]_vars /\ TypeOK' => ScanInv'
  <2> SUFFICES ASSUME ScanInv, [Next]_vars PROVE (Indexed /\ Passed /\ OnlyHits)'
    BY DEF ScanInv
  <2> QED
    BY IndexAlternativeKeeps, IndexNextPatternKeeps, StartScanKeeps, TryAlternativeKeeps,
       NextCandidateKeeps, NextInstructionKeeps, OtherStepsKeep
    DEF Next, Index, Scan, Returned
<1> QED
  BY <1>1, <1>2, TypeCorrect, PTL DEF Spec
-----------------------------------------------------------------------------
(* The index by first opcode and the scan, cut short or not, lose no match *)
(* before the instruction the scan stands at: what matches there begins    *)
(* with the opcode of the instruction, so New entered it under that opcode,*)
(* so the scan tried it.                                                   *)
THEOREM ScanMissesNothing == Spec => []ScanFindsEveryMatch
<1>1. ScanInv => ScanFindsEveryMatch
  <2> SUFFICES ASSUME ScanInv, pc # "index",
                      NEW k \in DOMAIN instructions, NEW p \in DOMAIN patterns,
                      NEW b \in DOMAIN patterns[p],
                      k < i, patterns[p][b] # << >>, patterns[p][b][1].op # None,
                      tryMatch(instructions, k, patterns[p][b]).ok
               PROVE  \E m \in DOMAIN raw :
                        raw[m].pattern = p /\ raw[m].alternative = b /\ raw[m].at = k
    BY DEF ScanFindsEveryMatch
  <2>1. TypeOK /\ Indexed /\ Passed
    BY DEF ScanInv
  <2>2. instructions[k].op = patterns[p][b][1].op
    <3>1. patterns[p][b] \in Seq(PatternInstruction) /\ k \in Nat
      BY <2>1, Loops
    <3>2. patterns[p][b][1].label = None
      BY <2>1, FirstIsInstruction
    <3> QED
      BY <3>1, <3>2, FirstOpcodeMatches
  <2>3. PICK d \in DOMAIN Candidates(k) : Candidates(k)[d] = p
    <3>1. Entered(p, b)
      BY <2>1 DEF Indexed
    <3>2. Candidates(k) = byOpcode[patterns[p][b][1].op]
      BY <2>2 DEF Candidates
    <3> QED
      BY <3>1, <3>2 DEF Entered
  <2>4. Recorded(p, b, k)
    <3>1. Before(k, d, b)
      BY DEF Before
    <3> QED
      BY <2>1, <2>3, <3>1 DEF Passed
  <2>5. Hits(p, b, k)
    BY <2>2 DEF Hits
  <2> QED
    BY <2>4, <2>5 DEF Recorded
<1> QED
  BY <1>1, ScanInvariant, PTL

-----------------------------------------------------------------------------
(* What a match says of itself.                                            *)

(* The instructions a match covers are in the stream, and it covers one at *)
(* least.                                                                  *)
LEMMA MatchLiesInStream ==
  ASSUME TypeOK, OnlyHits, NEW m \in DOMAIN raw
  PROVE  LET alt  == patterns[raw[m].pattern][raw[m].alternative]
             size == Cardinality(Instructions(alt))
             last == raw[m].at + size - 1
         IN  /\ alt \in Seq(PatternInstruction)
             /\ size \in Nat /\ size >= 1
             /\ raw[m].at \in DOMAIN instructions /\ last \in DOMAIN instructions
             /\ tryMatch(instructions, raw[m].at, alt).ok
             /\ MatchBody(instructions, raw[m].at, Body(alt)).ok
             /\ raw[m].start = instructions[raw[m].at].addr
             /\ raw[m].end = instructions[last].addr + instructions[last].size
<1> DEFINE p == raw[m].pattern
           b == raw[m].alternative
           at == raw[m].at
           alt == patterns[p][b]
           size == Cardinality(Instructions(alt))
<1>1. /\ p \in DOMAIN patterns /\ b \in DOMAIN patterns[p] /\ at \in DOMAIN instructions
      /\ instructions[at].op # None
      /\ alt # << >> /\ alt[1].op = instructions[at].op /\ tryMatch(instructions, at, alt).ok
      /\ raw[m] = RawMatch(p, b, at)
  BY DEF OnlyHits, IsHit, Hits
<1>2. alt \in Seq(PatternInstruction) /\ alt[1].label = None
  BY <1>1, Loops, FirstIsInstruction
<1>3. size \in Nat /\ size >= 1
  BY <1>1, <1>2, BodyLists, InstructionsFinite
<1>4. Fits(instructions, at, alt) /\ MatchBody(instructions, at, Body(alt)).ok
  BY <1>1 DEF tryMatch, No
<1>5. DOMAIN instructions = 1 .. Len(instructions) /\ Len(instructions) \in Nat
  BY Loops
<1>6. at + size - 1 \in DOMAIN instructions
  BY <1>1, <1>3, <1>4, <1>5 DEF Fits
<1>7. tryMatch(instructions, at, alt).last = at + size - 1
  BY <1>3, <1>5, <1>6 DEF tryMatch
<1>8. /\ raw[m].start = instructions[at].addr
      /\ raw[m].end = instructions[at + size - 1].addr + instructions[at + size - 1].size
  <2> HIDE DEF p, b, at
  <2>1. /\ RawMatch(p, b, at).start = instructions[at].addr
        /\ RawMatch(p, b, at).end = instructions[tryMatch(instructions, at, alt).last].addr
                                    + instructions[tryMatch(instructions, at, alt).last].size
    BY DEF RawMatch
  <2> QED
    BY <1>1, <1>7, <2>1
<1> QED
  BY <1>1, <1>2, <1>3, <1>4, <1>6, <1>8

(* The range of a match holds its instructions and no other.               *)
LEMMA RangesExact == TypeOK /\ OnlyHits => RangeIsExact
<1> SUFFICES ASSUME TypeOK, OnlyHits, NEW m \in DOMAIN raw
             PROVE  {k \in DOMAIN instructions : instructions[k].addr >= raw[m].start
                                               /\ instructions[k].addr < raw[m].end}
                    = raw[m].at .. (raw[m].at - 1 +
                        Cardinality(Instructions(patterns[raw[m].pattern][raw[m].alternative])))
  BY DEF RangeIsExact
<1> DEFINE at == raw[m].at
           size == Cardinality(Instructions(patterns[raw[m].pattern][raw[m].alternative]))
           last == at + size - 1
<1>1. /\ size \in Nat /\ size >= 1 /\ at \in DOMAIN instructions /\ last \in DOMAIN instructions
      /\ raw[m].start = instructions[at].addr
      /\ raw[m].end = instructions[last].addr + instructions[last].size
  BY MatchLiesInStream
<1>2. DOMAIN instructions = 1 .. Len(instructions) /\ Len(instructions) \in Nat
  BY Loops
<1>3. \A k \in DOMAIN instructions :
        instructions[k].addr \in Nat /\ instructions[k].size \in Nat \ {0}
  <2>1. \A k \in DOMAIN instructions : instructions[k] \in Instruction
    BY Loops
  <2> QED
    BY <2>1 DEF Instruction
<1>4. \A j, k \in DOMAIN instructions :
        j < k => instructions[j].addr + instructions[j].size <= instructions[k].addr
  BY StreamsAssumption DEF TypeOK, InStreamOrder
<1> HIDE DEF size, at
<1>5. ASSUME NEW k \in DOMAIN instructions
      PROVE  (instructions[k].addr >= raw[m].start /\ instructions[k].addr < raw[m].end)
             <=> k \in at .. last
  <2>1. k < at => instructions[k].addr < raw[m].start
    <3> SUFFICES ASSUME k < at PROVE instructions[k].addr < instructions[at].addr
      BY <1>1
    <3> QED
      BY <1>1, <1>3, <1>4
  <2>2. last < k => instructions[k].addr >= raw[m].end
    BY <1>1, <1>4
  <2>3. at < k => instructions[k].addr >= raw[m].start
    <3> SUFFICES ASSUME at < k PROVE instructions[at].addr <= instructions[k].addr
      BY <1>1
    <3> QED
      BY <1>1, <1>3, <1>4
  <2>4. k < last => instructions[k].addr < raw[m].end
    <3> SUFFICES ASSUME k < last
                 PROVE  instructions[k].addr < instructions[last].addr + instructions[last].size
      BY <1>1
    <3> QED
      BY <1>1, <1>3, <1>4
  <2>5. /\ instructions[at].addr >= raw[m].start /\ instructions[last].addr < raw[m].end
        /\ raw[m].start \in Nat /\ raw[m].end \in Nat /\ instructions[k].addr \in Nat
        /\ at \in Nat /\ last \in Nat /\ k \in Nat
    BY <1>1, <1>2, <1>3
  <2> HIDE DEF last
  <2> QED
    BY <2>1, <2>2, <2>3, <2>4, <2>5
<1>6. at .. last \subseteq DOMAIN instructions
  BY <1>1, <1>2
<1>7. {k \in DOMAIN instructions : instructions[k].addr >= raw[m].start
                                 /\ instructions[k].addr < raw[m].end} = at .. last
  BY <1>5, <1>6
<1>8. last = at - 1 + size
  BY <1>1, <1>2
<1> QED
  BY <1>7, <1>8 DEF size, at
-----------------------------------------------------------------------------
(* The captures: when they are plain, tryMatch only ever adds to its       *)
(* bindings, or gives a capture a text that is taken, that of an operand   *)
(* that begins with a $; so what an operand was bound to, or such a text,  *)
(* is what the match reports.                                              *)
Grows(less, more, taken) ==
  /\ DOMAIN less \subseteq DOMAIN more
  /\ \A x \in DOMAIN less : more[x] = less[x] \/ more[x] \in taken

(* Bindings that grow twice have grown.                                    *)
LEMMA GrowsOn ==
  ASSUME NEW b1, NEW b2, NEW b3, NEW taken,
         Grows(b1, b2, taken), Grows(b2, b3, taken)
  PROVE  Grows(b1, b3, taken)
BY DEF Grows

(* Binding a capture that is not bound, or binding one to a text that      *)
(* takes captures, adds to the bindings.                                   *)
LEMMA BindGrows ==
  ASSUME NEW binds, NEW var, NEW text, NEW taken, var \notin DOMAIN binds \/ text \in taken
  PROVE  /\ Grows(binds, Bind(binds, var, text), taken)
         /\ var \in DOMAIN Bind(binds, var, text) /\ Bind(binds, var, text)[var] = text
BY DEF Grows, Bind

(* A part is passed over, or the capture in turn has its text from there on.*)
Captures(pats, acc, part, taken) ==
  LET next == OperandStep(pats, acc, part)
      cap  == pats[acc.pi].cap
  IN  \/ next.pi = acc.pi /\ next.binds = acc.binds
      \/ /\ next.pi = acc.pi + 1 /\ Grows(acc.binds, next.binds, taken)
         /\ cap \in DOMAIN next.binds /\ next.binds[cap] = part.text

(* That is so where a part meets a plain capture.                          *)
LEMMA PlainStep ==
  ASSUME NEW pats, NEW acc, NEW part, NEW taken, part.dollar => part.text \in taken,
         PlainCapture(pats[acc.pi]), ~(acc.pi > Len(pats))
  PROVE  Captures(pats, acc, part, taken)
<1> USE DEF Captures
<1> DEFINE pat == pats[acc.pi]
           hit == matchSingleOperand(part, pat, acc.binds)
<1>1. /\ ~pat.wild /\ ~pat.imm /\ ~(pat.reg # None) /\ ~(pat.base # None) /\ pat.cap # None
  BY DEF PlainCapture
<1>2. hit = IF part.dollar THEN Yes(Bind(acc.binds, pat.cap, part.text))
            ELSE IF pat.cap \in DOMAIN acc.binds
            THEN [ok |-> part.text = acc.binds[pat.cap], binds |-> acc.binds]
            ELSE Yes(Bind(acc.binds, pat.cap, part.text))
  BY <1>1 DEF matchSingleOperand
<1>3. OperandStep(pats, acc, part) =
        IF part.kind = "qual" THEN acc
        ELSE [pi |-> IF hit.ok THEN acc.pi + 1 ELSE acc.pi, binds |-> hit.binds]
  BY <1>1 DEF OperandStep
<1>4. CASE part.kind = "qual"
  BY <1>3, <1>4
<1>5. CASE part.kind # "qual" /\ ~part.dollar /\ pat.cap \in DOMAIN acc.binds
  <2>1. hit.binds = acc.binds /\ hit.ok = (part.text = acc.binds[pat.cap])
    BY <1>2, <1>5
  <2>2. Grows(acc.binds, acc.binds, taken)
    BY DEF Grows
  <2> HIDE DEF hit
  <2>3. CASE hit.ok
    <3>1. part.text = acc.binds[pat.cap]
      BY <2>1, <2>3
    <3>2. /\ OperandStep(pats, acc, part).pi = acc.pi + 1
          /\ OperandStep(pats, acc, part).binds = acc.binds
      BY <1>3, <1>5, <2>1, <2>3
    <3> QED
      BY <1>5, <2>2, <3>1, <3>2
  <2>4. CASE ~hit.ok
    <3>1. /\ OperandStep(pats, acc, part).pi = acc.pi
          /\ OperandStep(pats, acc, part).binds = acc.binds
      BY <1>3, <1>5, <2>1, <2>4
    <3> QED
      BY <3>1
  <2> QED
    BY <2>3, <2>4
<1>6. CASE part.kind # "qual" /\ (part.dollar \/ pat.cap \notin DOMAIN acc.binds)
  <2>1. hit.binds = Bind(acc.binds, pat.cap, part.text) /\ hit.ok
    BY <1>2, <1>6 DEF Yes
  <2> HIDE DEF hit
  <2>2. /\ OperandStep(pats, acc, part).pi = acc.pi + 1
        /\ OperandStep(pats, acc, part).binds = Bind(acc.binds, pat.cap, part.text)
    BY <1>3, <1>6, <2>1
  <2>3. pat.cap \notin DOMAIN acc.binds \/ part.text \in taken
    BY <1>6
  <2> HIDE DEF pat
  <2>4. LET new == Bind(acc.binds, pat.cap, part.text)
        IN  Grows(acc.binds, new, taken) /\ pat.cap \in DOMAIN new /\ new[pat.cap] = part.text
    BY <2>3, BindGrows
  <2> QED
    BY <2>2, <2>4 DEF pat
<1> QED
  BY <1>4, <1>5, <1>6

(* The first operands of a pattern instruction have been found, in their   *)
(* order, among the first parts of an instruction; a capture may have been *)
(* taken by another text since.                                            *)
Found(inst, pats, binds, taken, operands, parts) ==
  \E f \in [1 .. operands -> 1 .. parts] :
    /\ \A o1, o2 \in 1 .. operands : o1 < o2 => f[o1] < f[o2]
    /\ \A o \in 1 .. operands : /\ pats[o].cap \in DOMAIN binds
                                /\ binds[pats[o].cap] \in {inst.parts[f[o]].text} \union taken

(* What was found stays found when more parts are looked at and more is    *)
(* bound.                                                                  *)
LEMMA StaysFound ==
  ASSUME NEW inst, NEW pats, NEW binds, NEW more, NEW taken, Grows(binds, more, taken),
         NEW operands \in Nat, NEW parts \in Nat, NEW further \in Nat, parts <= further,
         Found(inst, pats, binds, taken, operands, parts)
  PROVE  Found(inst, pats, more, taken, operands, further)
<1>1. PICK f \in [1 .. operands -> 1 .. parts] :
        /\ \A o1, o2 \in 1 .. operands : o1 < o2 => f[o1] < f[o2]
        /\ \A o \in 1 .. operands : /\ pats[o].cap \in DOMAIN binds
                                    /\ binds[pats[o].cap] \in {inst.parts[f[o]].text} \union taken
  BY DEF Found
<1>2. f \in [1 .. operands -> 1 .. further]
  OBVIOUS
<1>3. \A o \in 1 .. operands : /\ pats[o].cap \in DOMAIN more
                               /\ more[pats[o].cap] \in {inst.parts[f[o]].text} \union taken
  BY <1>1 DEF Grows
<1> QED
  BY <1>1, <1>2, <1>3 DEF Found

(* One operand more is found, in the part that follows.                    *)
LEMMA FindsNext ==
  ASSUME NEW inst, NEW pats, NEW binds, NEW taken, NEW operands \in Nat, NEW parts \in Nat,
         Found(inst, pats, binds, taken, operands, parts),
         pats[operands + 1].cap \in DOMAIN binds,
         inst.parts[parts + 1].text = binds[pats[operands + 1].cap]
  PROVE  Found(inst, pats, binds, taken, operands + 1, parts + 1)
<1>1. PICK f \in [1 .. operands -> 1 .. parts] :
        /\ \A o1, o2 \in 1 .. operands : o1 < o2 => f[o1] < f[o2]
        /\ \A o \in 1 .. operands : /\ pats[o].cap \in DOMAIN binds
                                    /\ binds[pats[o].cap] \in {inst.parts[f[o]].text} \union taken
  BY DEF Found
<1> DEFINE g == [o \in 1 .. operands + 1 |-> IF o = operands + 1 THEN parts + 1 ELSE f[o]]
<1>2. \A o \in 1 .. operands + 1 : o = operands + 1 \/ o \in 1 .. operands
  OBVIOUS
<1>3. g[operands + 1] = parts + 1 /\ \A o \in 1 .. operands : g[o] = f[o]
  OBVIOUS
<1>4. g \in [1 .. operands + 1 -> 1 .. parts + 1]
  OBVIOUS
<1> HIDE DEF g
<1>5. \A o1, o2 \in 1 .. operands + 1 : o1 < o2 => g[o1] < g[o2]
  <2> SUFFICES ASSUME NEW o1 \in 1 .. operands + 1, NEW o2 \in 1 .. operands + 1, o1 < o2
               PROVE  g[o1] < g[o2]
    OBVIOUS
  <2>1. o1 \in 1 .. operands /\ g[o1] = f[o1] /\ f[o1] \in 1 .. parts
    BY <1>3
  <2>2. CASE o2 = operands + 1
    BY <1>3, <2>1, <2>2
  <2>3. CASE o2 \in 1 .. operands
    BY <1>1, <1>3, <2>1, <2>3
  <2> QED
    BY <1>2, <2>2, <2>3
<1>6. \A o \in 1 .. operands + 1 : /\ pats[o].cap \in DOMAIN binds
                                   /\ binds[pats[o].cap] \in {inst.parts[g[o]].text} \union taken
  BY <1>1, <1>2, <1>3
<1> QED
  BY <1>4, <1>5, <1>6 DEF Found

(* Where matchOperands succeeds, every plain capture of the instruction was*)
(* found in it, in their order, and nothing bound before was forgotten but *)
(* for the text of an operand that begins with a $.                        *)
LEMMA OperandsFound ==
  ASSUME NEW inst, Len(inst.parts) \in Nat, NEW pats, Len(pats) \in Nat, NEW binds, NEW taken,
         \A q \in 1 .. Len(inst.parts) : inst.parts[q].dollar => inst.parts[q].text \in taken,
         \A o \in 1 .. Len(pats) : PlainCapture(pats[o]),
         matchOperands(inst, pats, binds).ok
  PROVE  /\ Grows(binds, matchOperands(inst, pats, binds).binds, taken)
         /\ Found(inst, pats, matchOperands(inst, pats, binds).binds, taken,
                  Len(pats), Len(inst.parts))
<1>0. /\ AfterOperands(inst, pats, binds)[0] = [pi |-> 1, binds |-> binds]
      /\ \A k \in 1 .. Len(inst.parts) :
           AfterOperands(inst, pats, binds)[k] =
             OperandStep(pats, AfterOperands(inst, pats, binds)[k - 1], inst.parts[k])
  BY OperandsUnrolled
<1> DEFINE run == AfterOperands(inst, pats, binds)
           n == Len(inst.parts)
           Good(k) == /\ run[k].pi \in 1 .. Len(pats) + 1
                      /\ Grows(binds, run[k].binds, taken)
                      /\ Found(inst, pats, run[k].binds, taken, run[k].pi - 1, k)
           U == {k \in Nat : k <= n => Good(k)}
<1>1. run[0] = [pi |-> 1, binds |-> binds]
  BY <1>0
<1>2. \A k \in 1 .. n : run[k] = OperandStep(pats, run[k - 1], inst.parts[k])
  BY <1>0
<1> HIDE DEF run
<1>3. 0 \in U
  <2>1. run[0].pi = 1 /\ run[0].binds = binds
    BY <1>1
  <2>2. Grows(binds, binds, taken)
    BY DEF Grows
  <2>3. Found(inst, pats, binds, taken, 0, 0)
    <3>1. [o \in 1 .. 0 |-> o] \in [1 .. 0 -> 1 .. 0]
      OBVIOUS
    <3>2. \A o \in 1 .. 0 : FALSE
      OBVIOUS
    <3> QED
      BY <3>1, <3>2 DEF Found
  <2> QED
    BY <2>1, <2>2, <2>3
<1>4. ASSUME NEW k \in Nat, k \in U PROVE k + 1 \in U
  <2> SUFFICES ASSUME k + 1 <= n PROVE Good(k + 1)
    OBVIOUS
  <2>1. Good(k)
    BY <1>4
  <2>2. run[k + 1] = OperandStep(pats, run[k], inst.parts[k + 1])
    <3>1. k + 1 \in 1 .. n /\ (k + 1) - 1 = k
      OBVIOUS
    <3> QED
      BY <1>2, <3>1
  <2> DEFINE pi == run[k].pi
             cap == pats[pi].cap
  <2>3. pi \in 1 .. Len(pats) + 1 /\ Grows(binds, run[k].binds, taken)
        /\ Found(inst, pats, run[k].binds, taken, pi - 1, k)
    BY <2>1
  <2>4. CASE run[k + 1].pi = pi /\ run[k + 1].binds = run[k].binds
    <3>1. Grows(run[k].binds, run[k].binds, taken)
      BY DEF Grows
    <3>2. Found(inst, pats, run[k].binds, taken, pi - 1, k + 1)
      BY <2>3, <3>1, StaysFound
    <3> QED
      BY <2>3, <2>4, <3>2
  <2>5. CASE /\ pi <= Len(pats)
             /\ run[k + 1].pi = pi + 1 /\ Grows(run[k].binds, run[k + 1].binds, taken)
             /\ cap \in DOMAIN run[k + 1].binds
             /\ run[k + 1].binds[cap] = inst.parts[k + 1].text
    <3>1. Grows(binds, run[k + 1].binds, taken)
      BY <2>3, <2>5, GrowsOn
    <3>2. Found(inst, pats, run[k + 1].binds, taken, pi - 1, k)
      BY <2>3, <2>5, StaysFound
    <3>3. (pi - 1) + 1 = pi /\ pi - 1 \in Nat
      BY <2>3
    <3>4. Found(inst, pats, run[k + 1].binds, taken, pi, k + 1)
      BY <2>5, <3>2, <3>3, FindsNext
    <3>5. run[k + 1].pi \in 1 .. Len(pats) + 1 /\ run[k + 1].pi - 1 = pi
      BY <2>3, <2>5
    <3> QED
      BY <3>1, <3>4, <3>5
  <2>6. CASE pi > Len(pats)
    <3>1. run[k + 1] = run[k]
      BY <2>2, <2>6 DEF OperandStep
    <3> QED
      BY <2>4, <3>1
  <2>7. CASE ~(pi > Len(pats))
    <3>1. /\ PlainCapture(pats[pi]) /\ pi <= Len(pats)
          /\ inst.parts[k + 1].dollar => inst.parts[k + 1].text \in taken
      BY <2>3, <2>7
    <3>3. LET next == OperandStep(pats, run[k], inst.parts[k + 1])
          IN  \/ next.pi = run[k].pi /\ next.binds = run[k].binds
              \/ /\ next.pi = run[k].pi + 1 /\ Grows(run[k].binds, next.binds, taken)
                 /\ cap \in DOMAIN next.binds /\ next.binds[cap] = inst.parts[k + 1].text
      <4>1. Captures(pats, run[k], inst.parts[k + 1], taken)
        BY <2>7, <3>1, PlainStep
      <4> QED
        BY <4>1 DEF Captures
    <3>2. \/ run[k + 1].pi = pi /\ run[k + 1].binds = run[k].binds
          \/ /\ run[k + 1].pi = pi + 1 /\ Grows(run[k].binds, run[k + 1].binds, taken)
             /\ cap \in DOMAIN run[k + 1].binds
             /\ run[k + 1].binds[cap] = inst.parts[k + 1].text
      BY <2>2, <3>3
    <3> HIDE DEF Good
    <3> QED
      BY <2>4, <2>5, <3>1, <3>2
  <2> QED
    BY <2>6, <2>7
<1>5. Good(n)
  <2> HIDE DEF U, Good
  <2>1. Nat \subseteq U
    BY <1>3, <1>4, SetInduction
  <2> QED
    BY <2>1 DEF U
<1>6. /\ matchOperands(inst, pats, binds).binds = run[n].binds
      /\ run[n].pi > Len(pats)
  BY DEF matchOperands, run
<1>7. run[n].pi - 1 = Len(pats)
  BY <1>5, <1>6
<1> QED
  BY <1>5, <1>6, <1>7
(* What an instruction of an alternative bound is what the match reports,  *)
(* operands with a $ aside: the instructions after it add to the bindings. *)
LEMMA CapturesFound ==
  ASSUME NEW insts, NEW at, NEW body, Len(body) \in Nat, MatchBody(insts, at, body).ok, NEW taken,
         \A k \in 1 .. Len(body) : /\ Len(insts[at + k - 1].parts) \in Nat
                                   /\ \A q \in 1 .. Len(insts[at + k - 1].parts) :
                                        insts[at + k - 1].parts[q].dollar
                                          => insts[at + k - 1].parts[q].text \in taken
                                   /\ Len(body[k].operands) \in Nat
                                   /\ \A o \in 1 .. Len(body[k].operands) :
                                        PlainCapture(body[k].operands[o])
  PROVE  \A k \in 1 .. Len(body) :
           Found(insts[at + k - 1], body[k].operands, MatchBody(insts, at, body).binds, taken,
                 Len(body[k].operands), Len(insts[at + k - 1].parts))
<1> DEFINE after == AfterInstructions(insts, at, body)
           n == Len(body)
           U == {d \in Nat : d <= n => Grows(after[n - d].binds, after[n].binds, taken)}
<1>1. ASSUME NEW k \in 1 .. n
      PROVE  /\ Grows(after[k - 1].binds, after[k].binds, taken)
             /\ Found(insts[at + k - 1], body[k].operands, after[k].binds, taken,
                      Len(body[k].operands), Len(insts[at + k - 1].parts))
  <2>1. /\ matchOperands(insts[at + k - 1], body[k].operands, after[k - 1].binds).ok
        /\ after[k] = matchOperands(insts[at + k - 1], body[k].operands, after[k - 1].binds)
    BY EveryInstructionMatched
  <2> HIDE DEF after
  <2> QED
    BY <2>1, OperandsFound
<1>2. 0 \in U
  BY DEF Grows
<1>3. ASSUME NEW d \in Nat, d \in U PROVE d + 1 \in U
  <2> HIDE DEF after
  <2> SUFFICES ASSUME d + 1 <= n PROVE Grows(after[n - (d + 1)].binds, after[n].binds, taken)
    OBVIOUS
  <2>1. n - d \in 1 .. n /\ n - (d + 1) = (n - d) - 1 /\ Grows(after[n - d].binds, after[n].binds, taken)
    BY <1>3
  <2>2. Grows(after[(n - d) - 1].binds, after[n - d].binds, taken)
    BY <1>1, <2>1
  <2> QED
    BY <2>1, <2>2, GrowsOn
<1>4. \A k \in 1 .. n : Grows(after[k].binds, after[n].binds, taken)
  <2> HIDE DEF after
  <2>1. Nat \subseteq U
    <3> HIDE DEF U
    <3> QED
      BY <1>2, <1>3, SetInduction
  <2> SUFFICES ASSUME NEW k \in 1 .. n PROVE Grows(after[k].binds, after[n].binds, taken)
    OBVIOUS
  <2>2. n - k \in Nat /\ n - k <= n /\ n - (n - k) = k
    OBVIOUS
  <2> QED
    BY <2>1, <2>2
<1> SUFFICES ASSUME NEW k \in 1 .. n
             PROVE  Found(insts[at + k - 1], body[k].operands, after[n].binds, taken,
                          Len(body[k].operands), Len(insts[at + k - 1].parts))
  BY DEF MatchBody
<1> HIDE DEF after
<1> QED
  BY <1>1, <1>4, StaysFound

(* The captures of a match name one text each.                             *)
LEMMA CapturesTrue == TypeOK /\ OnlyHits => CapturesAgree
<1> DEFINE Agree(at, body, binds) ==
             (\A k \in DOMAIN body : \A o \in DOMAIN body[k].operands :
                PlainCapture(body[k].operands[o]))
             => \A k \in DOMAIN body :
                  /\ instructions[at + k - 1].op = body[k].op
                  /\ \E f \in [DOMAIN body[k].operands ->
                                 DOMAIN instructions[at + k - 1].parts] :
                       /\ \A o1, o2 \in DOMAIN f : o1 < o2 => f[o1] < f[o2]
                       /\ \A o \in DOMAIN f :
                            binds[body[k].operands[o].cap]
                              \in {instructions[at + k - 1].parts[f[o]].text}
                                    \union DollarTexts(at, Len(body))
<1> SUFFICES ASSUME TypeOK, OnlyHits, NEW m \in DOMAIN raw,
                    NEW at, at = raw[m].at,
                    NEW alt, alt = patterns[raw[m].pattern][raw[m].alternative],
                    NEW body, body = Body(alt),
                    NEW binds, binds = tryMatch(instructions, at, alt).binds
             PROVE  Agree(at, body, binds)
  <2> SUFFICES ASSUME TypeOK, OnlyHits, NEW m \in DOMAIN raw
               PROVE  Agree(raw[m].at, Body(patterns[raw[m].pattern][raw[m].alternative]),
                            tryMatch(instructions, raw[m].at,
                                     patterns[raw[m].pattern][raw[m].alternative]).binds)
    BY DEF CapturesAgree
  <2> HIDE DEF Agree
  <2> QED
    OBVIOUS
<1> DEFINE taken == DollarTexts(at, Len(body))
<1> SUFFICES ASSUME \A k \in DOMAIN body : \A o \in DOMAIN body[k].operands :
                      PlainCapture(body[k].operands[o]),
                    NEW k \in DOMAIN body
             PROVE  /\ instructions[at + k - 1].op = body[k].op
                    /\ \E f \in [DOMAIN body[k].operands ->
                                   DOMAIN instructions[at + k - 1].parts] :
                         /\ \A o1, o2 \in DOMAIN f : o1 < o2 => f[o1] < f[o2]
                         /\ \A o \in DOMAIN f :
                              binds[body[k].operands[o].cap]
                                \in {instructions[at + k - 1].parts[f[o]].text} \union taken
  OBVIOUS
<1> HIDE DEF taken
<1>1. /\ alt \in Seq(PatternInstruction)
      /\ at \in DOMAIN instructions /\ at + Cardinality(Instructions(alt)) - 1 \in DOMAIN instructions
      /\ tryMatch(instructions, at, alt).ok
      /\ MatchBody(instructions, at, body).ok
  BY MatchLiesInStream
<1>2. /\ body \in Seq(PatternInstruction)
      /\ Len(body) \in Nat /\ DOMAIN body = 1 .. Len(body)
      /\ Len(body) = Cardinality(Instructions(alt))
  BY <1>1, BodyLists, LenProperties
<1>3. binds = MatchBody(instructions, at, body).binds
  BY <1>1 DEF tryMatch, No
<1>4. ASSUME NEW j \in 1 .. Len(body)
      PROVE  /\ Len(instructions[at + j - 1].parts) \in Nat
             /\ DOMAIN instructions[at + j - 1].parts = 1 .. Len(instructions[at + j - 1].parts)
             /\ Len(body[j].operands) \in Nat
             /\ DOMAIN body[j].operands = 1 .. Len(body[j].operands)
  <2>1. DOMAIN instructions = 1 .. Len(instructions) /\ Len(instructions) \in Nat
    BY Loops
  <2>2. at + j - 1 \in DOMAIN instructions
    <3>1. PICK L, n : L = Len(instructions) /\ n = Len(body)
      OBVIOUS
    <3>2. L \in Nat /\ n \in Nat /\ at \in 1 .. L /\ at + n - 1 \in 1 .. L /\ j \in 1 .. n
      BY <1>1, <1>2, <2>1, <3>1
    <3>3. at + j - 1 \in 1 .. L
      BY <3>2
    <3> QED
      BY <2>1, <3>1, <3>3
  <2>3. instructions[at + j - 1] \in Instruction
    BY <2>2, Loops
  <2>4. PICK S : instructions[at + j - 1].parts \in Seq(S)
    BY <2>3 DEF Instruction
  <2>5. body[j] \in PatternInstruction
    BY <1>2, ElementOfSeq
  <2>6. body[j].operands \in Seq(Operand)
    BY <2>5 DEF PatternInstruction
  <2> QED
    BY <2>4, <2>6, LenProperties
<1>5. Found(instructions[at + k - 1], body[k].operands, binds, taken,
            Len(body[k].operands), Len(instructions[at + k - 1].parts))
  <2>1. \A j \in 1 .. Len(body) : /\ Len(instructions[at + j - 1].parts) \in Nat
                                  /\ \A q \in 1 .. Len(instructions[at + j - 1].parts) :
                                       instructions[at + j - 1].parts[q].dollar
                                         => instructions[at + j - 1].parts[q].text \in taken
                                  /\ Len(body[j].operands) \in Nat
                                  /\ \A o \in 1 .. Len(body[j].operands) :
                                       PlainCapture(body[j].operands[o])
    <3> SUFFICES ASSUME NEW j \in 1 .. Len(body)
                 PROVE  /\ Len(instructions[at + j - 1].parts) \in Nat
                        /\ \A q \in 1 .. Len(instructions[at + j - 1].parts) :
                             instructions[at + j - 1].parts[q].dollar
                               => instructions[at + j - 1].parts[q].text \in taken
                        /\ Len(body[j].operands) \in Nat
                        /\ \A o \in 1 .. Len(body[j].operands) :
                             PlainCapture(body[j].operands[o])
      OBVIOUS
    <3>1. j \in DOMAIN body /\ DOMAIN body[j].operands = 1 .. Len(body[j].operands)
      BY <1>2, <1>4
    <3>2. ASSUME NEW q \in 1 .. Len(instructions[at + j - 1].parts),
                 instructions[at + j - 1].parts[q].dollar
          PROVE  instructions[at + j - 1].parts[q].text \in taken
      <4>1. PICK n, seq : n = Len(body) /\ seq = instructions[at + j - 1].parts
        OBVIOUS
      <4>2. n \in Nat /\ j \in 1 .. n
        BY <1>2, <4>1
      <4>3. at + j - 1 \in at .. at + n - 1
        <5>1. PICK L : L = Len(instructions)
          OBVIOUS
        <5>2. DOMAIN instructions = 1 .. L /\ L \in Nat
          BY <5>1, Loops
        <5>3. at \in 1 .. L
          BY <1>1, <5>2
        <5>4. at \in Nat
          BY <5>2, <5>3
        <5> QED
          BY <4>2, <5>4
      <4>4. seq[q] \in {r \in Range(seq) : r.dollar}
        BY <1>4, <3>2, <4>1 DEF Range
      <4>5. seq[q].text \in {part.text : part \in {r \in Range(seq) : r.dollar}}
        BY <4>4
      <4>6. taken = UNION {{part.text : part \in {r \in Range(instructions[x].parts) : r.dollar}} :
                             x \in at .. at + n - 1}
        BY <4>1 DEF DollarTexts, taken
      <4> QED
        BY <4>1, <4>3, <4>5, <4>6, Zenon
    <3> QED
      BY <1>4, <3>1, <3>2
  <2> QED
    BY <1>1, <1>2, <1>3, <2>1, CapturesFound
<1>6. instructions[at + k - 1].op = body[k].op
  <2>1. instructionMatches(instructions[at + k - 1], body[k])
    BY <1>1, <1>2, EveryInstructionMatched
  <2> QED
    BY <2>1 DEF instructionMatches
<1>7. PICK f \in [1 .. Len(body[k].operands) -> 1 .. Len(instructions[at + k - 1].parts)] :
        /\ \A o1, o2 \in 1 .. Len(body[k].operands) : o1 < o2 => f[o1] < f[o2]
        /\ \A o \in 1 .. Len(body[k].operands) :
             binds[body[k].operands[o].cap]
               \in {instructions[at + k - 1].parts[f[o]].text} \union taken
  BY <1>5, ZenonT(30) DEF Found
<1>8. /\ DOMAIN body[k].operands = 1 .. Len(body[k].operands)
      /\ DOMAIN instructions[at + k - 1].parts = 1 .. Len(instructions[at + k - 1].parts)
  BY <1>2, <1>4
<1>9. f \in [DOMAIN body[k].operands -> DOMAIN instructions[at + k - 1].parts]
      /\ DOMAIN f = 1 .. Len(body[k].operands)
  BY <1>7, <1>8
<1> QED
  <2>1. \A o1, o2 \in DOMAIN f : o1 < o2 => f[o1] < f[o2]
    BY <1>7, <1>9, Zenon
  <2>2. \A o \in DOMAIN f : binds[body[k].operands[o].cap]
                              \in {instructions[at + k - 1].parts[f[o]].text} \union taken
    BY <1>7, <1>9, Zenon
  <2> QED
    BY <1>6, <1>9, <2>1, <2>2, Zenon

(* A match names the instructions it covers by its address range, and what *)
(* they hold by its captures: both are true of every match the scan        *)
(* records, for every stream with gaps and every database.                 *)
THEOREM MatchesAreAlwaysTrue == Spec => []MatchesAreTrue
<1>1. ScanInv => MatchesAreTrue
  BY RangesExact, CapturesTrue DEF ScanInv, MatchesAreTrue
<1> QED
  BY <1>1, ScanInvariant, PTL
=============================================================================
