-------------------------- MODULE FlatOutputProofs --------------------------
(* Proofs about FlatOutput for every stream in address order and all         *)
(* disjoint matches: types, the order of the lines, and that the listing is  *)
(* whole.                                                                    *)
EXTENDS FlatOutput, FiniteSetTheorems, SequenceTheorems, TLAPS

(* The parts of the inductive invariant.                                     *)

(* What the layouts are, kept by the state.                                  *)
Input ==
    /\ InOrder(stream) /\ Disjoint(given)
    /\ \A k \in DOMAIN given : given[k].start < given[k].end

(* The matches are those that were given, one behind the other.              *)
Sorted ==
    pc # "sort" =>
        /\ \A k \in DOMAIN given : \E j \in DOMAIN matches : matches[j] = given[k]
        /\ \A j \in DOMAIN matches : \E k \in DOMAIN given : matches[j] = given[k]
        /\ \A j \in DOMAIN matches : matches[j].start < matches[j].end
        /\ \A j, k \in DOMAIN matches : j < k => matches[j].end <= matches[k].start

(* Where the loops are: behind the last match, or at the first instruction.  *)
Place ==
    /\ pc = "sort" => lines = <<>> /\ next = 1
    /\ pc \in {"next", "raw"} =>
         /\ next = 1 => \A j \in DOMAIN stream : lastAddr <= stream[j].addr
         /\ next > 1 => lastAddr = matches[next - 1].end
    /\ pc = "next" /\ next = 1 => lines = <<>>
    /\ pc = "raw" =>
         /\ from = lastAddr /\ from < to
         /\ next \in DOMAIN matches => to = matches[next].start
         /\ next \notin DOMAIN matches => to = EndAddr
    /\ pc = "expand" => next \in DOMAIN matches
    /\ pc = "done" => next \notin DOMAIN matches

(* The instructions up to where the loops are.                               *)
Passed(j) ==
    \/ pc = "next" /\ stream[j].addr < lastAddr
    \/ pc = "raw" /\ (stream[j].addr < from \/ (j < i /\ stream[j].addr < to))
    \/ pc = "expand" /\ stream[j].addr < matches[next].start
    \/ pc = "done"

Commented ==
    \A j \in DOMAIN stream :
        Written("asm", stream[j].addr)
          <=> ~stream[j].noise /\ ~Covered(stream[j].addr) /\ Passed(j)

Expanded == \A m \in DOMAIN matches : m < next => Written("match", matches[m].start)

(* No line lies behind where the loops are.                                  *)
Behind ==
    \A k \in DOMAIN lines :
        /\ pc = "next" => lines[k].at < lastAddr
        /\ pc = "raw" =>
             \/ lines[k].at < from
             \/ /\ lines[k].at < to
                /\ \E j \in DOMAIN stream : j < i /\ lines[k].at = stream[j].addr
        /\ pc = "expand" => lines[k].at < matches[next].start

ListingInv ==
    TypeOK /\ Input /\ Sorted /\ Place /\ Commented /\ Expanded /\ Behind /\ LinesInOrder

-----------------------------------------------------------------------------
LineType == [kind : {"asm", "match"}, at : Nat]

(* A line put behind all others keeps them in order.                         *)
LEMMA AppendLine ==
    ASSUME NEW ls \in Seq(LineType), NEW line \in LineType,
           \A k \in DOMAIN ls : ls[k].at < line.at,
           \A j, k \in DOMAIN ls : j < k => ls[j].at < ls[k].at
    PROVE  LET more == Append(ls, line)
           IN  /\ more \in Seq(LineType)
               /\ \A j, k \in DOMAIN more : j < k => more[j].at < more[k].at
               /\ \A x : (\E k \in DOMAIN more : more[k] = x)
                           <=> x = line \/ \E k \in DOMAIN ls : ls[k] = x
               /\ \A k \in DOMAIN more : more[k] = line \/ \E j \in DOMAIN ls : more[k] = ls[j]
<1>1. /\ DOMAIN ls = 1..Len(ls) /\ Len(ls) \in Nat
      /\ DOMAIN Append(ls, line) = 1..Len(ls) + 1
      /\ \A k \in 1..Len(ls) : Append(ls, line)[k] = ls[k]
      /\ Append(ls, line)[Len(ls) + 1] = line
      /\ Append(ls, line) \in Seq(LineType)
  BY LenProperties, AppendProperties
<1>2. \A j, k \in 1..Len(ls) + 1 : j < k => Append(ls, line)[j].at < Append(ls, line)[k].at
  <2> SUFFICES ASSUME NEW j \in 1..Len(ls) + 1, NEW k \in 1..Len(ls) + 1, j < k
               PROVE  Append(ls, line)[j].at < Append(ls, line)[k].at
    OBVIOUS
  <2>1. j \in 1..Len(ls)
    BY <1>1
  <2>2. CASE k = Len(ls) + 1
    BY <1>1, <2>1, <2>2
  <2>3. CASE k # Len(ls) + 1
    <3>1. k \in 1..Len(ls)
      BY <1>1, <2>3
    <3> QED
      BY <1>1, <2>1, <3>1
  <2> QED
    BY <2>2, <2>3
<1> QED
  BY <1>1, <1>2

(* What the types say of single instructions and matches.                    *)
LEMMA Facts ==
    ASSUME TypeOK
    PROVE  /\ DOMAIN stream = 1..Len(stream) /\ Len(stream) \in Nat
           /\ \A j \in DOMAIN stream : /\ stream[j].addr \in Nat /\ stream[j].size \in Nat \ {0}
                                       /\ stream[j].noise \in BOOLEAN
           /\ DOMAIN matches = 1..Len(matches) /\ Len(matches) \in Nat
           /\ \A j \in DOMAIN matches : matches[j].start \in Nat /\ matches[j].end \in Nat
           /\ DOMAIN lines = 1..Len(lines) /\ Len(lines) \in Nat
           /\ \A j \in DOMAIN lines : lines[j].at \in Nat
           /\ next \in Nat /\ i \in Nat /\ lastAddr \in Nat /\ from \in Nat /\ to \in Nat
<1>1. /\ stream \in Seq(InstructionType) /\ matches \in Seq(MatchType)
      /\ lines \in Seq([kind : {"asm", "match"}, at : Nat])
  BY DEF TypeOK
<1>2. /\ DOMAIN stream = 1..Len(stream) /\ Len(stream) \in Nat
      /\ \A j \in DOMAIN stream : stream[j] \in InstructionType
  BY <1>1, LenProperties, ElementOfSeq
<1>3. /\ DOMAIN matches = 1..Len(matches) /\ Len(matches) \in Nat
      /\ \A j \in DOMAIN matches : matches[j] \in MatchType
  BY <1>1, LenProperties, ElementOfSeq
<1>4. /\ DOMAIN lines = 1..Len(lines) /\ Len(lines) \in Nat
      /\ \A j \in DOMAIN lines : lines[j] \in [kind : {"asm", "match"}, at : Nat]
  BY <1>1, LenProperties, ElementOfSeq
<1>5. next \in Nat /\ i \in Nat /\ lastAddr \in Nat /\ from \in Nat /\ to \in Nat
  BY <1>2, <1>3 DEF TypeOK
<1>6. \A j \in DOMAIN stream : /\ stream[j].addr \in Nat /\ stream[j].size \in Nat \ {0}
                               /\ stream[j].noise \in BOOLEAN
  BY <1>2 DEF InstructionType
<1>7. \A j \in DOMAIN matches : matches[j].start \in Nat /\ matches[j].end \in Nat
  BY <1>3 DEF MatchType
<1>8. \A j \in DOMAIN lines : lines[j].at \in Nat
  BY <1>4
<1> QED
  BY <1>2, <1>3, <1>4, <1>5, <1>6, <1>7, <1>8

(* Between two matches, or behind the last, no address is covered.           *)
LEMMA NotCovered ==
    ASSUME TypeOK, Sorted, pc # "sort", NEW a \in Nat,
           \A m \in DOMAIN matches : m < next => matches[m].end <= a,
           \A m \in DOMAIN matches : m >= next => a < matches[m].start
    PROVE  ~Covered(a)
<1> SUFFICES ASSUME NEW k \in DOMAIN given, given[k].start <= a, a < given[k].end PROVE FALSE
  BY DEF Covered
<1>1. PICK m \in DOMAIN matches : matches[m] = given[k]
  BY DEF Sorted
<1>2. m \in Nat /\ next \in Nat /\ matches[m].start \in Nat /\ matches[m].end \in Nat
  BY Facts
<1>3. CASE m < next
  BY <1>1, <1>2, <1>3
<1>4. CASE m >= next
  BY <1>1, <1>2, <1>4
<1> QED
  BY <1>2, <1>3, <1>4

(* The last match so far ends before all that follow start, and behind all   *)
(* that went before.                                                         *)
LEMMA AroundNext ==
    ASSUME TypeOK, Sorted, pc # "sort"
    PROVE  /\ next > 1 => next - 1 \in DOMAIN matches
           /\ \A m \in DOMAIN matches : m < next => matches[m].end <= matches[next - 1].end
           /\ \A m \in DOMAIN matches : m >= next /\ next > 1 => matches[next - 1].end <= matches[m].start
           /\ \A m \in DOMAIN matches : m >= next => matches[next].start <= matches[m].start
<1>1. /\ DOMAIN matches = 1..Len(matches) /\ Len(matches) \in Nat /\ next \in 1..Len(matches) + 1
      /\ \A j \in DOMAIN matches : matches[j].start \in Nat /\ matches[j].end \in Nat
      /\ \A j \in DOMAIN matches : matches[j].start < matches[j].end
      /\ \A j, k \in DOMAIN matches : j < k => matches[j].end <= matches[k].start
  BY Facts DEF TypeOK, Sorted
<1>2. next > 1 => next - 1 \in DOMAIN matches
  BY <1>1
<1>3. \A m \in DOMAIN matches : m < next => matches[m].end <= matches[next - 1].end
  <2> SUFFICES ASSUME NEW m \in DOMAIN matches, m < next
               PROVE  matches[m].end <= matches[next - 1].end
    OBVIOUS
  <2>1. next - 1 \in DOMAIN matches /\ (m = next - 1 \/ m < next - 1)
    BY <1>1
  <2> QED
    BY <1>1, <2>1
<1>4. \A m \in DOMAIN matches : m >= next /\ next > 1 => matches[next - 1].end <= matches[m].start
  <2> SUFFICES ASSUME NEW m \in DOMAIN matches, m >= next, next > 1
               PROVE  matches[next - 1].end <= matches[m].start
    OBVIOUS
  <2>1. next - 1 \in DOMAIN matches /\ next - 1 < m
    BY <1>1
  <2> QED
    BY <1>1, <2>1
<1>5. \A m \in DOMAIN matches : m >= next => matches[next].start <= matches[m].start
  <2> SUFFICES ASSUME NEW m \in DOMAIN matches, m >= next
               PROVE  matches[next].start <= matches[m].start
    OBVIOUS
  <2>1. next \in DOMAIN matches /\ (m = next \/ next < m)
    BY <1>1
  <2>2. CASE m = next
    BY <1>1, <2>2
  <2>3. CASE next < m
    BY <1>1, <2>1, <2>3
  <2> QED
    BY <2>1, <2>2, <2>3
<1> QED
  BY <1>2, <1>3, <1>4, <1>5

-----------------------------------------------------------------------------
(* Nothing is printed yet.                                                 *)
LEMMA InitInv == Init => ListingInv
<1> SUFFICES ASSUME Init PROVE ListingInv
  OBVIOUS
<1>1. PICK l \in Layouts : stream = l.stream /\ given = l.matches
  BY DEF Init
<1>2. /\ stream \in Seq(InstructionType) /\ given \in Seq(MatchType)
      /\ InOrder(stream) /\ Disjoint(given)
      /\ \A k \in DOMAIN given : given[k].start < given[k].end
  BY <1>1, LayoutsAssumption
<1>3. /\ matches = given /\ pc = "sort" /\ next = 1 /\ lastAddr = 0
      /\ from = 0 /\ to = 0 /\ i = 1 /\ lines = <<>>
  BY DEF Init
<1>4. Len(stream) \in Nat /\ Len(given) \in Nat
  BY <1>2, LenProperties
<1>5. lines \in Seq([kind : {"asm", "match"}, at : Nat]) /\ DOMAIN lines = {}
  BY <1>3, EmptySeq
<1>6. TypeOK
  <2>1. next \in 1..Len(matches) + 1 /\ i \in 1..Len(stream) + 1
    BY <1>3, <1>4
  <2>2. lastAddr \in Nat /\ from \in Nat /\ to \in Nat
    BY <1>3
  <2> QED
    BY <1>2, <1>3, <1>5, <2>1, <2>2 DEF TypeOK
<1>7. Input
  BY <1>2 DEF Input
<1>8. Sorted /\ Place /\ Behind /\ LinesInOrder
  BY <1>3, <1>5 DEF Sorted, Place, Behind, LinesInOrder
<1>9. Commented /\ Expanded
  <2>1. \A kind, at : ~Written(kind, at)
    BY <1>5 DEF Written
  <2>2. \A m \in DOMAIN matches : ~(m < next)
    BY <1>2, <1>3, LenProperties
  <2> QED
    BY <1>3, <2>1, <2>2 DEF Commented, Expanded, Passed
<1> QED
  BY <1>6, <1>7, <1>8, <1>9 DEF ListingInv

(* Sorting disjoint matches by their start puts them one behind the other.   *)
LEMMA SortInv ==
    ASSUME ListingInv, Sort
    PROVE  ListingInv'
<1> USE DEF ListingInv
<1>1. /\ pc = "sort" /\ pc' = "next" /\ UNCHANGED <<stream, given, next, from, to, i, lines>>
      /\ lastAddr' = IF stream # <<>> THEN stream[1].addr ELSE 0
  BY DEF Sort, input, raw
<1>2. PICK p \in Orders(DOMAIN given) :
         /\ matches' = [k \in DOMAIN given |-> given[p[k]]]
         /\ \A j, k \in DOMAIN given : j < k => given[p[j]].start <= given[p[k]].start
  BY DEF Sort
<1>3. /\ DOMAIN given = 1..Len(given) /\ Len(given) \in Nat
      /\ \A k \in DOMAIN given : given[k] \in MatchType
  BY LenProperties, ElementOfSeq DEF TypeOK
<1>4. /\ \A k \in DOMAIN given : p[k] \in DOMAIN given
      /\ \A x \in DOMAIN given : \E k \in DOMAIN given : p[k] = x
  BY <1>2 DEF Orders
<1>5. /\ DOMAIN matches' = DOMAIN given
      /\ \A k \in DOMAIN given : matches'[k] = given[p[k]]
  BY <1>2
<1>6. matches' \in Seq(MatchType) /\ Len(matches') = Len(given)
  <2>1. matches' \in [1..Len(given) -> MatchType]
    BY <1>2, <1>3, <1>4
  <2> QED
    BY <1>3, <2>1, SeqDef, LenProperties
<1>7. \A j, k \in DOMAIN given : j # k => p[j] # p[k]
  <2>1. IsFiniteSet(DOMAIN given)
    BY <1>3, FS_Interval
  <2>2. p \in Surjection(DOMAIN given, DOMAIN given)
    BY <1>2 DEF Orders, Surjection
  <2>3. p \in Injection(DOMAIN given, DOMAIN given)
    BY <2>1, <2>2, FS_SurjSameCardinalityImpliesInj
  <2> QED
    BY <2>3 DEF Injection, IsInjective
<1>8. Sorted'
  <2>1. \A k \in DOMAIN given : \E j \in DOMAIN matches' : matches'[j] = given[k]
    BY <1>4, <1>5
  <2>2. \A j \in DOMAIN matches' : \E k \in DOMAIN given : matches'[j] = given[k]
    BY <1>4, <1>5
  <2>3. \A j \in DOMAIN matches' : matches'[j].start < matches'[j].end
    BY <1>4, <1>5 DEF Input
  <2>4. \A j, k \in DOMAIN matches' : j < k => matches'[j].end <= matches'[k].start
    <3> SUFFICES ASSUME NEW j \in DOMAIN given, NEW k \in DOMAIN given, j < k
                 PROVE  given[p[j]].end <= given[p[k]].start
      BY <1>5
    <3>0. j # k
      BY <1>3
    <3>1. p[j] # p[k] /\ p[j] \in DOMAIN given /\ p[k] \in DOMAIN given
      BY <3>0, <1>4, <1>7
    <3>2. given[p[j]].end <= given[p[k]].start \/ given[p[k]].end <= given[p[j]].start
      BY <3>1 DEF Input, Disjoint
    <3>3. given[p[j]].start <= given[p[k]].start /\ given[p[k]].start < given[p[k]].end
      BY <1>2, <3>1 DEF Input
    <3>4. /\ given[p[j]].start \in Nat /\ given[p[j]].end \in Nat
          /\ given[p[k]].start \in Nat /\ given[p[k]].end \in Nat
      BY <1>3, <3>1 DEF MatchType
    <3> QED
      BY <3>2, <3>3, <3>4
  <2> QED
    BY <1>1, <2>1, <2>2, <2>3, <2>4 DEF Sorted
<1>9. lines = <<>> /\ next = 1 /\ DOMAIN lines = {}
  BY <1>1, Facts DEF Place
<1>10. lastAddr' \in Nat /\ \A j \in DOMAIN stream : lastAddr' <= stream[j].addr
  <2>1. CASE stream = <<>>
    BY <1>1, <2>1, Facts
  <2>2. CASE stream # <<>>
    <3>1. 1 \in DOMAIN stream
      BY <2>2, EmptySeq, Facts DEF TypeOK
    <3>2. DOMAIN stream = 1..Len(stream) /\ \A j \in DOMAIN stream : stream[j].addr \in Nat
      BY Facts
    <3>3. \A j \in DOMAIN stream : 1 < j => stream[1].addr < stream[j].addr
      BY <3>1 DEF Input, InOrder
    <3>4. \A j \in DOMAIN stream : stream[1].addr <= stream[j].addr
      <4> SUFFICES ASSUME NEW j \in DOMAIN stream PROVE stream[1].addr <= stream[j].addr
        OBVIOUS
      <4>1. j = 1 \/ 1 < j
        BY <3>2
      <4> QED
        BY <4>1, <3>1, <3>2, <3>3
    <3> QED
      BY <1>1, <2>2, <3>1, <3>2, <3>4
  <2> QED
    BY <2>1, <2>2
<1>11. TypeOK'
  <2>1. next' \in 1..Len(matches') + 1
    BY <1>1, <1>6 DEF TypeOK
  <2> QED
    BY <1>1, <1>6, <1>10, <2>1 DEF TypeOK
<1>12. Input' /\ Behind' /\ LinesInOrder'
  BY <1>1, <1>9 DEF Input, Behind, LinesInOrder
<1>13. Place'
  BY <1>1, <1>9, <1>10 DEF Place
<1>14. Commented'
  <2>1. \A kind, at : ~Written(kind, at)'
    BY <1>1, <1>9 DEF Written
  <2>2. \A j \in DOMAIN stream : ~Passed(j)'
    BY <1>1, <1>10, Facts DEF Passed
  <2> QED
    BY <1>1, <2>1, <2>2 DEF Commented
<1>15. Expanded'
  <2>1. \A m \in DOMAIN matches' : ~(m < next')
    BY <1>1, <1>3, <1>5, <1>9
  <2> QED
    BY <2>1 DEF Expanded
<1> QED
  BY <1>8, <1>11, <1>12, <1>13, <1>14, <1>15

(* Steps that write nothing keep what was written.                           *)
LEMMA NothingWritten ==
    ASSUME UNCHANGED <<stream, given, matches, next, lines>>, ListingInv, pc # "sort"
    PROVE  /\ Input' /\ Sorted' /\ Expanded' /\ LinesInOrder'
           /\ \A kind, at : Written(kind, at)' <=> Written(kind, at)
           /\ \A a : Covered(a)' <=> Covered(a)
BY DEF ListingInv, Input, Sorted, Expanded, LinesInOrder, Written, Covered

(* The listing turns to the instructions before the next match, or to it.  *)
LEMMA BeforeMatchInv ==
    ASSUME ListingInv, BeforeMatch
    PROVE  ListingInv'
<1> USE DEF ListingInv
<1> DEFINE start == matches[next].start
<1>1. /\ pc = "next" /\ next \in DOMAIN matches
      /\ UNCHANGED <<stream, given, matches, next, lastAddr, lines>>
      /\ \/ /\ lastAddr < start /\ pc' = "raw" /\ from' = lastAddr /\ to' = start /\ i' = 1
         \/ /\ ~(lastAddr < start) /\ pc' = "expand" /\ UNCHANGED <<from, to, i>>
  BY DEF BeforeMatch, Between, input, raw
<1>2. start \in Nat /\ lastAddr \in Nat /\ next \in Nat /\ Len(stream) \in Nat
      /\ \A j \in DOMAIN stream : stream[j].addr \in Nat /\ j >= 1
      /\ \A k \in DOMAIN lines : lines[k].at \in Nat
  BY <1>1, Facts
<1>3. TypeOK'
  <2>1. i' \in 1..Len(stream) + 1 /\ from' \in Nat /\ to' \in Nat
    BY <1>1, <1>2 DEF TypeOK
  <2> QED
    BY <1>1, <2>1 DEF TypeOK
<1>4. Input' /\ Sorted' /\ Expanded' /\ LinesInOrder'
  BY <1>1, NothingWritten
<1>5. next > 1 => lastAddr <= start
  BY <1>1, <1>2, AroundNext DEF Place
<1>6. next > 1 \/ lines = <<>>
  BY <1>1, <1>2, Facts DEF Place, TypeOK
<1>7. Place'
  BY <1>1, <1>2 DEF Place
<1>8. \A j \in DOMAIN stream : Passed(j)' <=> Passed(j)
  <2>1. \A j \in DOMAIN stream : Passed(j) <=> stream[j].addr < lastAddr
    BY <1>1 DEF Passed
  <2>2. CASE pc' = "raw"
    BY <1>1, <1>2, <2>1, <2>2 DEF Passed
  <2>3. CASE pc' = "expand"
    <3>1. \A j \in DOMAIN stream : stream[j].addr < lastAddr <=> stream[j].addr < start
      <4>1. CASE next > 1
        BY <1>1, <1>2, <1>5, <2>3, <4>1
      <4>2. CASE ~(next > 1)
        <5>1. next = 1
          BY <1>2, <4>2, Facts DEF TypeOK
        <5>2. \A j \in DOMAIN stream : lastAddr <= stream[j].addr
          BY <1>1, <5>1 DEF Place
        <5> QED
          BY <1>1, <1>2, <2>3, <5>2
      <4> QED
        BY <4>1, <4>2
    <3> QED
      BY <1>1, <2>1, <2>3, <3>1 DEF Passed
  <2> QED
    BY <1>1, <2>2, <2>3
<1>9. Commented'
  BY <1>1, <1>8, NothingWritten DEF Commented
<1>10. Behind'
  <2>1. CASE pc' = "raw"
    BY <1>1, <2>1 DEF Behind
  <2>2. CASE pc' = "expand"
    <3>1. CASE next > 1
      BY <1>1, <1>2, <1>5, <2>2, <3>1 DEF Behind
    <3>2. CASE lines = <<>>
      BY <1>1, <3>2 DEF Behind
    <3> QED
      BY <1>6, <3>1, <3>2
  <2> QED
    BY <1>1, <2>1, <2>2
<1> QED
  BY <1>3, <1>4, <1>7, <1>9, <1>10

(* The last instruction is behind all others.                                *)
LEMMA EndOfStream ==
    ASSUME TypeOK, Input
    PROVE  EndAddr \in Nat /\ \A j \in DOMAIN stream : stream[j].addr < EndAddr
<1>1. /\ DOMAIN stream = 1..Len(stream) /\ Len(stream) \in Nat /\ lastAddr \in Nat
      /\ \A j \in DOMAIN stream : stream[j].addr \in Nat /\ stream[j].size \in Nat \ {0}
  BY Facts
<1>2. CASE stream = <<>>
  <2>1. Len(stream) = 0
    BY <1>2, EmptySeq
  <2> QED
    BY <1>1, <1>2, <2>1 DEF EndAddr
<1>3. CASE stream # <<>>
  <2> DEFINE n == Len(stream)
  <2>1. n \in DOMAIN stream
    BY <1>1, <1>3, EmptySeq DEF TypeOK
  <2>2. EndAddr = stream[n].addr + stream[n].size
    BY <1>3 DEF EndAddr
  <2>3. \A j \in DOMAIN stream : stream[j].addr <= stream[n].addr
    <3> SUFFICES ASSUME NEW j \in DOMAIN stream PROVE stream[j].addr <= stream[n].addr
      OBVIOUS
    <3>1. j = n \/ j < n
      BY <1>1
    <3>2. j < n => stream[j].addr < stream[n].addr
      BY <2>1 DEF Input, InOrder
    <3> QED
      BY <1>1, <2>1, <3>1, <3>2
  <2> HIDE DEF n
  <2> QED
    BY <1>1, <2>1, <2>2, <2>3
<1> QED
  BY <1>2, <1>3

(* After the last match it turns to the instructions that are left.        *)
LEMMA BeforeEndInv ==
    ASSUME ListingInv, BeforeEnd
    PROVE  ListingInv'
<1> USE DEF ListingInv
<1>1. /\ pc = "next" /\ next \notin DOMAIN matches
      /\ UNCHANGED <<stream, given, matches, next, lastAddr, lines>>
      /\ \/ /\ lastAddr < EndAddr /\ pc' = "raw" /\ from' = lastAddr /\ to' = EndAddr /\ i' = 1
         \/ /\ ~(lastAddr < EndAddr) /\ pc' = "done" /\ UNCHANGED <<from, to, i>>
  BY DEF BeforeEnd, Between, input, raw
<1>2. lastAddr \in Nat /\ EndAddr \in Nat /\ Len(stream) \in Nat
      /\ \A j \in DOMAIN stream : stream[j].addr \in Nat /\ j >= 1 /\ stream[j].addr < EndAddr
  BY EndOfStream, Facts
<1>3. TypeOK'
  <2>1. i' \in 1..Len(stream) + 1 /\ from' \in Nat /\ to' \in Nat
    BY <1>1, <1>2 DEF TypeOK
  <2> QED
    BY <1>1, <2>1 DEF TypeOK
<1>4. Input' /\ Sorted' /\ Expanded' /\ LinesInOrder'
  BY <1>1, NothingWritten
<1>5. EndAddr' = EndAddr
  BY <1>1 DEF EndAddr
<1>6. Place'
  BY <1>1, <1>2, <1>5 DEF Place
<1>7. \A j \in DOMAIN stream : Passed(j)' <=> Passed(j)
  <2>1. \A j \in DOMAIN stream : Passed(j) <=> stream[j].addr < lastAddr
    BY <1>1 DEF Passed
  <2>2. CASE pc' = "raw"
    BY <1>1, <1>2, <2>1, <2>2 DEF Passed
  <2>3. CASE pc' = "done"
    BY <1>1, <1>2, <2>1, <2>3 DEF Passed
  <2> QED
    BY <1>1, <2>2, <2>3
<1>8. Commented'
  BY <1>1, <1>7, NothingWritten DEF Commented
<1>9. Behind'
  BY <1>1 DEF Behind
<1> QED
  BY <1>3, <1>4, <1>6, <1>8, <1>9

(* Where emitRawRange is called no match begins or goes on.                  *)
LEMMA RangeIsFree ==
    ASSUME ListingInv, pc = "raw", NEW j \in DOMAIN stream,
           from <= stream[j].addr, stream[j].addr < to
    PROVE  ~Covered(stream[j].addr)
<1> USE DEF ListingInv
<1> DEFINE a == stream[j].addr
<1>1. a \in Nat /\ next \in Nat /\ to \in Nat /\ from \in Nat /\ from = lastAddr
      /\ DOMAIN matches = 1..Len(matches) /\ Len(matches) \in Nat /\ next \in 1..Len(matches) + 1
      /\ \A m \in DOMAIN matches : matches[m].start \in Nat /\ matches[m].end \in Nat
  BY Facts DEF Place, TypeOK
<1>2. \A m \in DOMAIN matches : m < next => matches[m].end <= a
  <2> SUFFICES ASSUME NEW m \in DOMAIN matches, m < next PROVE matches[m].end <= a
    OBVIOUS
  <2>1. next > 1 /\ next - 1 \in DOMAIN matches
    BY <1>1
  <2>2. lastAddr = matches[next - 1].end /\ matches[m].end <= matches[next - 1].end
    BY <2>1, AroundNext DEF Place
  <2> QED
    BY <1>1, <2>1, <2>2
<1>3. \A m \in DOMAIN matches : m >= next => a < matches[m].start
  <2> SUFFICES ASSUME NEW m \in DOMAIN matches, m >= next PROVE a < matches[m].start
    OBVIOUS
  <2>1. next \in DOMAIN matches
    BY <1>1
  <2>2. to = matches[next].start /\ matches[next].start <= matches[m].start
    BY <2>1, AroundNext DEF Place
  <2> QED
    BY <1>1, <2>1, <2>2
<1> QED
  BY <1>1, <1>2, <1>3, NotCovered

(* An instruction is printed raw, or left out.                             *)
LEMMA CommentInv ==
    ASSUME ListingInv, Comment
    PROVE  ListingInv'
<1> USE DEF ListingInv
<1> DEFINE a == stream[i].addr
           line == [kind |-> "asm", at |-> a]
           W == from <= a /\ a < to /\ ~stream[i].noise
<1>1. /\ pc = "raw" /\ pc' = "raw" /\ i \in DOMAIN stream /\ i' = i + 1
      /\ UNCHANGED <<stream, given, matches, next, lastAddr, from, to>>
      /\ lines' = IF W THEN Append(lines, line) ELSE lines
  BY DEF Comment, input
<1>2. /\ a \in Nat /\ i \in Nat /\ from \in Nat /\ to \in Nat /\ Len(stream) \in Nat
      /\ DOMAIN stream = 1..Len(stream)
      /\ \A j \in DOMAIN stream : stream[j].addr \in Nat /\ stream[j].noise \in BOOLEAN
      /\ \A k \in DOMAIN lines : lines[k].at \in Nat
      /\ lines \in Seq(LineType) /\ line \in LineType
  BY <1>1, Facts DEF TypeOK, LineType
<1>3. \A j \in DOMAIN stream : (j < i => stream[j].addr < a) /\ (j > i => a < stream[j].addr)
  BY <1>1 DEF Input, InOrder
<1>4. W => \A k \in DOMAIN lines : lines[k].at < a
  BY <1>1, <1>2, <1>3 DEF Behind
<1>5. /\ lines' \in Seq(LineType)
      /\ LinesInOrder'
      /\ \A kind, at : Written(kind, at)' <=> Written(kind, at) \/ (W /\ [kind |-> kind, at |-> at] = line)
      /\ \A k \in DOMAIN lines' : (W /\ lines'[k] = line) \/ \E j \in DOMAIN lines : lines'[k] = lines[j]
  <2>1. CASE W
    <3>1. \A j, k \in DOMAIN lines : j < k => lines[j].at < lines[k].at
      BY DEF LinesInOrder
    <3>2. LET more == Append(lines, line)
          IN  /\ more \in Seq(LineType)
              /\ \A j, k \in DOMAIN more : j < k => more[j].at < more[k].at
              /\ \A x : (\E k \in DOMAIN more : more[k] = x)
                          <=> x = line \/ \E k \in DOMAIN lines : lines[k] = x
              /\ \A k \in DOMAIN more : more[k] = line \/ \E j \in DOMAIN lines : more[k] = lines[j]
      <4>1. lines \in Seq(LineType) /\ line \in LineType
        BY <1>2
      <4>2. \A k \in DOMAIN lines : lines[k].at < line.at
        BY <1>4, <2>1
      <4> HIDE DEF line, W
      <4> QED
        BY <3>1, <4>1, <4>2, AppendLine
    <3>3. lines' = Append(lines, line)
      BY <1>1, <2>1
    <3> HIDE DEF line, W
    <3> QED
      BY <2>1, <3>2, <3>3 DEF LinesInOrder, Written
  <2>2. CASE ~W
    BY <1>1, <1>2, <2>2 DEF LinesInOrder, Written
  <2> QED
    BY <2>1, <2>2
<1>6. TypeOK'
  <2>1. i' \in 1..Len(stream) + 1
    BY <1>1, <1>2
  <2> QED
    BY <1>1, <1>5, <2>1 DEF TypeOK, LineType
<1>7. Input' /\ Sorted' /\ Place'
  BY <1>1 DEF Input, Sorted, Place, EndAddr
<1>8. Expanded'
  BY <1>1, <1>5 DEF Expanded
<1>9. Commented'
  <2> SUFFICES ASSUME NEW j \in DOMAIN stream
               PROVE  Written("asm", stream[j].addr)'
                        <=> ~stream[j].noise /\ ~Covered(stream[j].addr) /\ Passed(j)'
    BY <1>1 DEF Commented, Covered
  <2>1. Written("asm", stream[j].addr) <=> ~stream[j].noise /\ ~Covered(stream[j].addr) /\ Passed(j)
    BY DEF Commented
  <2>2. Written("asm", stream[j].addr)' <=> Written("asm", stream[j].addr) \/ (W /\ stream[j].addr = a)
    BY <1>1, <1>5
  <2>3. /\ Passed(j) <=> stream[j].addr < from \/ (j < i /\ stream[j].addr < to)
        /\ Passed(j)' <=> stream[j].addr < from \/ (j < i + 1 /\ stream[j].addr < to)
    BY <1>1 DEF Passed
  <2>4. CASE j = i
    <3>1. from <= a /\ a < to => ~Covered(a)
      BY <1>1, RangeIsFree
    <3>2. from < to
      BY <1>1 DEF Place
    <3> HIDE DEF a
    <3>3. stream[j].addr = a /\ a \in Nat /\ from \in Nat /\ to \in Nat
      BY <1>2, <2>4 DEF a
    <3>4. W <=> from <= a /\ a < to /\ ~stream[j].noise
      BY <2>4
    <3>5. Passed(j) <=> a < from
      BY <1>2, <2>3, <2>4, <3>3
    <3>6. Passed(j)' <=> a < from \/ a < to
      BY <1>2, <2>3, <2>4, <3>3
    <3>7. a < from => a < to
      BY <3>2, <3>3
    <3>8. a < from \/ from <= a
      BY <3>3
    <3> HIDE DEF W
    <3> QED
      BY <2>1, <2>2, <3>1, <3>3, <3>4, <3>5, <3>6, <3>7, <3>8
  <2>5. CASE j # i
    <3>1. stream[j].addr # a
      BY <1>2, <1>3, <2>5
    <3>2. Passed(j)' <=> Passed(j)
      BY <1>2, <2>3, <2>5
    <3> QED
      BY <2>1, <2>2, <3>1, <3>2
  <2> QED
    BY <2>4, <2>5
<1>10. Behind'
  <2> SUFFICES ASSUME NEW k \in DOMAIN lines'
               PROVE  \/ lines'[k].at < from
                      \/ /\ lines'[k].at < to
                         /\ \E j \in DOMAIN stream : j < i + 1 /\ lines'[k].at = stream[j].addr
    BY <1>1 DEF Behind
  <2>1. CASE W /\ lines'[k] = line
    <3>1. lines'[k].at = stream[i].addr /\ stream[i].addr < to
      BY <2>1
    <3>2. i \in DOMAIN stream /\ i < i + 1
      BY <1>1, <1>2
    <3> QED
      BY <3>1, <3>2
  <2>2. CASE \E j \in DOMAIN lines : lines'[k] = lines[j]
    <3>1. PICK l \in DOMAIN lines : lines'[k] = lines[l]
      BY <2>2
    <3>2. \/ lines[l].at < from
          \/ /\ lines[l].at < to
             /\ \E j \in DOMAIN stream : j < i /\ lines[l].at = stream[j].addr
      BY <1>1 DEF Behind
    <3>3. \A j \in DOMAIN stream : j < i => j < i + 1
      BY <1>2
    <3> QED
      BY <3>1, <3>2, <3>3
  <2> QED
    BY <1>5, <2>1, <2>2
<1> QED
  BY <1>5, <1>6, <1>7, <1>8, <1>9, <1>10

(* The raw instructions end; the match or the end of the listing follows.  *)
LEMMA EndRawInv ==
    ASSUME ListingInv, EndRaw
    PROVE  ListingInv'
<1> USE DEF ListingInv
<1>1. /\ pc = "raw" /\ i \notin DOMAIN stream
      /\ pc' = IF next \in DOMAIN matches THEN "expand" ELSE "done"
      /\ UNCHANGED <<stream, given, matches, next, lastAddr, from, to, i, lines>>
  BY DEF EndRaw, input, raw
<1>2. /\ from \in Nat /\ to \in Nat /\ from < to
      /\ \A j \in DOMAIN stream : stream[j].addr \in Nat
      /\ \A k \in DOMAIN lines : lines[k].at \in Nat
  BY <1>1, Facts DEF Place
<1>3. \A j \in DOMAIN stream : j < i
  BY <1>1, Facts DEF TypeOK
<1>4. TypeOK'
  BY <1>1 DEF TypeOK
<1>5. Input' /\ Sorted' /\ Expanded' /\ LinesInOrder'
  BY <1>1, NothingWritten
<1>6. Place'
  BY <1>1 DEF Place
<1>7. \A j \in DOMAIN stream : Passed(j)' <=> Passed(j)
  <2>1. \A j \in DOMAIN stream : Passed(j) <=> stream[j].addr < to
    BY <1>1, <1>2, <1>3 DEF Passed
  <2>2. CASE next \in DOMAIN matches
    BY <1>1, <2>1, <2>2 DEF Passed, Place
  <2>3. CASE next \notin DOMAIN matches
    BY <1>1, <2>1, <2>3, EndOfStream DEF Passed, Place
  <2> QED
    BY <2>2, <2>3
<1>8. Commented'
  BY <1>1, <1>7, NothingWritten DEF Commented
<1>9. Behind'
  <2>1. \A k \in DOMAIN lines : lines[k].at < to
    BY <1>1, <1>2 DEF Behind
  <2> QED
    BY <1>1, <2>1 DEF Behind, Place
<1> QED
  BY <1>4, <1>5, <1>6, <1>8, <1>9

(* A match is printed and its range passed.                                *)
LEMMA ExpandInv ==
    ASSUME ListingInv, Expand
    PROVE  ListingInv'
<1> USE DEF ListingInv
<1> DEFINE m == matches[next]
           line == [kind |-> "match", at |-> m.start]
<1>1. /\ pc = "expand" /\ pc' = "next" /\ next \in DOMAIN matches /\ next' = next + 1
      /\ lines' = Append(lines, line) /\ lastAddr' = m.end
      /\ UNCHANGED <<stream, given, matches, from, to, i>>
  BY DEF Expand, input, raw, Place
<1>2. /\ m.start \in Nat /\ m.end \in Nat /\ next \in Nat /\ m.start < m.end
      /\ DOMAIN matches = 1..Len(matches) /\ Len(matches) \in Nat /\ next \in 1..Len(matches)
      /\ \A j \in DOMAIN stream : stream[j].addr \in Nat
      /\ \A k \in DOMAIN lines : lines[k].at \in Nat
  BY <1>1, Facts DEF Sorted
<1>3. lines \in Seq(LineType) /\ line \in LineType
  BY <1>2 DEF TypeOK, LineType
<1>4. \A k \in DOMAIN lines : lines[k].at < m.start
  BY <1>1 DEF Behind
<1>5. /\ lines' \in Seq(LineType)
      /\ LinesInOrder'
      /\ \A kind, at : Written(kind, at)' <=> Written(kind, at) \/ [kind |-> kind, at |-> at] = line
      /\ \A k \in DOMAIN lines' : lines'[k] = line \/ \E j \in DOMAIN lines : lines'[k] = lines[j]
  <2>1. \A j, k \in DOMAIN lines : j < k => lines[j].at < lines[k].at
    BY DEF LinesInOrder
  <2>2. \A k \in DOMAIN lines : lines[k].at < line.at
    BY <1>4
  <2> HIDE DEF line
  <2>3. LET more == Append(lines, line)
        IN  /\ more \in Seq(LineType)
            /\ \A j, k \in DOMAIN more : j < k => more[j].at < more[k].at
            /\ \A x : (\E k \in DOMAIN more : more[k] = x)
                        <=> x = line \/ \E k \in DOMAIN lines : lines[k] = x
            /\ \A k \in DOMAIN more : more[k] = line \/ \E j \in DOMAIN lines : more[k] = lines[j]
    BY <1>3, <2>1, <2>2, AppendLine
  <2> QED
    BY <1>1, <2>3 DEF LinesInOrder, Written
<1>6. TypeOK'
  <2>1. next' \in 1..Len(matches) + 1
    BY <1>1, <1>2
  <2> QED
    BY <1>1, <1>2, <1>5, <2>1 DEF TypeOK, LineType
<1>7. Input' /\ Sorted'
  BY <1>1 DEF Input, Sorted
<1>8. Place'
  BY <1>1, <1>2 DEF Place
<1>9. Expanded'
  <2> SUFFICES ASSUME NEW k \in DOMAIN matches, k < next + 1
               PROVE  Written("match", matches[k].start)'
    BY <1>1 DEF Expanded
  <2>0. matches' = matches
    BY <1>1
  <2>1. k = next \/ k < next
    <3>1. k \in Nat /\ next \in Nat
      BY <1>2
    <3> QED
      BY <3>1
  <2>2. CASE k = next
    <3>1. [kind |-> "match", at |-> matches[k].start] = line
      BY <2>2
    <3> HIDE DEF line
    <3>2. \A kind, at : Written(kind, at)' <=> Written(kind, at) \/ [kind |-> kind, at |-> at] = line
      BY <1>5
    <3> QED
      BY <3>1, <3>2, <2>0
  <2>3. CASE k < next
    <3>1. Written("match", matches[k].start)
      BY <2>3 DEF Expanded
    <3> HIDE DEF line
    <3>2. \A kind, at : Written(kind, at)' <=> Written(kind, at) \/ [kind |-> kind, at |-> at] = line
      BY <1>5
    <3> QED
      BY <3>1, <3>2, <2>0
  <2> QED
    BY <2>1, <2>2, <2>3
<1>10. Commented'
  <2> SUFFICES ASSUME NEW j \in DOMAIN stream
               PROVE  Written("asm", stream[j].addr)'
                        <=> ~stream[j].noise /\ ~Covered(stream[j].addr) /\ Passed(j)'
    BY <1>1 DEF Commented, Covered
  <2>1. Written("asm", stream[j].addr) <=> ~stream[j].noise /\ ~Covered(stream[j].addr) /\ Passed(j)
    BY DEF Commented
  <2>2. Written("asm", stream[j].addr)' <=> Written("asm", stream[j].addr)
    <3>1. [kind |-> "asm", at |-> stream[j].addr].kind # line.kind
      OBVIOUS
    <3>2. [kind |-> "asm", at |-> stream[j].addr] # line
      BY <3>1
    <3> HIDE DEF line
    <3>3. stream' = stream
      BY <1>1
    <3>4. \A kind, at : Written(kind, at)' <=> Written(kind, at) \/ [kind |-> kind, at |-> at] = line
      BY <1>5
    <3> QED
      BY <3>2, <3>3, <3>4
  <2>3. (Passed(j) <=> stream[j].addr < m.start) /\ (Passed(j)' <=> stream[j].addr < m.end)
    BY <1>1 DEF Passed
  <2>4. m.start <= stream[j].addr /\ stream[j].addr < m.end => Covered(stream[j].addr)
    BY <1>1 DEF Sorted, Covered
  <2> QED
    BY <1>2, <2>1, <2>2, <2>3, <2>4
<1>11. Behind'
  <2> SUFFICES ASSUME NEW k \in DOMAIN lines' PROVE lines'[k].at < m.end
    BY <1>1 DEF Behind
  <2>1. CASE lines'[k] = line
    BY <1>2, <2>1
  <2>2. CASE \E j \in DOMAIN lines : lines'[k] = lines[j]
    BY <1>2, <1>4, <2>2
  <2> QED
    BY <1>5, <2>1, <2>2
<1> QED
  BY <1>5, <1>6, <1>7, <1>8, <1>9, <1>10, <1>11

(* Every step keeps the invariant.                                         *)
LEMMA StepInv == ListingInv /\ [Next]_vars => ListingInv'
<1> SUFFICES ASSUME ListingInv, [Next]_vars PROVE ListingInv'
  OBVIOUS
<1>1. CASE Sort
  BY <1>1, SortInv
<1>2. CASE BeforeMatch
  BY <1>2, BeforeMatchInv
<1>3. CASE BeforeEnd
  BY <1>3, BeforeEndInv
<1>4. CASE Comment
  BY <1>4, CommentInv
<1>5. CASE EndRaw
  BY <1>5, EndRawInv
<1>6. CASE Expand
  BY <1>6, ExpandInv
<1>7. CASE UNCHANGED vars
  <2>1. UNCHANGED <<stream, given, matches, pc, next, lastAddr, from, to, i, lines>>
    BY <1>7 DEF vars
  <2>2. TypeOK' /\ Input' /\ Sorted' /\ Place'
    BY <2>1 DEF ListingInv, TypeOK, Input, Sorted, Place, EndAddr
  <2>3. Commented' /\ Expanded' /\ Behind' /\ LinesInOrder'
    BY <2>1 DEF ListingInv, Commented, Expanded, Behind, LinesInOrder, Written, Covered, Passed
  <2> QED
    BY <2>2, <2>3 DEF ListingInv
<1> QED
  BY <1>1, <1>2, <1>3, <1>4, <1>5, <1>6, <1>7 DEF Next, Returned

(* The inductive invariant holds for every stream and all disjoint matches.  *)
THEOREM ListingInvariant == Spec => []ListingInv
<1> QED
  BY InitInv, StepInv, PTL DEF Spec

(* Type correctness of the listing's loops (generate.go:51).                 *)
THEOREM ListingTypeCorrect == Spec => []TypeOK
<1>1. ListingInv => TypeOK
  BY DEF ListingInv
<1> QED
  BY <1>1, ListingInvariant, PTL

(* The lines are always in address order and none is there twice, however    *)
(* the matches were ordered (generate.go:52).                                *)
THEOREM ListingIsInOrder == Spec => []LinesInOrder
<1>1. ListingInv => LinesInOrder
  BY DEF ListingInv
<1> QED
  BY <1>1, ListingInvariant, PTL

(* The listing Generate returns tells every match and every instruction      *)
(* outside all matches (generate.go:77).                                     *)
THEOREM ListingTellsAll == Spec => []ListingIsWhole
<1>1. ListingInv => ListingIsWhole
  <2> SUFFICES ASSUME ListingInv, pc = "done"
               PROVE  /\ \A k \in DOMAIN given : Written("match", given[k].start)
                      /\ \A j \in DOMAIN stream :
                           Written("asm", stream[j].addr)
                             <=> ~stream[j].noise /\ ~Covered(stream[j].addr)
    BY DEF ListingIsWhole
  <2>1. \A j \in DOMAIN matches : j < next
    <3>1. next \notin DOMAIN matches
      BY DEF ListingInv, Place
    <3>2. next \in 1..Len(matches) + 1 /\ DOMAIN matches = 1..Len(matches) /\ Len(matches) \in Nat
      BY Facts DEF ListingInv, TypeOK
    <3> QED
      BY <3>1, <3>2
  <2>2. \A k \in DOMAIN given : Written("match", given[k].start)
    BY <2>1 DEF ListingInv, Expanded, Sorted
  <2>3. \A j \in DOMAIN stream :
          Written("asm", stream[j].addr) <=> ~stream[j].noise /\ ~Covered(stream[j].addr)
    BY DEF ListingInv, Commented, Passed
  <2> QED
    BY <2>2, <2>3
<1> QED
  BY <1>1, ListingInvariant, PTL
=============================================================================
