----------------------------- MODULE FlatOutput -----------------------------
(* The flat listing: Generate and emitRawRange (pattern/generate/generate.go) *)
(* write the matches by address and, as comments, the instructions that lie  *)
(* between them. Each iteration of the two loops is a step. A listing is the *)
(* sequence of its lines; what a template expands to is left out.            *)
EXTENDS Integers, Sequences

CONSTANT Layouts    \* records stream, the user instructions [addr, size, noise],
                    \* and matches, as resolveConflicts returns them, [start, end]

VARIABLES
    stream,         \* g.instructions
    given, matches, \* g.matches as they were and as they are
    pc,
    next, lastAddr, \* the match Generate is at, and the address behind the last
    from, to,       \* the range emitRawRange is called with
    i,              \* the instruction it is at
    lines           \* what is written: [kind, at]

vars == <<stream, given, matches, pc, next, lastAddr, from, to, i, lines>>

InstructionType == [addr : Nat, size : Nat \ {0}, noise : BOOLEAN]
MatchType == [start : Nat, end : Nat]

(* Instructions are in address order, matches are not empty and disjoint:    *)
(* UserStream and Matcher show it of theirs.                                 *)
InOrder(insts) == \A j, k \in DOMAIN insts : j < k => insts[j].addr < insts[k].addr
Disjoint(ms) ==
    \A j, k \in DOMAIN ms : j # k => ms[j].end <= ms[k].start \/ ms[k].end <= ms[j].start

ASSUME LayoutsAssumption ==
    \A l \in Layouts :
        /\ l.stream \in Seq(InstructionType) /\ InOrder(l.stream)
        /\ l.matches \in Seq(MatchType) /\ Disjoint(l.matches)
        /\ \A j \in DOMAIN l.matches : l.matches[j].start < l.matches[j].end

Init ==
    /\ \E l \in Layouts : stream = l.stream /\ given = l.matches
    /\ matches = given
    /\ pc = "sort"
    /\ next = 1 /\ lastAddr = 0
    /\ from = 0 /\ to = 0 /\ i = 1
    /\ lines = <<>>

input == <<stream, given>>
raw == <<from, to, i>>

Orders(S) == {p \in [S -> S] : \A x \in S : \E y \in S : p[y] = x}

(* A mistake: the matches are left as the conflict resolution ordered them.  *)
SortNothing ==
    /\ pc = "sort"
    /\ lastAddr' = IF stream # <<>> THEN stream[1].addr ELSE 0
    /\ pc' = "next"
    /\ UNCHANGED <<input, matches, next, raw, lines>>

(* The matches are sorted in place.                                          *)
Sort ==
    /\ pc = "sort"
    /\ \E p \in Orders(DOMAIN given) :
         /\ matches' = [k \in DOMAIN given |-> given[p[k]]]
         /\ \A j, k \in DOMAIN given : j < k => given[p[j]].start <= given[p[k]].start
    /\ lastAddr' = IF stream # <<>> THEN stream[1].addr ELSE 0
    /\ pc' = "next"
    /\ UNCHANGED <<input, next, raw, lines>>

(* emitRawRange is called where there is room for an instruction.            *)
Between(start, end, otherwise) ==
    /\ IF start < end
       THEN pc' = "raw" /\ from' = start /\ to' = end /\ i' = 1
       ELSE pc' = otherwise /\ UNCHANGED raw
    /\ UNCHANGED <<input, matches, next, lastAddr, lines>>

BeforeMatch ==
    /\ pc = "next" /\ next \in DOMAIN matches
    /\ Between(lastAddr, matches[next].start, "expand")

EndAddr ==
    IF stream = <<>> THEN lastAddr
    ELSE stream[Len(stream)].addr + stream[Len(stream)].size

(* A mistake: the range ends where the last instruction starts.              *)
BeforeLast ==
    /\ pc = "next" /\ next \notin DOMAIN matches
    /\ Between(lastAddr, IF stream = <<>> THEN lastAddr ELSE stream[Len(stream)].addr, "done")

BeforeEnd ==
    /\ pc = "next" /\ next \notin DOMAIN matches
    /\ Between(lastAddr, EndAddr, "done")

Comment ==
    /\ pc = "raw" /\ i \in DOMAIN stream
    /\ lines' = IF from <= stream[i].addr /\ stream[i].addr < to /\ ~stream[i].noise
                THEN Append(lines, [kind |-> "asm", at |-> stream[i].addr])
                ELSE lines
    /\ i' = i + 1
    /\ UNCHANGED <<input, matches, pc, next, lastAddr, from, to>>

EndRaw ==
    /\ pc = "raw" /\ i \notin DOMAIN stream
    /\ pc' = IF next \in DOMAIN matches THEN "expand" ELSE "done"
    /\ UNCHANGED <<input, matches, next, lastAddr, raw, lines>>

Expand ==
    /\ pc = "expand"
    /\ lines' = Append(lines, [kind |-> "match", at |-> matches[next].start])
    /\ lastAddr' = matches[next].end
    /\ next' = next + 1
    /\ pc' = "next"
    /\ UNCHANGED <<input, matches, raw>>

Returned == pc = "done" /\ UNCHANGED vars

Next ==
    \/ Sort
    \/ BeforeMatch \/ BeforeEnd
    \/ Comment \/ EndRaw
    \/ Expand
    \/ Returned

Spec == Init /\ [][Next]_vars

-----------------------------------------------------------------------------
(* Types; the loops stay in their bounds.                                    *)
TypeOK ==
    /\ stream \in Seq(InstructionType)
    /\ given \in Seq(MatchType)
    /\ matches \in Seq(MatchType) /\ Len(matches) = Len(given)
    /\ pc \in {"sort", "next", "raw", "expand", "done"}
    /\ next \in 1..Len(matches) + 1
    /\ pc = "expand" => next \in DOMAIN matches
    /\ i \in 1..Len(stream) + 1
    /\ lastAddr \in Nat /\ from \in Nat /\ to \in Nat
    /\ lines \in Seq([kind : {"asm", "match"}, at : Nat])

(* The lines are in address order, each instruction and each match at most   *)
(* once, in whatever order the matches were kept (generate.go:52).           *)
LinesInOrder == \A j, k \in DOMAIN lines : j < k => lines[j].at < lines[k].at

Written(kind, at) == \E k \in DOMAIN lines : lines[k] = [kind |-> kind, at |-> at]
Covered(addr) ==
    \E k \in DOMAIN given : given[k].start <= addr /\ addr < given[k].end

(* In the end every match is expanded and exactly the instructions outside   *)
(* all of them are there as comments, padding left aside: nothing is lost    *)
(* and nothing is told twice (generate.go:77).                               *)
ListingIsWhole ==
    pc = "done" =>
        /\ \A k \in DOMAIN given : Written("match", given[k].start)
        /\ \A j \in DOMAIN stream :
             Written("asm", stream[j].addr) <=> ~stream[j].noise /\ ~Covered(stream[j].addr)
=============================================================================
