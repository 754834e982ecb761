-------------------------- MODULE ControlStructure --------------------------
(***************************************************************************)
(* StructureControlFlow of disasm/structure.go: dominators by Lengauer and *)
(* Tarjan's algorithm, post-dominators, loops and block kinds of a control *)
(* flow graph. Blocks are numbered from 1, the entry; 0 stands for the -1  *)
(* of the code. Each step is one iteration of one of its loops.            *)
(***************************************************************************)
EXTENDS SequencesExt

CONSTANTS Graphs,    \* the successor lists StructureControlFlow is given
          Endings    \* what the instructions of a block may be: see Ending

VARIABLES
  succ,              \* block -> its successors, in order
  ending,            \* block -> Ending
  pc,
  stack,             \* the calls of dfs that have not returned
  vertex,            \* the blocks in the order dfs reached them
  parent, semi, label, ancestor, bucket, idom,
  i, p,              \* the vertex and the neighbour the loops are at
  pdom, kind

vars == <<succ, ending, pc, stack, vertex, parent, semi, label, ancestor,
          bucket, idom, i, p, pdom, kind>>

(* cond: some instruction is a conditional jump; last: the last one.       *)
Ending == [cond : BOOLEAN, last : {"RET", "JMP", "other"}]

Kinds == {"plain", "if-then", "if-else", "loop-head", "loop-body", "exit"}

Blocks == DOMAIN succ

ASSUME GraphsAssumption ==
  \A g \in Graphs : g # << >> /\ g \in Seq(Seq(DOMAIN g))

ASSUME EndingsAssumption == Endings \subseteq Ending

Init ==
  /\ succ \in Graphs
  /\ ending \in [Blocks -> Endings]
  /\ pc = "dfs"
  /\ stack = <<1>> /\ vertex = <<1>>
  /\ parent   = [b \in Blocks |-> 0]
  /\ semi     = [b \in Blocks |-> b]
  /\ label    = [b \in Blocks |-> b]
  /\ ancestor = [b \in Blocks |-> 0]
  /\ bucket   = [b \in Blocks |-> << >>]
  /\ idom     = [b \in Blocks |-> 0]
  /\ i = 0 /\ p = 0
  /\ pdom = [b \in Blocks |-> 0]
  /\ kind = [b \in Blocks |-> "plain"]

graph == <<succ, ending>>

-----------------------------------------------------------------------------
(* computeDominators: the depth-first search. A block has a number, its    *)
(* position in vertex, once dfs reached it.                                *)
Reached == Range(vertex)

dfnum(b) == CHOOSE k \in DOMAIN vertex : vertex[k] = b

Unreached(b) == {k \in DOMAIN succ[b] : succ[b][k] \notin Reached}

DfsVisit ==
  /\ pc = "dfs"
  /\ stack # << >>
  /\ Unreached(Last(stack)) # {}
  /\ LET s == succ[Last(stack)][Min(Unreached(Last(stack)))]
     IN  /\ parent' = [parent EXCEPT ![s] = Last(stack)]
         /\ vertex' = Append(vertex, s)
         /\ stack'  = Append(stack, s)
  /\ UNCHANGED <<graph, pc, semi, label, ancestor, bucket, idom, i, p, pdom, kind>>

DfsReturn ==
  /\ pc = "dfs"
  /\ stack # << >>
  /\ Unreached(Last(stack)) = {}
  /\ stack' = Front(stack)
  /\ UNCHANGED <<graph, pc, vertex, parent, semi, label, ancestor, bucket, idom,
                 i, p, pdom, kind>>

StartSemi ==
  /\ pc = "dfs"
  /\ stack = << >>
  /\ pc' = "semi"
  /\ i' = Len(vertex)
  /\ UNCHANGED <<graph, stack, vertex, parent, semi, label, ancestor, bucket,
                 idom, p, pdom, kind>>

-----------------------------------------------------------------------------
(* What is met from b up, along ancestor or idom, b included.              *)
Upward(above, b) ==
  LET up[k \in 1 .. Len(succ)] ==
        IF k = 1 THEN b ELSE IF up[k - 1] = 0 THEN 0 ELSE above[up[k - 1]]
  IN  {up[k] : k \in 1 .. Len(succ)} \ {0}

(* A fault: the blocks' indexes are compared instead of their numbers.     *)
SemiIndex(b) == semi[b]

SemiNumber(b) == dfnum(semi[b])

Root(v) == CHOOSE r \in Upward(ancestor, v) : ancestor[r] = 0

Linked(v) == {b \in Upward(ancestor, v) : ancestor[b] # 0}

(* A fault: labels are not compared along the path.                        *)
OwnLabel(v) == label[v]

(* The label with the lowest semi-dominator from v up to below the root,   *)
(* the lowest block's where there are several.                             *)
BestLabel(v) ==
  LET best == CHOOSE b \in Linked(v) :
                \A c \in Linked(v) :
                  \/ SemiNumber(label[b]) < SemiNumber(label[c])
                  \/ SemiNumber(label[b]) = SemiNumber(label[c]) /\ dfnum(b) >= dfnum(c)
  IN  label[best]

(* evalLT with compressLT: the linked blocks from v up come to hang off    *)
(* the root, each with the best label of those it had above it.            *)
Eval(v) ==
  LET root == Root(v)
  IN  IF ancestor[v] = 0
      THEN [u |-> label[v], label |-> label, ancestor |-> ancestor]
      ELSE [u |-> IF SemiNumber(label[root]) < SemiNumber(BestLabel(v))
                  THEN label[root] ELSE BestLabel(v),
            label |-> [b \in Blocks |-> IF b \in Linked(v) THEN BestLabel(b) ELSE label[b]],
            ancestor |-> [b \in Blocks |-> IF b \in Linked(v) THEN root ELSE ancestor[b]]]

-----------------------------------------------------------------------------
(* computeDominators: the vertices backwards, without the entry, and of    *)
(* each the predecessors in the order of the blocks, p the last one seen.  *)
Preds(b) == {a \in Blocks : b \in Range(succ[a])}

LeftPreds == {v \in Preds(vertex[i]) : v > p}

EvalPredecessor ==
  /\ pc = "semi"
  /\ i > 1
  /\ LeftPreds # {}
  /\ LET v == Min(LeftPreds)
         w == vertex[i]
     IN  /\ IF v \in Reached
            THEN /\ semi' = IF SemiNumber(Eval(v).u) < SemiNumber(w)
                            THEN [semi EXCEPT ![w] = semi[Eval(v).u]] ELSE semi
                 /\ label' = Eval(v).label
                 /\ ancestor' = Eval(v).ancestor
            ELSE UNCHANGED <<semi, label, ancestor>>
         /\ p' = v
  /\ UNCHANGED <<graph, pc, stack, vertex, parent, bucket, idom, i, pdom, kind>>

Link ==
  /\ pc = "semi"
  /\ i > 1
  /\ LeftPreds = {}
  /\ bucket' = [bucket EXCEPT ![semi[vertex[i]]] = Append(@, vertex[i])]
  /\ ancestor' = [ancestor EXCEPT ![vertex[i]] = parent[vertex[i]]]
  /\ pc' = "bucket"
  /\ UNCHANGED <<graph, stack, vertex, parent, semi, label, idom, i, p, pdom, kind>>

(* The dominator noted for v is the semi-dominator of u, not u.            *)
EmptyBucket ==
  /\ pc = "bucket"
  /\ LET b == parent[vertex[i]]
         v == Head(bucket[b])
     IN  /\ bucket[b] # << >>
         /\ idom' = [idom EXCEPT ![v] =
                       IF SemiNumber(Eval(v).u) < SemiNumber(v)
                       THEN semi[Eval(v).u] ELSE b]
         /\ label' = Eval(v).label
         /\ ancestor' = Eval(v).ancestor
         /\ bucket' = [bucket EXCEPT ![b] = Tail(@)]
  /\ UNCHANGED <<graph, pc, stack, vertex, parent, semi, i, p, pdom, kind>>

NextVertex ==
  /\ pc = "bucket"
  /\ bucket[parent[vertex[i]]] = << >>
  /\ i' = i - 1
  /\ p' = 0
  /\ pc' = "semi"
  /\ UNCHANGED <<graph, stack, vertex, parent, semi, label, ancestor, bucket,
                 idom, pdom, kind>>

StartFinal ==
  /\ pc = "semi"
  /\ i = 1
  /\ pc' = "final"
  /\ i' = 2
  /\ UNCHANGED <<graph, stack, vertex, parent, semi, label, ancestor, bucket,
                 idom, p, pdom, kind>>

(* The last pass compares with the semi-dominator of the semi-dominator.   *)
FinalPass ==
  /\ pc = "final"
  /\ i \in DOMAIN vertex
  /\ LET w == vertex[i]
     IN  idom' = IF idom[w] # semi[semi[w]]
                 THEN [idom EXCEPT ![w] = idom[idom[w]]] ELSE idom
  /\ i' = i + 1
  /\ UNCHANGED <<graph, pc, stack, vertex, parent, semi, label, ancestor, bucket,
                 p, pdom, kind>>

-----------------------------------------------------------------------------
(* computePostDominators gives up when no block is an exit yet, and none   *)
(* is: classifyBlocks, which makes exits, comes after it. What it does     *)
(* otherwise is never reached.                                             *)
PostDominators ==
  /\ pc = "final"
  /\ i \notin DOMAIN vertex
  /\ \A b \in Blocks : kind[b] # "exit"
  /\ idom' = [idom EXCEPT ![1] = 0]
  /\ pdom' = [b \in Blocks |-> 0]
  /\ pc' = "loops"
  /\ i' = 1 /\ p' = 0
  /\ UNCHANGED <<graph, stack, vertex, parent, semi, label, ancestor, bucket, kind>>

(* A fault: any edge but one to the entry makes a loop.                    *)
dominatesAll(a, b) == TRUE

(* dominates: a lies on the chain of idom from b up.                       *)
dominates(a, b) == a \in Upward(idom, b)

(* identifyLoops: a block and the successors that dominate it, the entry   *)
(* left out.                                                               *)
IdentifyLoop ==
  /\ pc = "loops"
  /\ i \in Blocks
  /\ p < Len(succ[i])
  /\ LET s == succ[i][p + 1]
     IN  kind' = IF (s = 1 /\ i # 1) \/ ~dominates(s, i) THEN kind
                 ELSE [kind EXCEPT ![i] = "loop-body", ![s] = "loop-head"]
  /\ p' = p + 1
  /\ UNCHANGED <<graph, pc, stack, vertex, parent, semi, label, ancestor, bucket,
                 idom, i, pdom>>

(* A fault: the loop over the blocks starts again after the last.          *)
BlocksForever ==
  /\ pc = "loops" /\ i \in Blocks /\ p = Len(succ[i])
  /\ i' = (i % Len(succ)) + 1
  /\ p' = 0
  /\ UNCHANGED <<graph, pc, stack, vertex, parent, semi, label, ancestor, bucket,
                 idom, pdom, kind>>

NextBlock ==
  /\ pc = "loops"
  /\ i \in Blocks
  /\ p = Len(succ[i])
  /\ i' = i + 1
  /\ p' = 0
  /\ UNCHANGED <<graph, pc, stack, vertex, parent, semi, label, ancestor, bucket,
                 idom, pdom, kind>>

StartClassify ==
  /\ pc = "loops"
  /\ i \notin Blocks
  /\ pc' = "classify"
  /\ i' = 1
  /\ UNCHANGED <<graph, stack, vertex, parent, semi, label, ancestor, bucket,
                 idom, p, pdom, kind>>

KindOf(b) ==
  IF kind[b] # "plain" THEN kind[b]
  ELSE IF ending[b].last = "RET" /\ ~ending[b].cond THEN "exit"
  ELSE IF ending[b].cond /\ succ[b] # << >> THEN "if-then"
  ELSE IF /\ ending[b].last = "JMP" /\ b > 1
          /\ Preds(b) # {} /\ Len(succ[b]) = 1 THEN "if-else"
  ELSE "plain"

ClassifyBlock ==
  /\ pc = "classify"
  /\ i \in Blocks
  /\ kind' = [kind EXCEPT ![i] = KindOf(i)]
  /\ i' = i + 1
  /\ UNCHANGED <<graph, pc, stack, vertex, parent, semi, label, ancestor, bucket,
                 idom, p, pdom>>

Return ==
  /\ pc = "classify"
  /\ i \notin Blocks
  /\ pc' = "done"
  /\ UNCHANGED <<graph, stack, vertex, parent, semi, label, ancestor, bucket,
                 idom, i, p, pdom, kind>>

Returned == pc = "done" /\ UNCHANGED vars

Next ==
  \/ DfsVisit \/ DfsReturn \/ StartSemi
  \/ EvalPredecessor \/ Link \/ EmptyBucket \/ NextVertex \/ StartFinal
  \/ FinalPass \/ PostDominators
  \/ IdentifyLoop \/ NextBlock \/ StartClassify \/ ClassifyBlock \/ Return \/ Returned

(* The program is sequential: while a step is left, it takes one. This is  *)
(* WF_vars(Next) with its ENABLED written out, which TLC takes too long to *)
(* evaluate through the nested functions of Eval: every action but         *)
(* Returned changes the state, and the search for deadlocks shows that one *)
(* is enabled in every state.                                              *)
Fairness == []<>(pc = "done") \/ []<><<Next>>_vars

Spec == Init /\ [][Next]_vars /\ Fairness

-----------------------------------------------------------------------------
(* The definitions the algorithm is meant to compute.                      *)

(* What can be reached from a set of blocks inside another.                *)
ReachableIn(from, within) ==
  LET step(S) == S \cup {s \in within : \E b \in S : s \in Range(succ[b])}
      reach[k \in 0 .. Len(succ)] == IF k = 0 THEN from \cap within
                                     ELSE step(reach[k - 1])
  IN  reach[Len(succ)]

Dominates(a, b) == a = b \/ a = 1 \/ b \notin ReachableIn({1}, Blocks \ {a})

StrictDominators(b) == {a \in Reached \ {b} : Dominates(a, b)}

(* The lowest block with a path to w whose inner blocks come after w.      *)
SemiDominator(w) ==
  LET later == {b \in Reached : dfnum(b) > dfnum(w)}
      leads == {v \in Reached :
                  w \in UNION {{s} \cup (UNION {Range(succ[b]) :
                                  b \in ReachableIn({s}, later)}) :
                               s \in Range(succ[v])}}
  IN  vertex[Min({dfnum(v) : v \in leads})]

-----------------------------------------------------------------------------

(* The first half of Lengauer and Tarjan's algorithm is right: once a      *)
(* vertex is linked, semi holds its semi-dominator.                        *)
SemiDominatorsRight ==
  pc \in {"semi", "bucket", "final"} =>
    \A k \in 2 .. Len(vertex) :
      (pc = "final" \/ k > i) => semi[vertex[k]] = SemiDominator(vertex[k])

(* What the comment on StructuredBlock says of idom, "immediate            *)
(* dominator": where DomTree names a block for another, that block is on   *)
(* every path from the entry to the other.                                 *)
DomTreeSound ==
  pc \in {"loops", "classify", "done"} =>
    \A b \in Reached : idom[b] # 0 => idom[b] \in StrictDominators(b)

(* Every set of blocks with a that no successor leaves has b.              *)
Closed(S) == \A b \in S : Range(succ[b]) \subseteq S
LeadsTo(a, b) == \A S \in SUBSET Blocks : a \in S /\ Closed(S) => b \in S

(* What computeDominators leaves in idom is sound enough to be walked: no  *)
(* vertex comes to the last pass with -1, with which idom[idom[w]] would   *)
(* be out of range, and an entry that is left names a block dfs reached    *)
(* before and from which the other can be reached. So every walk up idom   *)
(* ends, which the loop of dominates relies on.                            *)
Climbs(b) ==
  /\ idom[b] \in Reached
  /\ dfnum(idom[b]) < dfnum(b)
  /\ LeadsTo(idom[b], b)

DomTreeClimbs ==
  /\ pc = "final" => \A k \in DOMAIN vertex : k >= i => Climbs(vertex[k])
  /\ pc \in {"final", "loops", "classify", "done"} =>
       \A b \in Reached : idom[b] # 0 => Climbs(b)

(* A loop head lies on a cycle, whatever dominators it was found with: the *)
(* blocks its successors lead to include it.                               *)
LoopHeadsOnCycles ==
  \A b \in Blocks :
    kind[b] = "loop-head" => \E s \in Range(succ[b]) : LeadsTo(s, b)

(* StructureControlFlow returns.                                           *)
Termination == <>(pc = "done")

=============================================================================
