----------------------- MODULE ControlStructureProofs -----------------------
(***************************************************************************)
(* Proofs about ControlStructure, for every control flow graph: what       *)
(* computeDominators leaves in idom can be climbed, loop heads lie on      *)
(* cycles, and (the second half of this module) the semi-dominators it     *)
(* finds on the way are right.                                             *)
(***************************************************************************)
EXTENDS ControlStructure, FiniteSetTheorems, SequenceTheorems,
        WellFoundedInduction, TLAPS

(* The vertices are numbered: each block has at most one number, and the   *)
(* entry the first.                                                        *)
Numbered ==
  /\ vertex \in Seq(Blocks)
  /\ vertex # << >>
  /\ vertex[1] = 1
  /\ \A j, k \in DOMAIN vertex : vertex[j] = vertex[k] => j = k

(* a has a lower number than b and leads to it: what every link the        *)
(* algorithm keeps has in common.                                          *)
IsAbove(a, b) ==
  /\ a \in Reached /\ b \in Reached
  /\ dfnum(a) < dfnum(b)
  /\ LeadsTo(a, b)

(* No link of above leads down.                                            *)
Rises(above) == \A x \in Blocks : above[x] = 0 \/ IsAbove(above[x], x)

(* The vertex after b is its child in the search tree.                     *)
HasChild(b) ==
  /\ dfnum(b) < Len(vertex)
  /\ parent[vertex[dfnum(b) + 1]] = b

-----------------------------------------------------------------------------
(* A set of natural numbers that is not empty has a least one.             *)
LEMMA LeastOf ==
    ASSUME NEW U, U \subseteq Nat, U # {}
    PROVE  \E u \in U : \A v \in U : u <= v
<1> DEFINE R == {ss \in Nat \X Nat : ss[1] < ss[2]}
<1>1. IsWellFoundedOn(R, Nat)
  BY NatLessThanWellFounded DEF OpToRel
<1>2. \E u \in U : \A v \in U : ~(<<v, u>> \in R)
  <2> HIDE DEF R
  <2> QED
    BY <1>1, WFMin, Zenon
<1>3. PICK u \in U : \A v \in U : ~(<<v, u>> \in R)
  BY <1>2
<1>4. \A v \in U : ~(v < u)
  <2> SUFFICES ASSUME NEW v \in U, v < u PROVE FALSE
    OBVIOUS
  <2>1. v \in Nat /\ u \in Nat
    OBVIOUS
  <2>2. <<v, u>> \in R
    BY <2>1
  <2> QED
    BY <1>3, <2>2
<1> QED
  BY <1>4

(* A set that has 0, and with a number the next, has every number.         *)
LEMMA SetInduction ==
    ASSUME NEW U, 0 \in U, \A n \in Nat : n \in U => n + 1 \in U
    PROVE  Nat \subseteq U
<1> SUFFICES ASSUME Nat \ U # {} PROVE FALSE
  OBVIOUS
<1>1. PICK u \in Nat \ U : \A v \in Nat \ U : u <= v
  BY LeastOf
<1>2. u # 0 /\ u - 1 \in Nat /\ u - 1 \in U
  BY <1>1
<1> QED
  BY <1>1, <1>2

(* Of the things two numbers are given to, one has the least first number  *)
(* and of those with it the greatest second: BestLabel finds one.          *)
IsBest(b, S, g, h) == \A c \in S : g[b] < g[c] \/ (g[b] = g[c] /\ h[b] >= h[c])

(* So there is always a best one.                                          *)
LEMMA BestOf ==
    ASSUME NEW S, S # {}, NEW M \in Nat, NEW g \in [S -> Nat], NEW h \in [S -> 0 .. M]
    PROVE  \E b \in S : IsBest(b, S, g, h)
<1>1. PICK x \in S : \A c \in S : g[x] <= g[c]
  <2> DEFINE U == {g[c] : c \in S}
  <2>1. U \subseteq Nat /\ U # {}
    OBVIOUS
  <2>2. PICK u \in U : \A v \in U : u <= v
    BY <2>1, LeastOf
  <2>3. PICK x \in S : u = g[x]
    OBVIOUS
  <2> QED
    BY <2>2, <2>3
<1> DEFINE T == {c \in S : g[c] = g[x]}
<1>2. PICK b \in T : \A c \in T : h[b] >= h[c]
  <2> DEFINE U == {M - h[c] : c \in T}
  <2>1. U \subseteq Nat /\ U # {}
    OBVIOUS
  <2>2. PICK u \in U : \A v \in U : u <= v
    BY <2>1, LeastOf
  <2>3. PICK b \in T : u = M - h[b]
    OBVIOUS
  <2>4. \A c \in T : M - h[b] <= M - h[c]
    BY <2>2, <2>3
  <2>5. \A c \in T : h[c] \in 0 .. M
    OBVIOUS
  <2> QED
    BY <2>4, <2>5
<1>3. ASSUME NEW c \in S PROVE g[b] < g[c] \/ (g[b] = g[c] /\ h[b] >= h[c])
  <2>1. g[x] <= g[c] /\ g[b] = g[x] /\ g[c] \in Nat /\ g[b] \in Nat
    BY <1>1
  <2>2. CASE g[c] = g[b]
    BY <1>2, <2>1, <2>2
  <2> QED
    BY <2>1, <2>2
<1> QED
  BY <1>3 DEF IsBest

-----------------------------------------------------------------------------
(* What a control flow graph is.                                           *)
LEMMA GraphShape ==
    ASSUME succ \in Graphs
    PROVE  /\ succ \in Seq(Seq(Blocks))
           /\ Len(succ) \in Nat \ {0}
           /\ Blocks = 1 .. Len(succ)
           /\ 1 \in Blocks
           /\ \A b \in Blocks : Range(succ[b]) \subseteq Blocks
           /\ \A b \in Blocks : \A k \in DOMAIN succ[b] : succ[b][k] \in Range(succ[b])
<1>1. succ # << >> /\ succ \in Seq(Seq(Blocks))
  BY GraphsAssumption DEF Blocks
<1>2. Blocks = 1 .. Len(succ) /\ Len(succ) \in Nat
  BY <1>1 DEF Blocks
<1>3. Len(succ) # 0
  BY <1>1, EmptySeq
<1>4. \A b \in Blocks : succ[b] \in Seq(Blocks)
  BY <1>1 DEF Blocks
<1> QED
  BY <1>1, <1>2, <1>3, <1>4 DEF Range

(* Every reached block has its number, and numbers do not run out.         *)
LEMMA Numbers ==
    ASSUME succ \in Graphs, Numbered
    PROVE  /\ Reached \subseteq Blocks
           /\ 1 \in Reached
           /\ DOMAIN vertex = 1 .. Len(vertex)
           /\ Len(vertex) \in Nat /\ 1 <= Len(vertex) /\ Len(vertex) <= Len(succ)
           /\ \A k \in DOMAIN vertex : vertex[k] \in Reached /\ dfnum(vertex[k]) = k
           /\ \A b \in Reached : dfnum(b) \in 1 .. Len(vertex) /\ vertex[dfnum(b)] = b
           /\ dfnum(1) = 1
<1>1. DOMAIN vertex = 1 .. Len(vertex) /\ Len(vertex) \in Nat /\ 1 <= Len(vertex)
  BY EmptySeq DEF Numbered
<1>2. Reached \subseteq Blocks /\ \A k \in DOMAIN vertex : vertex[k] \in Reached
  BY <1>1 DEF Reached, Range, Numbered
<1>3. \A b \in Reached : dfnum(b) \in DOMAIN vertex /\ vertex[dfnum(b)] = b
  BY DEF Reached, Range, dfnum
<1>4. \A k \in DOMAIN vertex : dfnum(vertex[k]) = k
  BY <1>2, <1>3 DEF Numbered
<1>5. Len(vertex) <= Len(succ)
  <2>1. vertex \in Injection(1 .. Len(vertex), Blocks)
    BY <1>1 DEF Numbered, Injection, IsInjective
  <2>2. Blocks = 1 .. Len(succ) /\ Len(succ) \in Nat
    BY GraphShape
  <2>3. /\ IsFiniteSet(Blocks) /\ Cardinality(Blocks) = Len(succ)
    <3>1. Cardinality(1 .. Len(succ)) = IF 1 > Len(succ) THEN 0 ELSE Len(succ) - 1 + 1
      BY <2>2, FS_Interval
    <3>2. 1 <= Len(succ)
      BY GraphShape
    <3> QED
      BY <2>2, <3>1, <3>2, FS_Interval
  <2>4. Cardinality(1 .. Len(vertex)) = Len(vertex)
    <3>1. Cardinality(1 .. Len(vertex)) = IF 1 > Len(vertex) THEN 0 ELSE Len(vertex) - 1 + 1
      BY <1>1, FS_Interval
    <3> QED
      BY <1>1, <3>1
  <2>5. Cardinality(1 .. Len(vertex)) <= Cardinality(Blocks)
    <3> HIDE DEF Blocks
    <3> QED
      BY <2>1, <2>3, FS_Injection
  <2> QED
    BY <2>3, <2>4, <2>5
<1>6. 1 \in Reached /\ dfnum(1) = 1
  BY <1>1, <1>2, <1>4 DEF Numbered
<1> QED
  BY <1>1, <1>2, <1>3, <1>4, <1>5, <1>6

(* Leading to is reflexive and transitive, and holds along an edge.        *)
LEMMA Leading ==
    ASSUME succ \in Graphs, NEW x \in Blocks, NEW y \in Blocks, NEW z \in Blocks
    PROVE  /\ LeadsTo(x, x)
           /\ LeadsTo(x, y) /\ LeadsTo(y, z) => LeadsTo(x, z)
           /\ y \in Range(succ[x]) => LeadsTo(x, y)
  BY DEF LeadsTo, Closed

(* What is above something above a block is above the block.               *)
LEMMA AboveIsTransitive ==
    ASSUME succ \in Graphs, Numbered, NEW x, NEW y, NEW z, IsAbove(x, y), IsAbove(y, z)
    PROVE  IsAbove(x, z)
<1>1. /\ x \in Reached /\ y \in Reached /\ z \in Reached
      /\ x \in Blocks /\ y \in Blocks /\ z \in Blocks
      /\ dfnum(x) \in Nat /\ dfnum(y) \in Nat /\ dfnum(z) \in Nat
  BY Numbers DEF IsAbove
<1>2. LeadsTo(x, z)
  BY <1>1, Leading DEF IsAbove
<1> QED
  BY <1>1, <1>2 DEF IsAbove

-----------------------------------------------------------------------------
(* Upward unrolled: the links are followed one after the other, and a      *)
(* missing one leaves 0.                                                   *)
IsWalk(f, above, b) ==
  /\ f[1] = b
  /\ \A k \in 2 .. Len(succ) : f[k] = IF f[k - 1] = 0 THEN 0 ELSE above[f[k - 1]]
  /\ Upward(above, b) = {f[k] : k \in 1 .. Len(succ)} \ {0}

(* There is such a walk.                                                   *)
LEMMA UpwardUnrolled ==
    ASSUME succ \in Graphs, NEW above, NEW b
    PROVE  \E f : IsWalk(f, above, b)
<1> DEFINE IsRun(f, n) ==
             f = [k \in 1 .. n |-> IF k = 1 THEN b
                                   ELSE IF f[k - 1] = 0 THEN 0 ELSE above[f[k - 1]]]
           U == {n \in Nat : \E f : IsRun(f, n)}
           last == Len(succ)
           run == CHOOSE f : IsRun(f, last)
<1>0. last \in Nat \ {0}
  BY GraphShape
<1>1. Upward(above, b) = {run[k] : k \in 1 .. last} \ {0}
  BY DEF Upward
<1>2. 0 \in U
  <2> DEFINE f == [k \in 1 .. 0 |-> b]
  <2>1. IsRun(f, 0)
    OBVIOUS
  <2> HIDE DEF IsRun, f
  <2> QED
    BY <2>1
<1>3. ASSUME NEW n \in Nat, n \in U PROVE n + 1 \in U
  <2>1. PICK f : IsRun(f, n)
    BY <1>3
  <2> DEFINE next == IF n + 1 = 1 THEN b ELSE IF f[n] = 0 THEN 0 ELSE above[f[n]]
             g == [k \in 1 .. n + 1 |-> IF k = n + 1 THEN next ELSE f[k]]
  <2>2. IsRun(g, n + 1)
    <3>1. \A k \in 1 .. n : /\ k # n + 1 /\ g[k] = f[k]
                            /\ k # 1 => k - 1 \in 1 .. n /\ k - 1 # n + 1 /\ g[k - 1] = f[k - 1]
      OBVIOUS
    <3>2. \A k \in 1 .. n : f[k] = IF k = 1 THEN b ELSE IF f[k - 1] = 0 THEN 0 ELSE above[f[k - 1]]
      BY <2>1
    <3>3. \A k \in 1 .. n : g[k] = IF k = 1 THEN b ELSE IF g[k - 1] = 0 THEN 0 ELSE above[g[k - 1]]
      BY <3>1, <3>2
    <3>4. g[n + 1] = IF n + 1 = 1 THEN b
                     ELSE IF g[(n + 1) - 1] = 0 THEN 0 ELSE above[g[(n + 1) - 1]]
      <4>1. CASE n = 0
        BY <4>1
      <4>2. CASE n # 0
        <5>1. (n + 1) - 1 = n /\ n \in 1 .. n /\ n + 1 # 1
          BY <4>2
        <5>2. g[n] = f[n]
          BY <3>1, <5>1
        <5>3. g[n + 1] = next
          OBVIOUS
        <5> HIDE DEF g
        <5> QED
          BY <5>1, <5>2, <5>3
      <4> QED
        BY <4>1, <4>2
    <3>5. \A k \in 1 .. n + 1 : g[k] = IF k = 1 THEN b ELSE IF g[k - 1] = 0 THEN 0 ELSE above[g[k - 1]]
      <4> HIDE DEF g
      <4>1. \A k \in 1 .. n + 1 : k \in 1 .. n \/ k = n + 1
        OBVIOUS
      <4> QED
        BY <3>3, <3>4, <4>1
    <3>6. g = [k \in 1 .. n + 1 |-> g[k]]
      OBVIOUS
    <3> HIDE DEF g
    <3> QED
      BY <3>5, <3>6
  <2> HIDE DEF IsRun, g
  <2> QED
    BY <2>2
<1>4. last \in U
  <2> HIDE DEF U
  <2>1. Nat \subseteq U
    BY <1>2, <1>3, SetInduction
  <2> QED
    BY <1>0, <2>1
<1>5. IsRun(run, last)
  <2> HIDE DEF IsRun
  <2> QED
    BY <1>4, Zenon
<1>6. \A k \in 1 .. last :
        run[k] = IF k = 1 THEN b ELSE IF run[k - 1] = 0 THEN 0 ELSE above[run[k - 1]]
  <2> HIDE DEF run
  <2> QED
    BY <1>5
<1> HIDE DEF run
<1>7. /\ run[1] = b
      /\ \A k \in 2 .. last : run[k] = IF run[k - 1] = 0 THEN 0 ELSE above[run[k - 1]]
  BY <1>0, <1>6
<1>8. IsWalk(run, above, b)
  BY <1>1, <1>7 DEF IsWalk
<1> QED
  BY <1>8

(* Where no link leads down, following them ends at one block, the root,   *)
(* which is above every other block on the way.                            *)
LEMMA UpwardRises ==
    ASSUME succ \in Graphs, Numbered,
           NEW above \in [Blocks -> Blocks \cup {0}], Rises(above), NEW b \in Blocks
    PROVE  /\ b \in Upward(above, b)
           /\ \A x \in Upward(above, b) : x \in Blocks /\ (x = b \/ IsAbove(x, b))
           /\ \E r \in Upward(above, b) : above[r] = 0
           /\ \A r \in Upward(above, b) : above[r] = 0 =>
                /\ r = b \/ \E y \in Upward(above, b) : above[y] = r
                /\ \A x \in Upward(above, b) : above[x] # 0 => IsAbove(r, x)
           /\ \A x \in Upward(above, b) : above[x] # 0 => above[x] \in Upward(above, b)
<1>0. PICK f : IsWalk(f, above, b)
  BY UpwardUnrolled
<1>1. /\ f[1] = b
      /\ \A k \in 2 .. Len(succ) : f[k] = IF f[k - 1] = 0 THEN 0 ELSE above[f[k - 1]]
      /\ Upward(above, b) = {f[k] : k \in 1 .. Len(succ)} \ {0}
  BY <1>0 DEF IsWalk
<1> DEFINE n == Len(succ)
<1>2. n \in Nat \ {0} /\ 0 \notin Blocks
  BY GraphShape
<1>3. \A k \in 1 .. n : f[k] \in Blocks \cup {0}
  <2> DEFINE U == {m \in Nat : m + 1 \in 1 .. n => f[m + 1] \in Blocks \cup {0}}
  <2>1. 0 \in U
    BY <1>1
  <2>2. ASSUME NEW m \in Nat, m \in U PROVE m + 1 \in U
    <3> SUFFICES ASSUME m + 2 \in 1 .. n PROVE f[m + 2] \in Blocks \cup {0}
      OBVIOUS
    <3>1. m + 2 \in 2 .. n /\ (m + 2) - 1 = m + 1 /\ m + 1 \in 1 .. n
      BY <1>2
    <3>2. f[m + 2] = IF f[m + 1] = 0 THEN 0 ELSE above[f[m + 1]]
      BY <1>1, <3>1
    <3>3. f[m + 1] \in Blocks \cup {0}
      BY <2>2, <3>1
    <3> QED
      BY <3>2, <3>3
  <2> HIDE DEF U
  <2>3. Nat \subseteq U
    BY <2>1, <2>2, SetInduction
  <2> QED
    <3> SUFFICES ASSUME NEW k \in 1 .. n PROVE f[k] \in Blocks \cup {0}
      OBVIOUS
    <3>1. k - 1 \in Nat /\ (k - 1) + 1 = k
      BY <1>2
    <3>2. k - 1 \in U
      BY <2>3, <3>1
    <3> QED
      BY <3>1, <3>2 DEF U
<1>4. \A k \in 1 .. n : f[k] # 0 =>
         \A j \in 1 .. k : f[j] # 0 /\ (j < k => IsAbove(f[k], f[j]))
  <2> DEFINE Good(k) == f[k] # 0 => \A j \in 1 .. k : f[j] # 0 /\ (j < k => IsAbove(f[k], f[j]))
             U == {m \in Nat : m + 1 \in 1 .. n => Good(m + 1)}
  <2>1. 0 \in U
    OBVIOUS
  <2>2. ASSUME NEW m \in Nat, m \in U PROVE m + 1 \in U
    <3> SUFFICES ASSUME m + 2 \in 1 .. n, f[m + 2] # 0, NEW j \in 1 .. m + 2
                 PROVE  f[j] # 0 /\ (j < m + 2 => IsAbove(f[m + 2], f[j]))
      OBVIOUS
    <3>1. m + 2 \in 2 .. n /\ (m + 2) - 1 = m + 1 /\ m + 1 \in 1 .. n
      BY <1>2
    <3>2. f[m + 2] = IF f[m + 1] = 0 THEN 0 ELSE above[f[m + 1]]
      BY <1>1, <3>1
    <3>3. f[m + 1] # 0 /\ f[m + 1] \in Blocks /\ f[m + 2] = above[f[m + 1]]
      BY <1>3, <3>1, <3>2
    <3>4. IsAbove(f[m + 2], f[m + 1])
      BY <3>3 DEF Rises
    <3>5. Good(m + 1)
      BY <2>2, <3>1
    <3>6. CASE j \in 1 .. m
      <4>1. f[j] # 0 /\ IsAbove(f[m + 1], f[j])
        BY <3>3, <3>5, <3>6
      <4> QED
        BY <3>4, <4>1, AboveIsTransitive
    <3>7. CASE j = m + 1
      BY <3>3, <3>4, <3>7
    <3>8. CASE j = m + 2
      BY <3>8
    <3> QED
      BY <3>6, <3>7, <3>8
  <2> HIDE DEF U
  <2>3. Nat \subseteq U
    BY <2>1, <2>2, SetInduction
  <2> QED
    <3> SUFFICES ASSUME NEW k \in 1 .. n PROVE Good(k)
      OBVIOUS
    <3>1. k - 1 \in Nat /\ (k - 1) + 1 = k
      BY <1>2
    <3>2. k - 1 \in U
      BY <2>3, <3>1
    <3> QED
      BY <3>1, <3>2 DEF U
<1>5. b \in Upward(above, b)
  BY <1>1, <1>2
<1>6. \A x \in Upward(above, b) : x \in Blocks /\ (x = b \/ IsAbove(x, b))
  <2> SUFFICES ASSUME NEW k \in 1 .. n, f[k] # 0
               PROVE  f[k] \in Blocks /\ (f[k] = b \/ IsAbove(f[k], b))
    BY <1>1
  <2> QED
    BY <1>1, <1>2, <1>3, <1>4
<1>7. \E r \in Upward(above, b) : above[r] = 0
  <2> SUFFICES ASSUME \A r \in Upward(above, b) : above[r] # 0 PROVE FALSE
    OBVIOUS
  <2>1. \A k \in 1 .. n : f[k] # 0 => /\ f[k] \in Reached /\ dfnum(f[k]) \in Nat
                                      /\ IsAbove(above[f[k]], f[k])
    <3> SUFFICES ASSUME NEW k \in 1 .. n, f[k] # 0
                 PROVE  f[k] \in Reached /\ dfnum(f[k]) \in Nat /\ IsAbove(above[f[k]], f[k])
      OBVIOUS
    <3>1. f[k] \in Blocks /\ above[f[k]] # 0
      BY <1>1, <1>3
    <3> QED
      BY <3>1, Numbers DEF Rises, IsAbove
  <2> DEFINE U == {m \in Nat : m + 1 \in 1 .. n => f[m + 1] # 0 /\ dfnum(f[m + 1]) <= n - m}
  <2>2. 0 \in U
    <3>1. f[1] # 0 /\ f[1] \in Reached
      BY <1>1, <1>2, <2>1
    <3> QED
      BY <1>2, <3>1, Numbers
  <2>3. ASSUME NEW m \in Nat, m \in U PROVE m + 1 \in U
    <3> SUFFICES ASSUME m + 2 \in 1 .. n
                 PROVE  f[m + 2] # 0 /\ dfnum(f[m + 2]) <= n - (m + 1)
      OBVIOUS
    <3>1. m + 2 \in 2 .. n /\ (m + 2) - 1 = m + 1 /\ m + 1 \in 1 .. n
      BY <1>2
    <3>2. f[m + 2] = IF f[m + 1] = 0 THEN 0 ELSE above[f[m + 1]]
      BY <1>1, <3>1
    <3>3. f[m + 1] # 0 /\ dfnum(f[m + 1]) <= n - m
      BY <2>3, <3>1
    <3>4. IsAbove(f[m + 2], f[m + 1]) /\ dfnum(f[m + 1]) \in Nat
      BY <2>1, <3>1, <3>2, <3>3
    <3>5. f[m + 2] \in Blocks /\ f[m + 2] # 0
      BY <1>2, <3>4, Numbers DEF IsAbove
    <3>6. dfnum(f[m + 2]) \in Nat /\ dfnum(f[m + 2]) < dfnum(f[m + 1])
      BY <3>4, Numbers DEF IsAbove
    <3> QED
      BY <1>2, <3>3, <3>4, <3>5, <3>6
  <2> HIDE DEF U
  <2>4. Nat \subseteq U
    BY <2>2, <2>3, SetInduction
  <2>5. f[n] # 0 /\ dfnum(f[n]) <= 1
    <3>1. n - 1 \in Nat /\ (n - 1) + 1 = n /\ n \in 1 .. n
      BY <1>2
    <3>2. n - 1 \in U
      BY <2>4, <3>1
    <3> QED
      BY <1>2, <3>1, <3>2 DEF U
  <2>6. IsAbove(above[f[n]], f[n]) /\ dfnum(f[n]) \in Nat
    BY <1>2, <2>1, <2>5
  <2>7. dfnum(above[f[n]]) \in 1 .. Len(vertex) /\ Len(vertex) \in Nat
    BY <2>6, Numbers DEF IsAbove
  <2> QED
    BY <2>5, <2>6, <2>7 DEF IsAbove
<1>8. ASSUME NEW r \in Upward(above, b), above[r] = 0
      PROVE  /\ r = b \/ \E y \in Upward(above, b) : above[y] = r
             /\ \A x \in Upward(above, b) : above[x] # 0 => IsAbove(r, x)
  <2>1. PICK k \in 1 .. n : f[k] = r /\ r # 0
    BY <1>1
  <2>2. r = b \/ \E y \in Upward(above, b) : above[y] = r
    <3>1. CASE k = 1
      BY <1>1, <2>1, <3>1
    <3>2. CASE k # 1
      <4>1. k \in 2 .. n /\ k - 1 \in 1 .. n
        BY <1>2, <3>2
      <4>2. f[k - 1] # 0 /\ f[k] = above[f[k - 1]]
        BY <1>1, <2>1, <4>1
      <4>3. f[k - 1] \in Upward(above, b)
        BY <1>1, <4>1, <4>2
      <4> QED
        BY <2>1, <4>2, <4>3
    <3> QED
      BY <3>1, <3>2
  <2>3. ASSUME NEW x \in Upward(above, b), above[x] # 0 PROVE IsAbove(r, x)
    <3>1. PICK j \in 1 .. n : f[j] = x /\ x # 0
      BY <1>1
    <3>2. CASE j < k
      BY <1>2, <1>4, <2>1, <3>1, <3>2
    <3>3. CASE j = k
      BY <1>8, <2>1, <2>3, <3>1, <3>3
    <3>4. CASE k < j
      <4>1. k + 1 \in 2 .. n /\ k + 1 \in 1 .. j /\ (k + 1) - 1 = k
        BY <1>2, <3>4
      <4>2. f[k + 1] = 0
        <5>1. f[k + 1] = IF f[k] = 0 THEN 0 ELSE above[f[k]]
          BY <1>1, <4>1
        <5> QED
          BY <1>8, <2>1, <5>1
      <4> QED
        BY <1>4, <3>1, <4>1, <4>2
    <3> QED
      BY <1>2, <3>2, <3>3, <3>4
  <2> QED
    BY <2>2, <2>3
<1>9. ASSUME NEW x \in Upward(above, b), above[x] # 0 PROVE above[x] \in Upward(above, b)
  <2>1. PICK k \in 1 .. n : f[k] = x /\ x # 0
    BY <1>1
  <2>2. CASE k < n
    <3>1. k + 1 \in 2 .. n /\ k + 1 \in 1 .. n /\ (k + 1) - 1 = k
      BY <1>2, <2>2
    <3>2. f[k + 1] = IF f[k] = 0 THEN 0 ELSE above[f[k]]
      BY <1>1, <3>1
    <3>3. f[k + 1] = above[x]
      BY <2>1, <3>2
    <3> QED
      BY <1>1, <1>9, <3>1, <3>3
  <2>3. CASE k = n
    <3>1. PICK r \in Upward(above, b) : above[r] = 0
      BY <1>7
    <3>2. PICK j \in 1 .. n : f[j] = r /\ r # 0
      BY <1>1
    <3>3. j < n
      BY <1>2, <1>9, <2>1, <2>3, <3>1, <3>2
    <3>4. j + 1 \in 2 .. n /\ j + 1 \in 1 .. n /\ (j + 1) - 1 = j
      BY <1>2, <3>3
    <3>5. f[j + 1] = IF f[j] = 0 THEN 0 ELSE above[f[j]]
      BY <1>1, <3>4
    <3>6. f[j + 1] = 0
      BY <3>1, <3>2, <3>5
    <3> QED
      BY <1>4, <2>1, <2>3, <3>4, <3>6
  <2> QED
    BY <1>2, <2>2, <2>3
<1> QED
  BY <1>5, <1>6, <1>7, <1>8, <1>9

(* And it meets only what every set with the block that the links do not   *)
(* leave has.                                                              *)
LEMMA UpwardStays ==
    ASSUME succ \in Graphs, NEW above, NEW b, NEW S, 0 \notin S, b \in S,
           \A x \in S : above[x] # 0 => above[x] \in S
    PROVE  Upward(above, b) \subseteq S
<1>0. PICK f : IsWalk(f, above, b)
  BY UpwardUnrolled
<1>1. /\ f[1] = b
      /\ \A k \in 2 .. Len(succ) : f[k] = IF f[k - 1] = 0 THEN 0 ELSE above[f[k - 1]]
      /\ Upward(above, b) = {f[k] : k \in 1 .. Len(succ)} \ {0}
  BY <1>0 DEF IsWalk
<1> DEFINE n == Len(succ)
           U == {m \in Nat : m + 1 \in 1 .. n => f[m + 1] = 0 \/ f[m + 1] \in S}
<1>2. n \in Nat \ {0}
  BY GraphShape
<1>3. 0 \in U
  BY <1>1
<1>4. ASSUME NEW m \in Nat, m \in U PROVE m + 1 \in U
  <2> SUFFICES ASSUME m + 2 \in 1 .. n PROVE f[m + 2] = 0 \/ f[m + 2] \in S
    OBVIOUS
  <2>1. m + 2 \in 2 .. n /\ (m + 2) - 1 = m + 1 /\ m + 1 \in 1 .. n
    BY <1>2
  <2>2. f[m + 2] = IF f[m + 1] = 0 THEN 0 ELSE above[f[m + 1]]
    BY <1>1, <2>1
  <2>3. f[m + 1] = 0 \/ f[m + 1] \in S
    BY <1>4, <2>1
  <2> QED
    BY <2>2, <2>3
<1>5. Nat \subseteq U
  <2> HIDE DEF U
  <2> QED
    BY <1>3, <1>4, SetInduction
<1>6. ASSUME NEW k \in 1 .. n PROVE f[k] = 0 \/ f[k] \in S
  <2>1. k - 1 \in Nat /\ (k - 1) + 1 = k
    BY <1>2
  <2>2. k - 1 \in U
    BY <1>5, <2>1
  <2> QED
    BY <2>1, <2>2 DEF U
<1> QED
  BY <1>1, <1>6

-----------------------------------------------------------------------------
(* The inductive invariant. The types of the variables.                    *)
TypeInv ==
  /\ succ \in Graphs
  /\ Numbered
  /\ stack \in Seq(Blocks)
  /\ parent \in [Blocks -> Blocks \cup {0}]
  /\ ancestor \in [Blocks -> Blocks \cup {0}]
  /\ idom \in [Blocks -> Blocks \cup {0}]
  /\ semi \in [Blocks -> Blocks]
  /\ label \in [Blocks -> Blocks]
  /\ bucket \in [Blocks -> Seq(Blocks)]
  /\ kind \in [Blocks -> Kinds]
  /\ i \in Nat
  /\ p \in Nat
  /\ pc \in {"dfs", "semi", "bucket", "final", "loops", "classify", "done"}

(* parent is a tree of edges that lead to higher numbers.                  *)
TreeInv ==
  \A k \in DOMAIN vertex :
    k > 1 => /\ parent[vertex[k]] \in Reached
             /\ dfnum(parent[vertex[k]]) < k
             /\ vertex[k] \in Range(succ[parent[vertex[k]]])

(* The search: a block that is not on the stack has been left, with all its*)
(* successors reached; only the top of the stack may be the last vertex,   *)
(* and any other vertex has the next one as its child, or had nothing left *)
(* to reach.                                                               *)
SearchInv ==
  /\ TreeInv
  /\ p = 0
  /\ Range(stack) \subseteq Reached
  /\ \A b \in Reached \ Range(stack) : Range(succ[b]) \subseteq Reached
  /\ \A k \in DOMAIN stack : k < Len(stack) => stack[k] # Last(vertex)
  /\ \A b \in Reached :
       dfnum(b) < Len(vertex) =>
         \/ HasChild(b)
         \/ \A s \in Range(succ[b]) : s \in Reached /\ dfnum(s) <= dfnum(b)
  /\ \A b \in Blocks :
       semi[b] = b /\ label[b] = b /\ ancestor[b] = 0 /\ idom[b] = 0 /\ bucket[b] = << >>

(* No vertex that an edge leads up from is a leaf of the tree.             *)
EdgesInv ==
  \A v, w \in Reached : w \in Range(succ[v]) /\ dfnum(v) < dfnum(w) => HasChild(v)

(* The blocks that are still to be linked.                                 *)
Open(b) == dfnum(b) < i \/ (dfnum(b) = i /\ pc = "semi")

SemiInv ==
  \A b \in Reached :
    /\ semi[b] = b \/ (IsAbove(semi[b], b) /\ HasChild(semi[b]))
    /\ dfnum(b) < i => semi[b] = b
    /\ ~Open(b) => semi[b] # b

LabelInv ==
  \A b \in Reached :
    /\ label[b] \in Reached
    /\ LeadsTo(label[b], b)
    /\ ancestor[b] = 0 => label[b] = b
    /\ ancestor[b] # 0 => ancestor[label[b]] # 0

AncestorInv ==
  /\ Rises(ancestor)
  /\ \A b \in Blocks : ancestor[b] # 0 => HasChild(ancestor[b])
  /\ \A b \in Reached : Open(b) => ancestor[b] = 0

(* A vertex waits in the bucket of its semi-dominator, whose child is      *)
(* still to be linked or is being linked, until it has an entry in idom.   *)
BucketInv ==
  /\ \A b \in Blocks : \A v \in Range(bucket[b]) : v \in Reached /\ ~Open(v) /\ semi[v] = b
  /\ \A v \in Reached :
       ~Open(v) => \/ IsAbove(idom[v], v)
                   \/ v \in Range(bucket[semi[v]]) /\ dfnum(semi[v]) < i

(* Once the parent of a vertex has been looked at, the vertex has another  *)
(* semi-dominator than itself.                                             *)
LinkInv ==
  /\ i \in DOMAIN vertex
  /\ pc = "bucket" => i > 1
  /\ TreeInv /\ EdgesInv /\ SemiInv /\ LabelInv /\ AncestorInv /\ BucketInv
  /\ pc = "semi" /\ i > 1 /\ parent[vertex[i]] <= p => semi[vertex[i]] # vertex[i]

FinalInv ==
  /\ i > 1
  /\ \A k \in DOMAIN vertex : k >= i => IsAbove(idom[vertex[k]], vertex[k])

ClimbInv ==
  /\ TypeInv
  /\ pc = "dfs" => SearchInv
  /\ pc \in {"semi", "bucket"} => LinkInv
  /\ pc = "final" => FinalInv
  /\ Rises(idom)
  /\ LoopHeadsOnCycles

-----------------------------------------------------------------------------
(* Everything said of the search tree stays true while it stays the same.  *)
LEMMA SameTree ==
    ASSUME succ' = succ, vertex' = vertex, parent' = parent
    PROVE  /\ Blocks' = Blocks /\ Reached' = Reached
           /\ \A b : dfnum(b)' = dfnum(b)
           /\ \A a, b : LeadsTo(a, b)' <=> LeadsTo(a, b)
           /\ \A a, b : IsAbove(a, b)' <=> IsAbove(a, b)
           /\ \A b : HasChild(b)' <=> HasChild(b)
           /\ Numbered' <=> Numbered
           /\ TreeInv' <=> TreeInv
           /\ EdgesInv' <=> EdgesInv
<1>1. Blocks' = Blocks /\ Reached' = Reached /\ \A b : dfnum(b)' = dfnum(b)
  BY DEF Blocks, Reached, dfnum
<1>2. \A a, b : LeadsTo(a, b)' <=> LeadsTo(a, b)
  BY <1>1 DEF LeadsTo, Closed
<1>3. \A a, b : IsAbove(a, b)' <=> IsAbove(a, b)
  BY <1>1, <1>2 DEF IsAbove
<1>4. \A b : HasChild(b)' <=> HasChild(b)
  BY <1>1 DEF HasChild
<1>5. Numbered' <=> Numbered
  BY <1>1 DEF Numbered
<1>6. TreeInv' <=> TreeInv
  BY <1>1 DEF TreeInv
<1>7. EdgesInv' <=> EdgesInv
  BY <1>1, <1>4 DEF EdgesInv
<1> QED
  BY <1>1, <1>2, <1>3, <1>4, <1>5, <1>6, <1>7

(* The root of the blocks linked above v.                                  *)
LEMMA RootFound ==
    ASSUME TypeInv, LinkInv, NEW v \in Reached, ancestor[v] # 0
    PROVE  /\ Root(v) \in Reached
           /\ ancestor[Root(v)] = 0
           /\ IsAbove(Root(v), v)
           /\ HasChild(Root(v))
           /\ v \in Linked(v)
           /\ \A b \in Linked(v) : /\ b \in Reached /\ ancestor[b] # 0
                                   /\ b = v \/ IsAbove(b, v)
                                   /\ IsAbove(Root(v), b)
<1>1. /\ succ \in Graphs /\ Numbered /\ Rises(ancestor)
      /\ ancestor \in [Blocks -> Blocks \cup {0}] /\ v \in Blocks
  BY Numbers DEF TypeInv, LinkInv, AncestorInv
<1>2. /\ v \in Upward(ancestor, v)
      /\ \A x \in Upward(ancestor, v) : x \in Blocks /\ (x = v \/ IsAbove(x, v))
      /\ \E r \in Upward(ancestor, v) : ancestor[r] = 0
      /\ \A r \in Upward(ancestor, v) : ancestor[r] = 0 =>
           /\ r = v \/ \E y \in Upward(ancestor, v) : ancestor[y] = r
           /\ \A x \in Upward(ancestor, v) : ancestor[x] # 0 => IsAbove(r, x)
  BY <1>1, UpwardRises
<1>3. Root(v) \in Upward(ancestor, v) /\ ancestor[Root(v)] = 0
  BY <1>2 DEF Root
<1>4. PICK y \in Upward(ancestor, v) : ancestor[y] = Root(v)
  BY <1>2, <1>3
<1>5. HasChild(Root(v))
  <2>1. y \in Blocks /\ Root(v) # 0
    BY <1>1, <1>2, <1>3, GraphShape
  <2> QED
    BY <1>4, <2>1 DEF LinkInv, AncestorInv
<1>6. v \in Linked(v)
  BY <1>2 DEF Linked
<1>7. \A b \in Linked(v) : b \in Upward(ancestor, v) /\ ancestor[b] # 0
  BY DEF Linked
<1>8. IsAbove(Root(v), v)
  BY <1>2, <1>3
<1> QED
  BY <1>2, <1>3, <1>5, <1>6, <1>7, <1>8 DEF IsAbove

(* The best label above v is one of a linked block at or above v.          *)
LEMMA BestLabelFound ==
    ASSUME TypeInv, LinkInv, NEW v \in Reached, ancestor[v] # 0
    PROVE  /\ BestLabel(v) \in Reached
           /\ LeadsTo(BestLabel(v), v)
           /\ ancestor[BestLabel(v)] # 0
           /\ \E b \in Linked(v) : BestLabel(v) = label[b]
           /\ \A c \in Linked(v) : SemiNumber(BestLabel(v)) <= SemiNumber(label[c])
<1>1. /\ v \in Linked(v)
      /\ \A b \in Linked(v) : b \in Reached /\ ancestor[b] # 0 /\ (b = v \/ IsAbove(b, v))
  BY RootFound
<1>2. \A b \in Linked(v) : /\ label[b] \in Reached /\ LeadsTo(label[b], b)
                           /\ ancestor[label[b]] # 0
  BY <1>1 DEF LinkInv, LabelInv
<1>3. succ \in Graphs /\ Numbered
  BY DEF TypeInv
<1>4. \A b \in Reached : dfnum(b) \in 1 .. Len(vertex) /\ dfnum(b) \in Nat
  BY <1>3, Numbers
<1>5. \A b \in Reached : SemiNumber(b) \in Nat
  BY <1>4 DEF SemiNumber, LinkInv, SemiInv, IsAbove
<1> DEFINE g == [b \in Linked(v) |-> SemiNumber(label[b])]
           h == [b \in Linked(v) |-> dfnum(b)]
<1>6. g \in [Linked(v) -> Nat] /\ h \in [Linked(v) -> 0 .. Len(vertex)] /\ Len(vertex) \in Nat
  BY <1>1, <1>2, <1>3, <1>4, <1>5, Numbers
<1>7. \E b \in Linked(v) : \A c \in Linked(v) :
         g[b] < g[c] \/ (g[b] = g[c] /\ h[b] >= h[c])
  <2>1. PICK S : S = Linked(v)
    OBVIOUS
  <2>2. S # {} /\ g \in [S -> Nat] /\ h \in [S -> 0 .. Len(vertex)]
    BY <1>1, <1>6, <2>1
  <2> HIDE DEF g, h
  <2>3. \E b \in S : IsBest(b, S, g, h)
    BY <1>6, <2>2, BestOf
  <2> QED
    BY <2>1, <2>3 DEF IsBest
<1>8. \E b \in Linked(v) : \A c \in Linked(v) :
         \/ SemiNumber(label[b]) < SemiNumber(label[c])
         \/ SemiNumber(label[b]) = SemiNumber(label[c]) /\ dfnum(b) >= dfnum(c)
  BY <1>7
<1>9. PICK b \in Linked(v) :
        /\ BestLabel(v) = label[b]
        /\ \A c \in Linked(v) :
             \/ SemiNumber(label[b]) < SemiNumber(label[c])
             \/ SemiNumber(label[b]) = SemiNumber(label[c]) /\ dfnum(b) >= dfnum(c)
  BY <1>8 DEF BestLabel
<1>10. LeadsTo(label[b], v)
  <2>1. label[b] \in Blocks /\ b \in Blocks /\ v \in Blocks
    BY <1>1, <1>2, <1>3, Numbers
  <2>2. b = v \/ LeadsTo(b, v)
    BY <1>1 DEF IsAbove
  <2> QED
    BY <1>2, <1>3, <2>1, <2>2, Leading
<1>11. \A c \in Linked(v) : SemiNumber(BestLabel(v)) <= SemiNumber(label[c])
  <2> SUFFICES ASSUME NEW c \in Linked(v) PROVE SemiNumber(BestLabel(v)) <= SemiNumber(label[c])
    OBVIOUS
  <2>1. PICK m, n : m = SemiNumber(label[b]) /\ n = SemiNumber(label[c])
    OBVIOUS
  <2>2. m \in Nat /\ n \in Nat /\ (m < n \/ m = n)
    BY <1>2, <1>5, <1>9, <2>1
  <2>3. m <= n
    BY <2>2
  <2> QED
    BY <1>9, <2>1, <2>3
<1> QED
  BY <1>2, <1>9, <1>10, <1>11

(* What Eval returns, and what it leaves of the forest.                    *)
LEMMA EvalFinds ==
    ASSUME TypeInv, LinkInv, NEW v \in Reached
    PROVE  /\ Eval(v).u \in Reached
           /\ LeadsTo(Eval(v).u, v)
           /\ ancestor[v] = 0 => Eval(v).u = v
           /\ ancestor[v] # 0 => ancestor[Eval(v).u] # 0 \/ HasChild(Eval(v).u)
<1>1. CASE ancestor[v] = 0
  <2>1. Eval(v).u = label[v] /\ label[v] = v
    BY <1>1 DEF Eval, LinkInv, LabelInv
  <2>2. LeadsTo(v, v)
    BY Numbers, Leading DEF TypeInv
  <2> QED
    BY <1>1, <2>1, <2>2
<1>2. CASE ancestor[v] # 0
  <2>1. Eval(v).u = label[Root(v)] \/ Eval(v).u = BestLabel(v)
    BY <1>2 DEF Eval
  <2>2. label[Root(v)] = Root(v) /\ Root(v) \in Reached /\ LeadsTo(Root(v), v) /\ HasChild(Root(v))
    BY <1>2, RootFound DEF LinkInv, LabelInv, IsAbove
  <2>3. BestLabel(v) \in Reached /\ LeadsTo(BestLabel(v), v) /\ ancestor[BestLabel(v)] # 0
    BY <1>2, BestLabelFound
  <2> QED
    BY <1>2, <2>1, <2>2, <2>3
<1> QED
  BY <1>1, <1>2

(* The forest and the labels Eval leaves are of the kind it found.         *)
LEMMA EvalCompresses ==
    ASSUME TypeInv, LinkInv, NEW v \in Reached
    PROVE  /\ Eval(v).label \in [Blocks -> Blocks]
           /\ Eval(v).ancestor \in [Blocks -> Blocks \cup {0}]
           /\ \A b \in Blocks :
                /\ Eval(v).ancestor[b] = 0 <=> ancestor[b] = 0
                /\ Eval(v).ancestor[b] # 0 => /\ IsAbove(Eval(v).ancestor[b], b)
                                              /\ HasChild(Eval(v).ancestor[b])
           /\ \A b \in Reached :
                /\ Eval(v).label[b] \in Reached
                /\ LeadsTo(Eval(v).label[b], b)
                /\ ancestor[b] = 0 => Eval(v).label[b] = b
                /\ ancestor[b] # 0 => ancestor[Eval(v).label[b]] # 0
<1>1. /\ label \in [Blocks -> Blocks] /\ ancestor \in [Blocks -> Blocks \cup {0}]
      /\ Reached \subseteq Blocks /\ 0 \notin Blocks
  BY Numbers, GraphShape, SMTT(30) DEF TypeInv
<1>2. \A b \in Blocks : ancestor[b] # 0 => IsAbove(ancestor[b], b) /\ HasChild(ancestor[b])
  BY DEF LinkInv, AncestorInv, Rises
<1>3. \A b \in Reached : /\ label[b] \in Reached /\ LeadsTo(label[b], b)
                         /\ ancestor[b] = 0 => label[b] = b
                         /\ ancestor[b] # 0 => ancestor[label[b]] # 0
  BY DEF LinkInv, LabelInv
<1>4. CASE ancestor[v] = 0
  <2>1. Eval(v).label = label /\ Eval(v).ancestor = ancestor
    BY <1>4 DEF Eval
  <2> QED
    BY <1>1, <1>2, <1>3, <2>1
<1>5. CASE ancestor[v] # 0
  <2> DEFINE L == [b \in Blocks |-> IF b \in Linked(v) THEN BestLabel(b) ELSE label[b]]
             A == [b \in Blocks |-> IF b \in Linked(v) THEN Root(v) ELSE ancestor[b]]
  <2>1. Eval(v).label = L /\ Eval(v).ancestor = A
    BY <1>5 DEF Eval
  <2>2. /\ Root(v) \in Reached /\ HasChild(Root(v))
        /\ \A b \in Linked(v) : b \in Reached /\ ancestor[b] # 0 /\ IsAbove(Root(v), b)
    BY <1>5, RootFound
  <2>3. \A b \in Linked(v) : /\ BestLabel(b) \in Reached /\ LeadsTo(BestLabel(b), b)
                             /\ ancestor[BestLabel(b)] # 0
    BY <2>2, BestLabelFound
  <2>4. L \in [Blocks -> Blocks] /\ A \in [Blocks -> Blocks \cup {0}]
    BY <1>1, <2>2, <2>3
  <2>5. \A b \in Blocks : /\ A[b] = 0 <=> ancestor[b] = 0
                          /\ A[b] # 0 => IsAbove(A[b], b) /\ HasChild(A[b])
    BY <1>1, <1>2, <2>2
  <2>6. \A b \in Reached : /\ L[b] \in Reached /\ LeadsTo(L[b], b)
                           /\ ancestor[b] = 0 => L[b] = b
                           /\ ancestor[b] # 0 => ancestor[L[b]] # 0
    <3> SUFFICES ASSUME NEW b \in Reached
                 PROVE  /\ L[b] \in Reached /\ LeadsTo(L[b], b)
                        /\ ancestor[b] = 0 => L[b] = b
                        /\ ancestor[b] # 0 => ancestor[L[b]] # 0
      OBVIOUS
    <3>1. CASE b \in Linked(v)
      <4>1. L[b] = BestLabel(b)
        BY <1>1, <3>1
      <4> HIDE DEF L
      <4> QED
        BY <2>2, <2>3, <3>1, <4>1
    <3>2. CASE b \notin Linked(v)
      <4>1. L[b] = label[b]
        BY <1>1, <3>2
      <4> HIDE DEF L
      <4> QED
        BY <1>3, <4>1
    <3> QED
      BY <3>1, <3>2
  <2> HIDE DEF L, A
  <2> QED
    BY <2>1, <2>4, <2>5, <2>6
<1> QED
  BY <1>4, <1>5

-----------------------------------------------------------------------------
(* The least of a set of numbers.                                          *)
LEMMA MinTaken ==
    ASSUME NEW S, S \subseteq Nat, S # {}
    PROVE  Min(S) \in S /\ \A y \in S : Min(S) <= y
<1>1. \E u \in S : \A v \in S : u <= v
  BY LeastOf
<1> QED
  BY <1>1 DEF Min

(* Loop heads stay on their cycles while the kinds stay the same.          *)
LEMMA SameHeads ==
    ASSUME succ' = succ, kind' = kind, LoopHeadsOnCycles
    PROVE  LoopHeadsOnCycles'
  BY DEF LoopHeadsOnCycles, LeadsTo, Closed, Blocks

(* In the beginning only the entry is reached, and nothing is linked.      *)
LEMMA InitClimbs == Init => ClimbInv
<1> SUFFICES ASSUME Init PROVE ClimbInv
  OBVIOUS
<1>1. succ \in Graphs /\ 1 \in Blocks /\ Blocks = 1 .. Len(succ)
  <2>1. succ \in Graphs
    BY DEF Init
  <2> QED
    BY <2>1, GraphShape
<1>2. vertex = <<1>> /\ stack = <<1>>
  BY DEF Init
<1>3. /\ vertex \in Seq(Blocks) /\ stack \in Seq(Blocks)
      /\ DOMAIN vertex = {1} /\ vertex[1] = 1 /\ Len(vertex) = 1 /\ vertex # << >>
      /\ DOMAIN stack = {1} /\ stack[1] = 1 /\ Len(stack) = 1
  BY <1>1, <1>2
<1>4. Numbered
  BY <1>3 DEF Numbered
<1>5. Reached = {1} /\ dfnum(1) = 1 /\ Range(stack) = {1}
  BY <1>3 DEF Reached, Range, dfnum
<1>6. TypeInv
  BY <1>1, <1>3, <1>4 DEF Init, TypeInv, Kinds
<1>7. SearchInv
  <2>1. TreeInv
    BY <1>3 DEF TreeInv
  <2>2. \A b \in Blocks :
          semi[b] = b /\ label[b] = b /\ ancestor[b] = 0 /\ idom[b] = 0 /\ bucket[b] = << >>
    BY DEF Init
  <2>3. p = 0
    BY DEF Init
  <2> QED
    BY <1>3, <1>5, <2>1, <2>2, <2>3 DEF SearchInv
<1>8. Rises(idom) /\ LoopHeadsOnCycles
  BY DEF Init, Rises, LoopHeadsOnCycles
<1> QED
  BY <1>6, <1>7, <1>8 DEF Init, ClimbInv

(* A visit: s, a successor of the top t of the stack that was not reached, *)
(* is the vertex after the L there were, the child of t and the new top.   *)
Visits(s, t, L) ==
  /\ /\ t \in Blocks /\ t \in Reached
     /\ \E k \in DOMAIN stack : k = Len(stack) /\ stack[k] = t
     /\ Len(stack) \in Nat /\ DOMAIN stack = 1 .. Len(stack)
  /\ s \in Range(succ[t]) /\ s \in Blocks /\ s \notin Reached
  /\ /\ Reached \subseteq Blocks /\ DOMAIN vertex = 1 .. L /\ L \in Nat /\ 1 <= L
     /\ vertex \in Seq(Blocks)
     /\ \A k \in DOMAIN vertex : vertex[k] \in Reached /\ dfnum(vertex[k]) = k
     /\ \A b \in Reached : dfnum(b) \in 1 .. L /\ vertex[dfnum(b)] = b
  /\ /\ vertex' \in Seq(Blocks) /\ Len(vertex') = L + 1 /\ DOMAIN vertex' = 1 .. L + 1
     /\ \A k \in 1 .. L : vertex'[k] = vertex[k]
     /\ vertex'[L + 1] = s
  /\ Blocks' = Blocks
  /\ Numbered'
  /\ /\ Reached' = Reached \cup {s}
     /\ \A b \in Reached : dfnum(b)' = dfnum(b)
     /\ dfnum(s)' = L + 1
  /\ /\ parent' \in [Blocks -> Blocks \cup {0}]
     /\ parent'[s] = t
     /\ \A b \in Blocks \ {s} : parent'[b] = parent[b]
  /\ /\ stack' \in Seq(Blocks) /\ Len(stack') = Len(stack) + 1
     /\ Range(stack') = Range(stack) \cup {s}
     /\ DOMAIN stack' = 1 .. Len(stack) + 1
     /\ \A k \in 1 .. Len(stack) : stack'[k] = stack[k]
     /\ stack'[Len(stack) + 1] = s

(* Each step of the search that is no return is a visit.                   *)
LEMMA SearchVisits ==
    ASSUME ClimbInv, DfsVisit
    PROVE  \E s : Visits(s, Last(stack), Len(vertex))
<1>a. PICK t : t = Last(stack)
  OBVIOUS
<1>b. PICK s : s = succ[t][Min(Unreached(t))]
  OBVIOUS
<1>c. PICK L : L = Len(vertex)
  OBVIOUS
<1>1. TypeInv /\ SearchInv /\ LoopHeadsOnCycles /\ Numbered /\ succ \in Graphs
  BY DEF ClimbInv, DfsVisit, TypeInv
<1>2. /\ Unreached(t) # {} /\ stack # << >> /\ pc = "dfs" /\ pc' = "dfs"
      /\ parent' = [parent EXCEPT ![s] = t]
      /\ vertex' = Append(vertex, s) /\ stack' = Append(stack, s)
      /\ UNCHANGED <<succ, ending, semi, label, ancestor, bucket, idom, i, p, pdom, kind>>
  BY <1>a, <1>b DEF DfsVisit, graph
<1>3. /\ t \in Blocks /\ t \in Reached
      /\ \E k \in DOMAIN stack : k = Len(stack) /\ stack[k] = t
      /\ Len(stack) \in Nat /\ DOMAIN stack = 1 .. Len(stack)
  <2>1. stack \in Seq(Blocks) /\ stack # << >>
    BY <1>1, <1>2 DEF TypeInv
  <2>2. Len(stack) \in Nat /\ DOMAIN stack = 1 .. Len(stack) /\ Len(stack) # 0
    BY <2>1, EmptySeq
  <2>3. Len(stack) \in DOMAIN stack /\ t = stack[Len(stack)]
    BY <1>a, <2>2 DEF Last
  <2>4. t \in Range(stack) /\ t \in Blocks
    BY <2>1, <2>2, <2>3 DEF Range
  <2> QED
    BY <1>1, <2>2, <2>3, <2>4 DEF SearchInv
<1>4. s \in Range(succ[t]) /\ s \in Blocks /\ s \notin Reached
  <2>1. Unreached(t) \subseteq Nat
    <3>1. succ[t] \in Seq(Blocks)
      BY <1>1, <1>3, GraphShape DEF Blocks
    <3> QED
      BY <3>1 DEF Unreached
  <2>2. Min(Unreached(t)) \in Unreached(t)
    BY <1>2, <2>1, MinTaken
  <2>3. Min(Unreached(t)) \in DOMAIN succ[t] /\ s \notin Reached
    BY <1>b, <2>2 DEF Unreached
  <2> QED
    BY <1>1, <1>3, <1>b, <2>3, GraphShape
<1>5. /\ Reached \subseteq Blocks /\ DOMAIN vertex = 1 .. L /\ L \in Nat /\ 1 <= L
      /\ vertex \in Seq(Blocks)
      /\ \A k \in DOMAIN vertex : vertex[k] \in Reached /\ dfnum(vertex[k]) = k
      /\ \A b \in Reached : dfnum(b) \in 1 .. L /\ vertex[dfnum(b)] = b
  BY <1>1, <1>c, Numbers DEF Numbered
<1>6. /\ vertex' \in Seq(Blocks) /\ Len(vertex') = L + 1 /\ DOMAIN vertex' = 1 .. L + 1
      /\ \A k \in 1 .. L : vertex'[k] = vertex[k]
      /\ vertex'[L + 1] = s
  BY <1>2, <1>4, <1>5, <1>c
<1>7. Blocks' = Blocks
  BY <1>2 DEF Blocks
<1>8. Numbered'
  <2>1. vertex' # << >> /\ vertex'[1] = 1
    BY <1>1, <1>5, <1>6 DEF Numbered
  <2>2. \A j, k \in 1 .. L + 1 : vertex'[j] = vertex'[k] => j = k
    <3>1. \A k \in 1 .. L : vertex'[k] # s
      BY <1>4, <1>5, <1>6
    <3>2. \A j, k \in 1 .. L : vertex'[j] = vertex'[k] => j = k
      BY <1>1, <1>5, <1>6 DEF Numbered
    <3> QED
      BY <1>5, <1>6, <3>1, <3>2
  <2> QED
    BY <1>6, <1>7, <2>1, <2>2 DEF Numbered
<1>9. /\ Reached' = Reached \cup {s}
      /\ \A b \in Reached : dfnum(b)' = dfnum(b)
      /\ dfnum(s)' = L + 1
  <2>1. Reached' = Reached \cup {s}
    <3>1. \A b \in Reached' : b \in Reached \cup {s}
      BY <1>5, <1>6 DEF Reached, Range
    <3>2. \A b \in Reached \cup {s} : b \in Reached'
      <4> SUFFICES ASSUME NEW b \in Reached \cup {s} PROVE \E k \in 1 .. L + 1 : vertex'[k] = b
        BY <1>6 DEF Reached, Range
      <4>1. CASE b = s
        BY <1>5, <1>6, <4>1
      <4>2. CASE b \in Reached
        <5>1. dfnum(b) \in 1 .. L /\ vertex[dfnum(b)] = b /\ dfnum(b) \in 1 .. L + 1
          BY <1>5, <4>2
        <5> QED
          BY <1>6, <5>1
      <4> QED
        BY <4>1, <4>2
    <3> QED
      BY <3>1, <3>2
  <2>2. ASSUME NEW b, NEW k \in 1 .. L + 1, vertex'[k] = b PROVE dfnum(b)' = k
    <3>1. dfnum(b)' = CHOOSE j \in 1 .. L + 1 : vertex'[j] = b
      BY <1>6 DEF dfnum
    <3>2. \A j \in 1 .. L + 1 : vertex'[j] = b <=> j = k
      BY <1>6, <1>8, <2>2 DEF Numbered
    <3> QED
      BY <3>1, <3>2
  <2>4. dfnum(s)' = L + 1
    <3>1. L + 1 \in 1 .. L + 1
      BY <1>5
    <3> QED
      BY <1>6, <2>2, <3>1
  <2>5. ASSUME NEW b \in Reached PROVE dfnum(b)' = dfnum(b)
    <3>1. dfnum(b) \in 1 .. L /\ vertex[dfnum(b)] = b /\ dfnum(b) \in 1 .. L + 1
      BY <1>5
    <3>2. vertex'[dfnum(b)] = b
      BY <1>6, <3>1
    <3> QED
      BY <2>2, <3>1, <3>2
  <2> QED
    BY <2>1, <2>4, <2>5
<1>10. /\ parent' \in [Blocks -> Blocks \cup {0}]
       /\ parent'[s] = t
       /\ \A b \in Blocks \ {s} : parent'[b] = parent[b]
  BY <1>1, <1>2, <1>3, <1>4, <1>5 DEF TypeInv
<1>11. stack' \in Seq(Blocks) /\ Len(stack') = Len(stack) + 1 /\ Range(stack') = Range(stack) \cup {s}
       /\ DOMAIN stack' = 1 .. Len(stack) + 1
       /\ \A k \in 1 .. Len(stack) : stack'[k] = stack[k]
       /\ stack'[Len(stack) + 1] = s
  <2>1. stack \in Seq(Blocks)
    BY <1>1 DEF TypeInv
  <2>2. /\ stack' \in Seq(Blocks) /\ Len(stack') = Len(stack) + 1
        /\ DOMAIN stack' = 1 .. Len(stack) + 1
        /\ \A k \in 1 .. Len(stack) : stack'[k] = stack[k]
        /\ stack'[Len(stack) + 1] = s
    BY <1>2, <1>4, <2>1
  <2>3. Range(stack') = Range(stack) \cup {s}
    <3>1. DOMAIN stack = 1 .. Len(stack) /\ Len(stack) \in Nat
      BY <2>1
    <3>2. \A k \in 1 .. Len(stack) + 1 : k \in 1 .. Len(stack) \/ k = Len(stack) + 1
      BY <3>1
    <3> QED
      BY <2>2, <3>1, <3>2 DEF Range
  <2> QED
    BY <2>2, <2>3
<1>12. Visits(s, t, L)
  BY <1>3, <1>4, <1>5, <1>6, <1>7, <1>8, <1>9, <1>10, <1>11 DEF Visits
<1> QED
  BY <1>12, <1>a, <1>c

(* A block is reached from the top of the stack.                           *)
LEMMA VisitKeeps == ClimbInv /\ DfsVisit => ClimbInv'
<1> SUFFICES ASSUME ClimbInv, DfsVisit PROVE ClimbInv'
  OBVIOUS
<1>b. PICK s : Visits(s, Last(stack), Len(vertex))
  BY SearchVisits
<1>a. PICK t, L : t = Last(stack) /\ L = Len(vertex)
  OBVIOUS
<1>1. TypeInv /\ SearchInv /\ LoopHeadsOnCycles /\ Numbered /\ succ \in Graphs
  BY DEF ClimbInv, DfsVisit, TypeInv
<1>2. /\ pc = "dfs" /\ pc' = "dfs"
      /\ UNCHANGED <<succ, ending, semi, label, ancestor, bucket, idom, i, p, pdom, kind>>
  BY DEF DfsVisit, graph
<1>3. Visits(s, t, L)
  BY <1>a, <1>b
<1>4. /\ t \in Reached
      /\ \E k \in DOMAIN stack : k = Len(stack) /\ stack[k] = t
      /\ Len(stack) \in Nat /\ DOMAIN stack = 1 .. Len(stack)
      /\ s \in Range(succ[t]) /\ s \in Blocks /\ s \notin Reached
      /\ stack' \in Seq(Blocks) /\ Len(stack') = Len(stack) + 1
      /\ Range(stack') = Range(stack) \cup {s}
      /\ DOMAIN stack' = 1 .. Len(stack) + 1
      /\ \A k \in 1 .. Len(stack) : stack'[k] = stack[k]
  BY <1>3 DEF Visits
<1>5. /\ Reached \subseteq Blocks /\ DOMAIN vertex = 1 .. L /\ L \in Nat /\ 1 <= L
      /\ \A k \in DOMAIN vertex : vertex[k] \in Reached /\ dfnum(vertex[k]) = k
      /\ \A b \in Reached : dfnum(b) \in 1 .. L /\ vertex[dfnum(b)] = b
      /\ vertex' \in Seq(Blocks) /\ Len(vertex') = L + 1 /\ DOMAIN vertex' = 1 .. L + 1
      /\ \A k \in 1 .. L : vertex'[k] = vertex[k]
      /\ vertex'[L + 1] = s
  BY <1>3 DEF Visits
<1>6. /\ Blocks' = Blocks /\ Numbered'
      /\ Reached' = Reached \cup {s}
      /\ \A b \in Reached : dfnum(b)' = dfnum(b)
      /\ dfnum(s)' = L + 1
      /\ parent' \in [Blocks -> Blocks \cup {0}]
      /\ parent'[s] = t
      /\ \A b \in Reached : parent'[b] = parent[b]
  BY <1>3 DEF Visits
<1>7. \A b \in Reached : HasChild(b) => HasChild(b)'
  <2> SUFFICES ASSUME NEW b \in Reached, HasChild(b) PROVE HasChild(b)'
    OBVIOUS
  <2>1. dfnum(b) + 1 \in 1 .. L /\ parent[vertex[dfnum(b) + 1]] = b /\ dfnum(b) \in 1 .. L
    BY <1>5 DEF HasChild
  <2>2. vertex'[dfnum(b) + 1] = vertex[dfnum(b) + 1] /\ vertex[dfnum(b) + 1] \in Reached
    BY <1>5, <2>1
  <2>3. parent'[vertex'[dfnum(b) + 1]] = b /\ dfnum(b) < L + 1 /\ dfnum(b)' = dfnum(b)
    BY <1>5, <1>6, <2>1, <2>2
  <2> QED
    BY <1>5, <2>3 DEF HasChild
<1>8. TreeInv'
  <2> SUFFICES ASSUME NEW k \in 1 .. L + 1, k > 1
               PROVE  \E r : /\ r = parent'[vertex'[k]] /\ r \in Reached'
                             /\ dfnum(r)' < k /\ vertex'[k] \in Range(succ[r])
    BY <1>2, <1>5 DEF TreeInv, dfnum
  <2>1. CASE k = L + 1
    <3>1. parent'[vertex'[k]] = t /\ vertex'[k] = s
      BY <1>5, <1>6, <2>1
    <3>2. dfnum(t)' = dfnum(t) /\ dfnum(t) \in 1 .. L
      BY <1>4, <1>5, <1>6
    <3> QED
      BY <1>4, <1>5, <1>6, <2>1, <3>1, <3>2
  <2>2. CASE k \in 1 .. L
    <3>1. vertex'[k] = vertex[k] /\ vertex[k] \in Reached
      BY <1>5, <2>2
    <3>2. PICK r : r = parent[vertex[k]]
      OBVIOUS
    <3>3. r \in Reached /\ dfnum(r) < k /\ vertex[k] \in Range(succ[r])
      BY <1>1, <1>5, <2>2, <3>2 DEF SearchInv, TreeInv
    <3>4. parent'[vertex'[k]] = r
      BY <1>6, <3>1, <3>2
    <3>5. r \in Reached' /\ dfnum(r)' < k
      BY <1>6, <3>3
    <3> QED
      BY <3>1, <3>3, <3>4, <3>5
  <2> QED
    BY <1>5, <2>1, <2>2
<1>9. \A b \in Reached' :
         (dfnum(b) < Len(vertex))' =>
           \/ HasChild(b)'
           \/ \A x \in Range(succ'[b]) : x \in Reached' /\ (dfnum(x) <= dfnum(b))'
  <2> SUFFICES ASSUME NEW b \in Reached', (dfnum(b))' < L + 1, ~HasChild(b)',
                      NEW x \in Range(succ[b])
               PROVE  x \in Reached' /\ (dfnum(x))' <= (dfnum(b))'
    BY <1>2, <1>5
  <2>1. b \in Reached /\ (dfnum(b))' = dfnum(b) /\ dfnum(b) \in 1 .. L
    <3>1. CASE b = s
      <4>1. (dfnum(b))' = L + 1
        BY <1>6, <3>1
      <4> QED
        BY <1>5, <4>1
    <3> QED
      BY <1>5, <1>6, <3>1
  <2>2. x \in Reached /\ dfnum(x) <= dfnum(b)
    <3>1. CASE dfnum(b) < L
      <4>1. ~HasChild(b)
        BY <1>7, <2>1
      <4> QED
        BY <1>1, <1>a, <2>1, <3>1, <4>1 DEF SearchInv
    <3>2. CASE dfnum(b) = L
      <4>1. b = Last(vertex)
        <5>1. b = vertex[L]
          BY <1>5, <2>1, <3>2
        <5> QED
          BY <1>a, <5>1 DEF Last
      <4>2. b # t
        <5> SUFFICES ASSUME b = t PROVE FALSE
          OBVIOUS
        <5>1. vertex'[dfnum(b) + 1] = s /\ dfnum(b) < L + 1
          BY <1>5, <3>2
        <5>2. parent'[vertex'[dfnum(b) + 1]] = b
          BY <1>6, <5>1
        <5> QED
          BY <1>5, <2>1, <5>1, <5>2 DEF HasChild
      <4>3. b \notin Range(stack)
        <5> SUFFICES ASSUME NEW k \in DOMAIN stack, stack[k] = b PROVE FALSE
          BY DEF Range
        <5>1. k # Len(stack)
          BY <1>4, <4>2
        <5>2. k < Len(stack)
          BY <1>4, <5>1
        <5> QED
          BY <1>1, <4>1, <5>2 DEF SearchInv
      <4>4. x \in Reached
        BY <1>1, <2>1, <4>3 DEF SearchInv
      <4> QED
        BY <1>5, <3>2, <4>4
    <3> QED
      BY <1>5, <2>1, <3>1, <3>2
  <2> QED
    BY <1>6, <2>1, <2>2
<1>10. SearchInv'
  <2>1. Range(stack') \subseteq Reached'
    BY <1>1, <1>6, <1>4 DEF SearchInv
  <2>2. \A b \in Reached' \ Range(stack') : Range(succ'[b]) \subseteq Reached'
    BY <1>1, <1>2, <1>6, <1>4 DEF SearchInv
  <2>3. \A k \in DOMAIN stack' : k < Len(stack') => stack'[k] # Last(vertex')
    <3> SUFFICES ASSUME NEW k \in 1 .. Len(stack) + 1, k < Len(stack) + 1
                 PROVE  stack'[k] # s
      BY <1>5, <1>4 DEF Last
    <3>1. k \in DOMAIN stack /\ stack'[k] = stack[k]
      BY <1>4
    <3>2. stack[k] \in Reached
      BY <1>1, <3>1 DEF SearchInv, Range
    <3> QED
      BY <1>4, <3>1, <3>2
  <2>4. \A b \in Blocks' : /\ semi'[b] = b /\ label'[b] = b /\ ancestor'[b] = 0
                           /\ idom'[b] = 0 /\ bucket'[b] = << >>
    BY <1>1, <1>2, <1>6 DEF SearchInv
  <2>5. p' = 0
    BY <1>1, <1>2 DEF SearchInv
  <2> QED
    BY <1>8, <1>9, <2>1, <2>2, <2>3, <2>4, <2>5 DEF SearchInv
<1>11. TypeInv'
  BY <1>1, <1>2, <1>6, <1>4 DEF TypeInv
<1>12. Rises(idom)' /\ LoopHeadsOnCycles'
  <2>1. \A b \in Blocks' : idom'[b] = 0
    BY <1>10 DEF SearchInv
  <2> QED
    BY <1>1, <1>2, <2>1, SameHeads DEF Rises
<1> QED
  BY <1>2, <1>10, <1>11, <1>12 DEF ClimbInv

(* A call of dfs returns.                                                  *)
LEMMA ReturnFromDfsKeeps == ClimbInv /\ DfsReturn => ClimbInv'
<1> SUFFICES ASSUME ClimbInv, DfsReturn PROVE ClimbInv'
  OBVIOUS
<1>a. PICK t : t = Last(stack)
  OBVIOUS
<1>1. TypeInv /\ SearchInv /\ LoopHeadsOnCycles /\ Numbered /\ succ \in Graphs /\ Rises(idom)
  BY DEF ClimbInv, DfsReturn, TypeInv
<1>2. /\ Unreached(t) = {} /\ stack # << >> /\ pc = "dfs" /\ pc' = "dfs"
      /\ stack' = Front(stack)
      /\ UNCHANGED <<succ, ending, vertex, parent, semi, label, ancestor, bucket, idom,
                     i, p, pdom, kind>>
  BY <1>a DEF DfsReturn, graph
<1>3. /\ Blocks' = Blocks /\ Reached' = Reached
      /\ \A b : dfnum(b)' = dfnum(b) /\ (HasChild(b)' <=> HasChild(b))
      /\ Numbered' /\ TreeInv'
  BY <1>1, <1>2, SameTree DEF SearchInv
<1>4. /\ stack' \in Seq(Blocks)
      /\ DOMAIN stack = 1 .. Len(stack) /\ Len(stack) \in Nat
      /\ DOMAIN stack' = 1 .. Len(stack) - 1 /\ Len(stack') = Len(stack) - 1
      /\ \A k \in 1 .. Len(stack) - 1 : stack'[k] = stack[k]
      /\ stack[Len(stack)] = t
  <2>1. stack \in Seq(Blocks) /\ Len(stack) \in Nat /\ Len(stack) # 0 /\ DOMAIN stack = 1 .. Len(stack)
    BY <1>1, <1>2, EmptySeq DEF TypeInv
  <2>2. PICK m : m = Len(stack) - 1 /\ m \in Nat /\ m <= Len(stack)
    BY <2>1
  <2>3. stack' = SubSeq(stack, 1, m)
    BY <1>2, <2>2 DEF Front
  <2>4. /\ stack' \in Seq(Blocks) /\ Len(stack') = m /\ DOMAIN stack' = 1 .. m
        /\ \A k \in 1 .. m : stack'[k] = stack[k]
    BY <2>1, <2>2, <2>3
  <2>5. stack[Len(stack)] = t
    BY <1>a, <2>1 DEF Last
  <2>6. \A k \in 1 .. Len(stack) - 1 : stack'[k] = stack[k]
    BY <2>2, <2>4
  <2>7. DOMAIN stack' = 1 .. Len(stack) - 1 /\ Len(stack') = Len(stack) - 1
    BY <2>2, <2>4
  <2> QED
    BY <2>1, <2>4, <2>5, <2>6, <2>7
<1>5. Range(stack') \subseteq Range(stack) /\ Range(stack) \subseteq Range(stack') \cup {t}
  <2>0. Len(stack) \in Nat
    BY <1>4
  <2>1. \A k \in 1 .. Len(stack) : k \in 1 .. Len(stack) - 1 \/ k = Len(stack)
    BY <2>0
  <2>2. \A k \in 1 .. Len(stack) - 1 : k \in 1 .. Len(stack)
    BY <2>0
  <2> QED
    BY <1>4, <2>1, <2>2 DEF Range
<1>6. \A b \in Reached \ Range(stack') : Range(succ[b]) \subseteq Reached
  <2>1. Range(succ[t]) \subseteq Reached
    BY <1>2 DEF Unreached, Range
  <2> QED
    BY <1>1, <1>5, <2>1 DEF SearchInv
<1>7. \A k \in DOMAIN stack' : k < Len(stack') => stack'[k] # Last(vertex')
  <2> SUFFICES ASSUME NEW k \in 1 .. Len(stack) - 1 PROVE stack[k] # Last(vertex)
    BY <1>2, <1>4
  <2>1. k \in DOMAIN stack /\ k < Len(stack)
    BY <1>4
  <2> QED
    BY <1>1, <2>1 DEF SearchInv
<1>8. SearchInv'
  <2>1. \A b \in Reached' :
          (dfnum(b) < Len(vertex))' =>
            \/ HasChild(b)'
            \/ \A s \in Range(succ'[b]) : s \in Reached' /\ (dfnum(s) <= dfnum(b))'
    BY <1>1, <1>2, <1>3 DEF SearchInv
  <2>2. Range(stack') \subseteq Reached'
    BY <1>1, <1>3, <1>5 DEF SearchInv
  <2>3. \A b \in Reached' \ Range(stack') : Range(succ'[b]) \subseteq Reached'
    BY <1>2, <1>3, <1>6
  <2>4. \A b \in Blocks' : /\ semi'[b] = b /\ label'[b] = b /\ ancestor'[b] = 0
                           /\ idom'[b] = 0 /\ bucket'[b] = << >>
    BY <1>1, <1>2, <1>3 DEF SearchInv
  <2>5. p' = 0
    BY <1>1, <1>2 DEF SearchInv
  <2> QED
    BY <1>3, <1>7, <2>1, <2>2, <2>3, <2>4, <2>5 DEF SearchInv
<1>9. TypeInv'
  BY <1>1, <1>2, <1>3, <1>4 DEF TypeInv
<1>10. Rises(idom)' /\ LoopHeadsOnCycles'
  <2>1. \A b \in Blocks' : idom'[b] = 0
    BY <1>8 DEF SearchInv
  <2> QED
    BY <1>1, <1>2, <2>1, SameHeads DEF Rises
<1> QED
  BY <1>2, <1>8, <1>9, <1>10 DEF ClimbInv

(* The search is over: from a vertex with an edge to a later one the search*)
(* went on, so it has a child.                                             *)
LEMMA StartSemiKeeps == ClimbInv /\ StartSemi => ClimbInv'
<1> SUFFICES ASSUME ClimbInv, StartSemi PROVE ClimbInv'
  OBVIOUS
<1>1. TypeInv /\ SearchInv /\ LoopHeadsOnCycles /\ Numbered /\ succ \in Graphs
  BY DEF ClimbInv, StartSemi, TypeInv
<1>2. /\ stack = << >> /\ pc = "dfs" /\ pc' = "semi" /\ i' = Len(vertex)
      /\ UNCHANGED <<succ, ending, stack, vertex, parent, semi, label, ancestor, bucket,
                     idom, p, pdom, kind>>
  BY DEF StartSemi, graph
<1>3. /\ Blocks' = Blocks /\ Reached' = Reached
      /\ \A b : dfnum(b)' = dfnum(b)
      /\ Numbered' /\ TreeInv' /\ (EdgesInv' <=> EdgesInv)
  BY <1>1, <1>2, SameTree DEF SearchInv
<1>4. /\ Reached \subseteq Blocks /\ DOMAIN vertex = 1 .. Len(vertex)
      /\ Len(vertex) \in Nat /\ 1 <= Len(vertex)
      /\ \A b \in Reached : dfnum(b) \in 1 .. Len(vertex)
      /\ \A k \in DOMAIN vertex : vertex[k] \in Reached
  BY <1>1, Numbers
<1>5. EdgesInv
  <2> SUFFICES ASSUME NEW v \in Reached, NEW w \in Reached,
                      w \in Range(succ[v]), dfnum(v) < dfnum(w)
               PROVE  HasChild(v)
    BY DEF EdgesInv
  <2>1. dfnum(v) < Len(vertex) /\ ~(dfnum(w) <= dfnum(v))
    BY <1>4
  <2> QED
    BY <1>1, <2>1 DEF SearchInv
<1>6. \A b \in Blocks :
        semi[b] = b /\ label[b] = b /\ ancestor[b] = 0 /\ idom[b] = 0 /\ bucket[b] = << >>
  BY <1>1 DEF SearchInv
<1>7. \A b \in Reached : Open(b)'
  BY <1>2, <1>3, <1>4 DEF Open
<1>8. SemiInv'
  BY <1>2, <1>3, <1>4, <1>6, <1>7 DEF SemiInv
<1>9. LabelInv'
  <2>1. \A b \in Reached : LeadsTo(b, b)'
    BY <1>3 DEF LeadsTo
  <2> SUFFICES ASSUME NEW b \in Reached'
               PROVE  /\ label'[b] \in Reached' /\ LeadsTo(label[b], b)'
                      /\ ancestor'[b] = 0 => label'[b] = b
                      /\ ancestor'[b] # 0 => ancestor'[label'[b]] # 0
    BY DEF LabelInv
  <2>2. label'[b] = b /\ b \in Reached /\ ancestor'[b] = 0
    BY <1>2, <1>3, <1>4, <1>6
  <2>3. LeadsTo(label[b], b)'
    BY <1>3, <2>2 DEF LeadsTo
  <2> QED
    BY <1>3, <2>2, <2>3
<1>10. AncestorInv'
  BY <1>2, <1>3, <1>4, <1>6 DEF AncestorInv, Rises
<1>11. BucketInv'
  <2>1. \A b \in Blocks : Range(bucket'[b]) = {}
    BY <1>2, <1>6 DEF Range
  <2> QED
    BY <1>3, <1>7, <2>1 DEF BucketInv
<1>12. i' \in DOMAIN vertex'
  BY <1>2, <1>4
<1>13. ~(i' > 1 /\ parent'[vertex'[i']] <= p')
  <2> SUFFICES ASSUME i' > 1, parent'[vertex'[i']] <= p' PROVE FALSE
    OBVIOUS
  <2>1. parent[vertex[Len(vertex)]] \in Reached
    BY <1>1, <1>2, <1>4 DEF SearchInv, TreeInv
  <2>2. parent[vertex[Len(vertex)]] \in Blocks /\ p = 0
    BY <1>1, <1>4, <2>1 DEF SearchInv
  <2> QED
    BY <1>1, <1>2, <2>2, GraphShape
<1>14. LinkInv'
  BY <1>2, <1>3, <1>5, <1>8, <1>9, <1>10, <1>11, <1>12, <1>13 DEF LinkInv
<1>15. TypeInv'
  BY <1>1, <1>2, <1>3, <1>4 DEF TypeInv
<1>16. Rises(idom)' /\ LoopHeadsOnCycles'
  BY <1>1, <1>2, <1>3, <1>6, SameHeads DEF Rises
<1> QED
  BY <1>2, <1>14, <1>15, <1>16 DEF ClimbInv

-----------------------------------------------------------------------------
(* What a step that links nothing keeps: the blocks that are still open.   *)
LEMMA SameOpen ==
    ASSUME succ' = succ, vertex' = vertex, parent' = parent, i' = i, pc' = pc
    PROVE  \A b : Open(b)' <=> Open(b)
  BY SameTree DEF Open

(* Compression leaves a forest of the same kind.                           *)
LEMMA CompressionKeeps ==
    ASSUME TypeInv, LinkInv, NEW v \in Reached,
           label' = Eval(v).label, ancestor' = Eval(v).ancestor,
           succ' = succ, vertex' = vertex, parent' = parent, i' = i, pc' = pc
    PROVE  /\ label' \in [Blocks -> Blocks]
           /\ ancestor' \in [Blocks -> Blocks \cup {0}]
           /\ LabelInv'
           /\ AncestorInv'
<1>1. PICK N, A : N = label' /\ A = ancestor'
  OBVIOUS
<1>2. /\ Blocks' = Blocks /\ Reached' = Reached
      /\ \A a, b : LeadsTo(a, b)' <=> LeadsTo(a, b)
      /\ \A a, b : IsAbove(a, b)' <=> IsAbove(a, b)
      /\ \A b : HasChild(b)' <=> HasChild(b)
      /\ \A b : Open(b)' <=> Open(b)
      /\ Reached \subseteq Blocks
  BY SameTree, SameOpen, Numbers DEF TypeInv
<1>3. /\ N \in [Blocks -> Blocks] /\ A \in [Blocks -> Blocks \cup {0}]
      /\ \A b \in Blocks : /\ A[b] = 0 <=> ancestor[b] = 0
                           /\ A[b] # 0 => IsAbove(A[b], b) /\ HasChild(A[b])
      /\ \A b \in Reached : /\ N[b] \in Reached /\ LeadsTo(N[b], b)
                            /\ ancestor[b] = 0 => N[b] = b
                            /\ ancestor[b] # 0 => ancestor[N[b]] # 0
  <2>1. N = Eval(v).label /\ A = Eval(v).ancestor
    BY <1>1
  <2> QED
    BY <2>1, EvalCompresses
<1>4. LabelInv'
  <2>1. \A b \in Reached : \E n : /\ n = label'[b] /\ n \in Reached'
                                  /\ LeadsTo(n, b)'
                                  /\ ancestor'[b] = 0 => n = b
                                  /\ ancestor'[b] # 0 => ancestor'[n] # 0
    <3> SUFFICES ASSUME NEW b \in Reached
                 PROVE  /\ N[b] = label'[b] /\ N[b] \in Reached'
                        /\ LeadsTo(N[b], b)'
                        /\ ancestor'[b] = 0 => N[b] = b
                        /\ ancestor'[b] # 0 => ancestor'[N[b]] # 0
      BY Zenon
    <3> QED
      BY <1>1, <1>2, <1>3
  <2> QED
    BY <1>2, <2>1 DEF LabelInv, LeadsTo, Closed
<1>5. AncestorInv'
  <2>1. \A b \in Blocks : \E a : /\ a = ancestor'[b]
                                 /\ a # 0 => IsAbove(a, b)' /\ HasChild(a)'
    <3> SUFFICES ASSUME NEW b \in Blocks
                 PROVE  /\ A[b] = ancestor'[b]
                        /\ A[b] # 0 => IsAbove(A[b], b)' /\ HasChild(A[b])'
      BY Zenon
    <3> QED
      BY <1>1, <1>2, <1>3
  <2>2. \A b \in Reached : Open(b)' => ancestor'[b] = 0
    BY <1>1, <1>2, <1>3 DEF LinkInv, AncestorInv
  <2>3. Rises(ancestor)'
    BY <1>2, <2>1 DEF Rises, IsAbove, dfnum, LeadsTo, Closed
  <2>4. \A b \in Blocks : ancestor'[b] # 0 => HasChild(ancestor[b])'
    BY <2>1 DEF HasChild, dfnum
  <2> QED
    BY <1>2, <2>2, <2>3, <2>4 DEF AncestorInv
<1> QED
  BY <1>1, <1>3, <1>4, <1>5

(* Where nothing is compressed the forest stays as it is.                  *)
LEMMA SameForest ==
    ASSUME label' = label, ancestor' = ancestor,
           succ' = succ, vertex' = vertex, parent' = parent, i' = i, pc' = pc
    PROVE  (LabelInv' <=> LabelInv) /\ (AncestorInv' <=> AncestorInv)
<1>1. /\ Blocks' = Blocks /\ Reached' = Reached
      /\ \A a, b : LeadsTo(a, b)' <=> LeadsTo(a, b)
      /\ \A a, b : IsAbove(a, b)' <=> IsAbove(a, b)
      /\ \A b : HasChild(b)' <=> HasChild(b)
      /\ \A b : Open(b)' <=> Open(b)
  BY SameTree, SameOpen
<1>2. LabelInv' <=> LabelInv
  BY <1>1 DEF LabelInv, LeadsTo, Closed
<1>3. Rises(ancestor)' <=> Rises(ancestor)
  BY <1>1 DEF Rises, IsAbove, dfnum, LeadsTo, Closed
<1>4. \A b : HasChild(ancestor[b])' <=> HasChild(ancestor[b])
  BY <1>1 DEF HasChild, dfnum
<1> QED
  BY <1>1, <1>2, <1>3, <1>4 DEF AncestorInv

(* The semi-dominator of what Eval returns leads to the vertex it was      *)
(* called with, and has a child unless it is that vertex, not linked yet.  *)
LEMMA EvalSemi ==
    ASSUME TypeInv, LinkInv, NEW v \in Reached
    PROVE  /\ semi[Eval(v).u] \in Reached
           /\ LeadsTo(semi[Eval(v).u], v)
           /\ HasChild(semi[Eval(v).u]) \/ (ancestor[v] = 0 /\ semi[Eval(v).u] = v)
<1>1. PICK u : u = Eval(v).u
  OBVIOUS
<1>2. /\ u \in Reached /\ LeadsTo(u, v)
      /\ ancestor[v] = 0 => u = v
      /\ ancestor[v] # 0 => ancestor[u] # 0 \/ HasChild(u)
  <2>1. /\ Eval(v).u \in Reached /\ LeadsTo(Eval(v).u, v)
        /\ ancestor[v] = 0 => Eval(v).u = v
        /\ ancestor[v] # 0 => ancestor[Eval(v).u] # 0 \/ HasChild(Eval(v).u)
    BY EvalFinds
  <2> QED
    BY <1>1, <2>1
<1>3. semi[u] = u \/ (IsAbove(semi[u], u) /\ HasChild(semi[u]))
  BY <1>2 DEF LinkInv, SemiInv
<1>4. CASE semi[u] = u
  <2>1. ancestor[u] = 0
    BY <1>2, <1>4 DEF LinkInv, SemiInv, AncestorInv
  <2> QED
    BY <1>1, <1>2, <1>4, <2>1
<1>5. CASE IsAbove(semi[u], u) /\ HasChild(semi[u])
  <2>1. semi[u] \in Reached /\ LeadsTo(semi[u], u)
    BY <1>5 DEF IsAbove
  <2>2. semi[u] \in Blocks /\ u \in Blocks /\ v \in Blocks /\ succ \in Graphs
    BY <1>2, <2>1, Numbers DEF TypeInv
  <2>3. LeadsTo(semi[u], v)
    BY <1>2, <2>1, <2>2, Leading
  <2> QED
    BY <1>1, <1>5, <2>1, <2>3
<1> QED
  BY <1>3, <1>4, <1>5

(* A predecessor is looked at: where it has a lower semi-dominator, the    *)
(* vertex takes that one, which is above it.                               *)
LEMMA PredecessorKeeps == ClimbInv /\ EvalPredecessor => ClimbInv'
<1> SUFFICES ASSUME ClimbInv, EvalPredecessor PROVE ClimbInv'
  OBVIOUS
<1>a. PICK w, v : w = vertex[i] /\ v = Min(LeftPreds)
  OBVIOUS
<1>b. PICK S : S = semi'
  OBVIOUS
<1>1. /\ TypeInv /\ LinkInv /\ LoopHeadsOnCycles /\ Rises(idom)
      /\ Numbered /\ succ \in Graphs /\ i \in DOMAIN vertex
  BY DEF ClimbInv, EvalPredecessor, TypeInv, LinkInv
<1>2. /\ pc = "semi" /\ pc' = "semi" /\ i > 1 /\ LeftPreds # {}
      /\ IF v \in Reached
         THEN /\ S = IF SemiNumber(Eval(v).u) < SemiNumber(w)
                     THEN [semi EXCEPT ![w] = semi[Eval(v).u]] ELSE semi
              /\ label' = Eval(v).label
              /\ ancestor' = Eval(v).ancestor
         ELSE S = semi /\ label' = label /\ ancestor' = ancestor
      /\ p' = v
      /\ UNCHANGED <<succ, stack, vertex, parent, bucket, idom, i, kind>>
  BY <1>a, <1>b DEF EvalPredecessor, graph
<1>3. /\ Reached \subseteq Blocks /\ w \in Reached /\ dfnum(w) = i
      /\ DOMAIN vertex = 1 .. Len(vertex) /\ i \in Nat
      /\ \A b \in Reached : dfnum(b) \in Nat /\ vertex[dfnum(b)] = b
      /\ Blocks \subseteq Nat
  <2>1. /\ Reached \subseteq Blocks /\ DOMAIN vertex = 1 .. Len(vertex)
        /\ \A k \in DOMAIN vertex : vertex[k] \in Reached /\ dfnum(vertex[k]) = k
        /\ \A b \in Reached : dfnum(b) \in 1 .. Len(vertex) /\ vertex[dfnum(b)] = b
    BY <1>1, Numbers
  <2>2. Blocks \subseteq Nat
    BY <1>1, GraphShape
  <2> QED
    BY <1>1, <1>a, <2>1, <2>2 DEF TypeInv
<1>4. v \in Preds(w) /\ v > p /\ \A y \in Preds(w) : y > p => v <= y
  <2>1. LeftPreds \subseteq Nat /\ LeftPreds = {y \in Preds(w) : y > p}
    BY <1>3, <1>a DEF LeftPreds, Preds
  <2> QED
    BY <1>2, <1>a, <2>1, MinTaken
<1>5. v \in Blocks /\ w \in Range(succ[v]) /\ w \in Blocks
  BY <1>3, <1>4 DEF Preds
<1>6. /\ Blocks' = Blocks /\ Reached' = Reached
      /\ \A b : dfnum(b)' = dfnum(b)
      /\ \A a, b : IsAbove(a, b)' <=> IsAbove(a, b)
      /\ \A b : HasChild(b)' <=> HasChild(b)
      /\ \A b : Open(b)' <=> Open(b)
      /\ Numbered' /\ TreeInv' /\ EdgesInv'
  BY <1>1, <1>2, SameTree, SameOpen DEF LinkInv
<1>7. /\ label' \in [Blocks -> Blocks]
      /\ ancestor' \in [Blocks -> Blocks \cup {0}]
      /\ LabelInv' /\ AncestorInv'
  <2>1. CASE v \in Reached
    BY <1>1, <1>2, <2>1, CompressionKeeps
  <2>2. CASE v \notin Reached
    BY <1>1, <1>2, <2>2, SameForest DEF LinkInv, TypeInv
  <2> QED
    BY <2>1, <2>2
<1>8. semi \in [Blocks -> Blocks] /\ semi[w] \in Reached /\ dfnum(semi[w]) <= i
  <2>1. semi[w] = w \/ IsAbove(semi[w], w)
    BY <1>1, <1>3 DEF LinkInv, SemiInv
  <2>2. semi[w] \in Reached /\ (semi[w] = w \/ dfnum(semi[w]) < i)
    BY <1>3, <2>1 DEF IsAbove
  <2>3. dfnum(semi[w]) \in Nat
    BY <1>3, <2>2
  <2> QED
    BY <1>1, <1>3, <2>2, <2>3 DEF TypeInv
<1>9. /\ S \in [Blocks -> Blocks]
      /\ \A b \in Blocks : b # w => S[b] = semi[b]
      /\ S[w] = w \/ (IsAbove(S[w], w) /\ HasChild(S[w]))
      /\ semi[w] # w => S[w] # w
      /\ v \in Reached /\ v = parent[w] => S[w] # w
  <2>1. CASE v \notin Reached
    BY <1>1, <1>2, <1>3, <1>8, <2>1 DEF LinkInv, SemiInv
  <2>2. CASE v \in Reached
    <3>1. PICK x : x = semi[Eval(v).u]
      OBVIOUS
    <3>2. x \in Reached /\ LeadsTo(x, v) /\ (HasChild(x) \/ (ancestor[v] = 0 /\ x = v))
      <4>1. /\ semi[Eval(v).u] \in Reached /\ LeadsTo(semi[Eval(v).u], v)
            /\ HasChild(semi[Eval(v).u]) \/ (ancestor[v] = 0 /\ semi[Eval(v).u] = v)
        BY <1>1, <2>2, EvalSemi
      <4> QED
        BY <3>1, <4>1
    <3>3. SemiNumber(Eval(v).u) = dfnum(x) /\ SemiNumber(w) = dfnum(semi[w])
      BY <3>1 DEF SemiNumber
    <3>4. S = IF dfnum(x) < dfnum(semi[w]) THEN [semi EXCEPT ![w] = x] ELSE semi
      BY <1>2, <2>2, <3>1, <3>3
    <3>5. LeadsTo(x, w)
      <4>1. x \in Blocks /\ LeadsTo(v, w)
        BY <1>1, <1>3, <1>5, <3>2, Leading
      <4> QED
        BY <1>1, <1>5, <3>2, <4>1, Leading
    <3>6. ASSUME dfnum(x) < dfnum(semi[w]) PROVE IsAbove(x, w) /\ HasChild(x) /\ x # w
      <4>1. dfnum(x) < i /\ dfnum(x) \in Nat
        <5>1. PICK m, n : m = dfnum(x) /\ n = dfnum(semi[w])
          OBVIOUS
        <5>2. m \in Nat /\ n \in Nat /\ n <= i /\ m < n
          BY <1>3, <1>8, <3>2, <3>6, <5>1
        <5>3. m < i
          BY <1>3, <5>2
        <5> QED
          BY <5>1, <5>2, <5>3
      <4>2. IsAbove(x, w) /\ x # w
        BY <1>3, <3>2, <3>5, <4>1 DEF IsAbove
      <4>3. HasChild(x)
        <5>1. CASE x = v
          BY <1>1, <1>3, <1>5, <2>2, <4>1, <5>1 DEF LinkInv, EdgesInv
        <5> QED
          BY <3>2, <5>1
      <4> QED
        BY <4>2, <4>3
    <3>7. ASSUME v = parent[w] PROVE S[w] # w
      <4>1. dfnum(v) < i
        BY <1>1, <1>2, <1>3, <1>a, <3>7 DEF LinkInv, TreeInv
      <4>2. ancestor[v] = 0 /\ semi[v] = v
        BY <1>1, <2>2, <4>1 DEF LinkInv, AncestorInv, SemiInv, Open
      <4>3. x = v
        <5>1. Eval(v).u = v
          BY <1>1, <2>2, <4>2, EvalFinds
        <5> QED
          BY <3>1, <4>2, <5>1
      <4>4. CASE dfnum(x) < dfnum(semi[w])
        BY <1>5, <1>8, <3>4, <3>6, <4>4
      <4>5. CASE ~(dfnum(x) < dfnum(semi[w]))
        <5>1. dfnum(semi[w]) <= dfnum(v) /\ dfnum(v) \in Nat
          BY <1>3, <1>8, <2>2, <4>3, <4>5
        <5>2. dfnum(semi[w]) # i
          BY <1>3, <1>8, <4>1, <5>1
        <5> QED
          BY <1>3, <3>4, <4>5, <5>2
      <4> QED
        BY <4>4, <4>5
    <3>8. CASE dfnum(x) < dfnum(semi[w])
      <4>1. S = [semi EXCEPT ![w] = x] /\ x \in Blocks
        BY <1>3, <3>2, <3>4, <3>8
      <4>2. S \in [Blocks -> Blocks] /\ S[w] = x /\ \A b \in Blocks : b # w => S[b] = semi[b]
        BY <1>5, <1>8, <4>1
      <4> QED
        BY <3>6, <3>8, <4>2
    <3>9. CASE ~(dfnum(x) < dfnum(semi[w]))
      <4>1. S = semi
        BY <3>4, <3>9
      <4>2. semi[w] = w \/ (IsAbove(semi[w], w) /\ HasChild(semi[w]))
        BY <1>1, <1>3 DEF LinkInv, SemiInv
      <4> QED
        BY <1>8, <3>7, <4>1, <4>2
    <3> QED
      BY <3>8, <3>9
  <2> QED
    BY <2>1, <2>2
<1>10. SemiInv'
  <2>1. \A b \in Reached : \E n : /\ n = semi'[b]
                                  /\ n = b \/ (IsAbove(n, b)' /\ HasChild(n)')
                                  /\ dfnum(b)' < i' => n = b
                                  /\ ~Open(b)' => n # b
    <3> SUFFICES ASSUME NEW b \in Reached
                 PROVE  /\ S[b] = semi'[b]
                        /\ S[b] = b \/ (IsAbove(S[b], b)' /\ HasChild(S[b])')
                        /\ dfnum(b)' < i' => S[b] = b
                        /\ ~Open(b)' => S[b] # b
      BY Zenon
    <3>1. CASE b = w
      <4>1. Open(w) /\ ~(dfnum(w) < i)
        BY <1>2, <1>3 DEF Open
      <4> QED
        BY <1>2, <1>6, <1>9, <1>b, <3>1, <4>1
    <3>2. CASE b # w
      <4>1. S[b] = semi[b]
        BY <1>3, <1>9, <3>2
      <4>2. /\ semi[b] = b \/ (IsAbove(semi[b], b) /\ HasChild(semi[b]))
            /\ dfnum(b) < i => semi[b] = b
            /\ ~Open(b) => semi[b] # b
        BY <1>1 DEF LinkInv, SemiInv
      <4> QED
        BY <1>2, <1>6, <1>b, <4>1, <4>2
    <3> QED
      BY <3>1, <3>2
  <2>2. SUFFICES ASSUME NEW b \in Reached'
                 PROVE  /\ semi'[b] = b \/ (IsAbove(semi[b], b)' /\ HasChild(semi[b])')
                        /\ dfnum(b)' < i' => semi'[b] = b
                        /\ ~Open(b)' => semi'[b] # b
    BY DEF SemiInv
  <2>3. PICK n : /\ n = semi'[b]
                 /\ n = b \/ (IsAbove(n, b)' /\ HasChild(n)')
                 /\ dfnum(b)' < i' => n = b
                 /\ ~Open(b)' => n # b
    BY <1>6, <2>1, <2>2
  <2>4. IsAbove(n, b)' => IsAbove(semi[b], b)'
    BY <2>3, Zenon DEF IsAbove, dfnum, LeadsTo
  <2>5. HasChild(n)' => HasChild(semi[b])'
    BY <2>3, Zenon DEF HasChild, dfnum
  <2> QED
    BY <2>3, <2>4, <2>5, Zenon
<1>11. BucketInv'
  <2>1. \A b \in Reached : ~Open(b) => semi'[b] = semi[b]
    BY <1>2, <1>3, <1>9, <1>b DEF Open
  <2>2. \A b \in Blocks : \A x \in Range(bucket'[b]) : x \in Reached' /\ ~Open(x)' /\ semi'[x] = b
    BY <1>1, <1>2, <1>6, <2>1 DEF LinkInv, BucketInv
  <2>3. \A x \in Reached :
          ~Open(x) => \/ IsAbove(idom[x], x)
                      \/ x \in Range(bucket[semi[x]]) /\ dfnum(semi[x]) < i
    BY <1>1 DEF LinkInv, BucketInv
  <2>4. \A x \in Reached :
          ~Open(x) => \/ \E d : d = idom'[x] /\ IsAbove(d, x)'
                      \/ x \in Range(bucket'[semi'[x]]) /\ \E d : d = semi'[x] /\ dfnum(d)' < i'
    BY <1>2, <1>6, <2>1, <2>3
  <2> QED
    BY <1>6, <2>2, <2>4 DEF BucketInv, IsAbove, dfnum, LeadsTo, Closed
<1>12. parent'[vertex'[i']] <= p' => semi'[vertex'[i']] # vertex'[i']
  <2> SUFFICES ASSUME parent[w] <= v PROVE S[w] # w
    BY <1>2, <1>a, <1>b
  <2>1. parent[w] \in Reached /\ parent[w] \in Preds(w)
    BY <1>1, <1>2, <1>3, <1>a DEF LinkInv, TreeInv, Preds
  <2>2. parent[w] \in Nat /\ p \in Nat /\ v \in Nat
    BY <1>1, <1>3, <1>5, <2>1 DEF TypeInv
  <2>3. CASE parent[w] <= p
    BY <1>1, <1>2, <1>9, <1>a, <2>3 DEF LinkInv
  <2>4. CASE parent[w] > p
    BY <1>4, <1>9, <2>1, <2>2, <2>4
  <2> QED
    BY <2>2, <2>3, <2>4
<1>13. LinkInv'
  BY <1>1, <1>2, <1>6, <1>7, <1>10, <1>11, <1>12 DEF LinkInv
<1>14. TypeInv'
  BY <1>1, <1>2, <1>3, <1>5, <1>6, <1>7, <1>9, <1>b DEF TypeInv
<1>15. Rises(idom)' /\ LoopHeadsOnCycles'
  <2>1. \A b \in Blocks : idom'[b] = 0 \/ \E d : d = idom'[b] /\ IsAbove(d, b)'
    BY <1>1, <1>2, <1>6 DEF Rises
  <2> QED
    BY <1>1, <1>2, <1>6, <2>1, SameHeads DEF Rises, IsAbove, dfnum, LeadsTo, Closed
<1> QED
  BY <1>2, <1>13, <1>14, <1>15 DEF ClimbInv

(* A vertex whose predecessors have all been looked at is linked to its    *)
(* parent, which is one of them, and waits in another vertex's bucket.     *)
LEMMA LinkKeeps == ClimbInv /\ Link => ClimbInv'
<1> SUFFICES ASSUME ClimbInv, Link PROVE ClimbInv'
  OBVIOUS
<1>a. PICK w, a, e : w = vertex[i] /\ a = parent[w] /\ e = semi[w]
  OBVIOUS
<1>b. PICK A, B : A = ancestor' /\ B = bucket'
  OBVIOUS
<1>1. /\ TypeInv /\ LinkInv /\ LoopHeadsOnCycles /\ Rises(idom)
      /\ Numbered /\ succ \in Graphs /\ i \in DOMAIN vertex
  BY DEF ClimbInv, Link, TypeInv, LinkInv
<1>2. /\ pc = "semi" /\ pc' = "bucket" /\ i > 1 /\ LeftPreds = {}
      /\ B = [bucket EXCEPT ![e] = Append(@, w)]
      /\ A = [ancestor EXCEPT ![w] = a]
      /\ UNCHANGED <<succ, stack, vertex, parent, semi, label, idom, i, p, kind>>
  BY <1>a, <1>b DEF Link, graph
<1>3. /\ Reached \subseteq Blocks /\ w \in Reached /\ dfnum(w) = i /\ i \in Nat
      /\ \A b \in Reached : dfnum(b) \in Nat /\ (dfnum(b) = i => b = w)
      /\ Blocks \subseteq Nat /\ 0 \notin Blocks
  <2>1. /\ Reached \subseteq Blocks
        /\ \A k \in DOMAIN vertex : vertex[k] \in Reached /\ dfnum(vertex[k]) = k
        /\ \A b \in Reached : dfnum(b) \in 1 .. Len(vertex) /\ vertex[dfnum(b)] = b
    BY <1>1, Numbers
  <2>2. Blocks \subseteq Nat /\ 0 \notin Blocks
    BY <1>1, GraphShape
  <2> QED
    BY <1>1, <1>a, <2>1, <2>2 DEF TypeInv
<1>4. /\ Blocks' = Blocks /\ Reached' = Reached
      /\ \A b : dfnum(b)' = dfnum(b)
      /\ \A x, b : LeadsTo(x, b)' <=> LeadsTo(x, b)
      /\ \A x, b : IsAbove(x, b)' <=> IsAbove(x, b)
      /\ \A b : HasChild(b)' <=> HasChild(b)
      /\ Numbered' /\ TreeInv' /\ EdgesInv'
  BY <1>1, <1>2, SameTree DEF LinkInv
<1>5. \A b \in Reached : (Open(b)' <=> dfnum(b) < i) /\ (Open(b) <=> b = w \/ dfnum(b) < i)
  BY <1>2, <1>3, <1>4 DEF Open
<1>6. a \in Reached /\ dfnum(a) < i /\ w \in Range(succ[a])
  BY <1>1, <1>2, <1>a DEF LinkInv, TreeInv
<1>7. IsAbove(a, w) /\ HasChild(a)
  <2>1. LeadsTo(a, w)
    BY <1>1, <1>3, <1>6, Leading
  <2> QED
    BY <1>1, <1>3, <1>6, <2>1 DEF IsAbove, LinkInv, EdgesInv
<1>8. e \in Reached /\ e # w /\ dfnum(e) < i
  <2>1. a \in Preds(w)
    BY <1>3, <1>6 DEF Preds
  <2>2. ~(a > p)
    BY <1>2, <1>a, <2>1 DEF LeftPreds
  <2>3. a <= p
    BY <1>1, <1>3, <1>6, <2>2 DEF TypeInv
  <2>4. e # w
    BY <1>1, <1>2, <1>a, <2>3 DEF LinkInv
  <2>5. IsAbove(e, w)
    BY <1>1, <1>3, <1>a, <2>4 DEF LinkInv, SemiInv
  <2> QED
    BY <1>3, <2>4, <2>5 DEF IsAbove
<1>9. /\ A \in [Blocks -> Blocks \cup {0}]
      /\ A[w] = a /\ \A b \in Blocks : b # w => A[b] = ancestor[b]
  BY <1>1, <1>2, <1>3, <1>6 DEF TypeInv
<1>10. /\ B \in [Blocks -> Seq(Blocks)]
       /\ Range(B[e]) = Range(bucket[e]) \cup {w}
       /\ \A b \in Blocks : b # e => B[b] = bucket[b]
  <2>1. bucket \in [Blocks -> Seq(Blocks)] /\ e \in Blocks /\ w \in Blocks
    BY <1>1, <1>3, <1>8 DEF TypeInv
  <2>2. PICK q : q = bucket[e] /\ q \in Seq(Blocks)
    BY <2>1
  <2>3. Append(q, w) \in Seq(Blocks)
    BY <2>1, <2>2
  <2>4. Range(Append(q, w)) = Range(q) \cup {w}
    <3>1. /\ DOMAIN q = 1 .. Len(q) /\ Len(q) \in Nat
          /\ DOMAIN Append(q, w) = 1 .. Len(q) + 1
          /\ \A k \in 1 .. Len(q) : Append(q, w)[k] = q[k]
          /\ Append(q, w)[Len(q) + 1] = w
      BY <2>1, <2>2
    <3>2. \A k \in 1 .. Len(q) + 1 : k \in 1 .. Len(q) \/ k = Len(q) + 1
      BY <3>1
    <3> QED
      BY <3>1, <3>2 DEF Range
  <2>5. B[e] = Append(q, w)
    BY <1>2, <2>1, <2>2
  <2> QED
    BY <1>2, <2>1, <2>3, <2>4, <2>2, <2>5
<1>11. SemiInv'
  <2> SUFFICES ASSUME NEW b \in Reached'
               PROVE  /\ semi'[b] = b \/ (IsAbove(semi[b], b)' /\ HasChild(semi[b])')
                      /\ dfnum(b)' < i' => semi'[b] = b
                      /\ ~Open(b)' => semi'[b] # b
    BY DEF SemiInv
  <2>1. PICK n : n = semi'[b] /\ n = semi[b]
    BY <1>2
  <2>2. b \in Reached /\ (n = b \/ (IsAbove(n, b) /\ HasChild(n)))
    BY <1>1, <1>4, <2>1 DEF LinkInv, SemiInv
  <2>3. n = b \/ (IsAbove(n, b)' /\ HasChild(n)')
    BY <1>4, <2>2
  <2>4. IsAbove(n, b)' => IsAbove(semi[b], b)'
    BY <2>1, Zenon DEF IsAbove, dfnum, LeadsTo
  <2>5. HasChild(n)' => HasChild(semi[b])'
    BY <2>1, Zenon DEF HasChild, dfnum
  <2>6. dfnum(b) < i => n = b
    BY <1>1, <2>1, <2>2 DEF LinkInv, SemiInv
  <2>7. ~Open(b)' => n # b
    <3>1. CASE b = w
      BY <1>8, <1>a, <2>1, <3>1
    <3>2. CASE b # w
      BY <1>1, <1>5, <2>1, <2>2, <3>2 DEF LinkInv, SemiInv
    <3> QED
      BY <3>1, <3>2
  <2> QED
    BY <1>2, <1>4, <2>1, <2>3, <2>4, <2>5, <2>6, <2>7
<1>12. ancestor[w] = 0 /\ label[w] = w
  BY <1>1, <1>3, <1>5 DEF LinkInv, AncestorInv, LabelInv
<1>13. LabelInv'
  <2> SUFFICES ASSUME NEW b \in Reached'
               PROVE  /\ label'[b] \in Reached'
                      /\ LeadsTo(label[b], b)'
                      /\ ancestor'[b] = 0 => label'[b] = b
                      /\ ancestor'[b] # 0 => ancestor'[label'[b]] # 0
    BY DEF LabelInv
  <2>1. PICK n : n = label'[b] /\ n = label[b]
    BY <1>2
  <2>2. /\ b \in Reached /\ n \in Reached /\ LeadsTo(n, b)
        /\ ancestor[b] = 0 => n = b
        /\ ancestor[b] # 0 => ancestor[n] # 0
    BY <1>1, <1>4, <2>1 DEF LinkInv, LabelInv
  <2>3. LeadsTo(n, b)' => LeadsTo(label[b], b)'
    BY <2>1, Zenon DEF LeadsTo
  <2>4. /\ A[b] = 0 => n = b
        /\ A[b] # 0 => A[n] # 0
    <3>1. CASE b = w
      BY <1>3, <1>6, <1>9, <1>12, <2>1, <3>1
    <3>2. CASE b # w
      BY <1>3, <1>6, <1>9, <1>12, <2>2, <3>2
    <3> QED
      BY <3>1, <3>2
  <2> QED
    BY <1>4, <1>b, <2>1, <2>2, <2>3, <2>4
<1>14. AncestorInv'
  <2>1. ASSUME NEW b \in Blocks, A[b] # 0 PROVE IsAbove(A[b], b) /\ HasChild(A[b])
    <3>1. CASE b = w
      BY <1>7, <1>9, <3>1
    <3>2. CASE b # w
      <4>1. A[b] = ancestor[b]
        BY <1>9, <3>2
      <4> QED
        BY <1>1, <2>1, <4>1 DEF LinkInv, AncestorInv, Rises
    <3> QED
      BY <3>1, <3>2
  <2>2. Rises(ancestor)'
    <3> SUFFICES ASSUME NEW b \in Blocks', ancestor'[b] # 0 PROVE IsAbove(ancestor[b], b)'
      BY DEF Rises
    <3>1. PICK n : n = ancestor'[b] /\ n = A[b]
      BY <1>b
    <3>2. IsAbove(n, b)'
      BY <1>4, <2>1, <3>1
    <3> QED
      BY <3>1, <3>2, Zenon DEF IsAbove, dfnum, LeadsTo
  <2>3. ASSUME NEW b \in Blocks', ancestor'[b] # 0 PROVE HasChild(ancestor[b])'
    <3>1. PICK n : n = ancestor'[b] /\ n = A[b]
      BY <1>b
    <3>2. HasChild(n)'
      BY <1>4, <2>1, <2>3, <3>1
    <3> QED
      BY <3>1, <3>2, Zenon DEF HasChild, dfnum
  <2>4. \A b \in Reached : Open(b)' => ancestor'[b] = 0
    <3> SUFFICES ASSUME NEW b \in Reached, dfnum(b) < i PROVE A[b] = 0
      BY <1>5, <1>b
    <3>1. b # w /\ Open(b)
      BY <1>3, <1>5
    <3> QED
      BY <1>1, <1>3, <1>9, <3>1 DEF LinkInv, AncestorInv
  <2> QED
    BY <1>4, <2>2, <2>3, <2>4 DEF AncestorInv
<1>15. BucketInv'
  <2>1. ASSUME NEW b \in Blocks, NEW x \in Range(B[b])
        PROVE  x \in Reached' /\ ~Open(x)' /\ semi'[x] = b
    <3>1. CASE x \in Range(bucket[b])
      <4>1. x \in Reached /\ ~Open(x) /\ semi[x] = b
        BY <1>1, <3>1 DEF LinkInv, BucketInv
      <4> QED
        BY <1>2, <1>4, <1>5, <4>1
    <3>2. CASE x \notin Range(bucket[b])
      <4>1. b = e /\ x = w
        BY <1>10, <2>1, <3>2
      <4>2. ~Open(w)'
        BY <1>3, <1>5
      <4> QED
        BY <1>2, <1>3, <1>4, <1>a, <4>1, <4>2
    <3> QED
      BY <3>1, <3>2
  <2>2. ASSUME NEW x \in Reached', ~Open(x)'
        PROVE  \/ IsAbove(idom[x], x)'
               \/ x \in Range(bucket'[semi'[x]]) /\ dfnum(semi[x])' < i'
    <3>0. x \in Reached
      BY <1>4
    <3>1. PICK d, n : d = idom'[x] /\ d = idom[x] /\ n = semi'[x] /\ n = semi[x]
      BY <1>2
    <3>2. IsAbove(d, x) \/ (x \in Range(B[n]) /\ dfnum(n) < i)
      <4>1. CASE x = w
        BY <1>8, <1>10, <1>a, <3>1, <4>1
      <4>2. CASE x # w
        <5>1. ~Open(x)
          BY <1>5, <2>2, <3>0, <4>2
        <5>2. IsAbove(d, x) \/ (x \in Range(bucket[n]) /\ dfnum(n) < i)
          BY <1>1, <3>0, <3>1, <5>1 DEF LinkInv, BucketInv
        <5>3. n \in Blocks
          BY <1>1, <1>3, <3>0, <3>1 DEF TypeInv
        <5>4. Range(bucket[n]) \subseteq Range(B[n])
          BY <1>10, <5>3
        <5> QED
          BY <5>2, <5>4
      <4> QED
        BY <4>1, <4>2
    <3>3. IsAbove(d, x)' => IsAbove(idom[x], x)'
      BY <3>1, Zenon DEF IsAbove, dfnum, LeadsTo
    <3>4. dfnum(n)' = dfnum(semi[x])'
      BY <3>1, Zenon DEF dfnum
    <3>5. IsAbove(d, x)' \/ (x \in Range(bucket'[semi'[x]]) /\ dfnum(n)' < i')
      BY <1>2, <1>4, <1>b, <3>1, <3>2
    <3> QED
      BY <3>3, <3>4, <3>5
  <2> QED
    BY <1>4, <1>b, <2>1, <2>2 DEF BucketInv
<1>16. LinkInv'
  BY <1>1, <1>2, <1>4, <1>11, <1>13, <1>14, <1>15 DEF LinkInv
<1>17. TypeInv'
  BY <1>1, <1>2, <1>4, <1>9, <1>10, <1>b DEF TypeInv
<1>18. Rises(idom)' /\ LoopHeadsOnCycles'
  <2>1. \A b \in Blocks : idom'[b] = 0 \/ \E d : d = idom'[b] /\ IsAbove(d, b)'
    BY <1>1, <1>2, <1>4 DEF Rises
  <2> QED
    BY <1>1, <1>2, <1>4, <2>1, SameHeads DEF Rises, IsAbove, dfnum, LeadsTo, Closed
<1> QED
  BY <1>2, <1>16, <1>17, <1>18 DEF ClimbInv

(* The vertex at the head of the bucket gets an entry in idom, its own     *)
(* semi-dominator or a lower one.                                          *)
LEMMA BucketKeeps == ClimbInv /\ EmptyBucket => ClimbInv'
<1> SUFFICES ASSUME ClimbInv, EmptyBucket PROVE ClimbInv'
  OBVIOUS
<1>a. PICK e, v : e = parent[vertex[i]] /\ v = Head(bucket[e])
  OBVIOUS
<1>b. PICK B, D, x : B = bucket' /\ D = idom' /\ x = semi[Eval(v).u]
  OBVIOUS
<1>1. /\ TypeInv /\ LinkInv /\ LoopHeadsOnCycles /\ Rises(idom)
      /\ Numbered /\ succ \in Graphs /\ i \in DOMAIN vertex
  BY DEF ClimbInv, EmptyBucket, TypeInv, LinkInv
<1>2. /\ pc = "bucket" /\ pc' = "bucket" /\ bucket[e] # << >>
      /\ D = [idom EXCEPT ![v] = IF SemiNumber(Eval(v).u) < SemiNumber(v) THEN x ELSE e]
      /\ label' = Eval(v).label /\ ancestor' = Eval(v).ancestor
      /\ B = [bucket EXCEPT ![e] = Tail(@)]
      /\ UNCHANGED <<succ, stack, vertex, parent, semi, i, p, kind>>
  BY <1>a, <1>b DEF EmptyBucket, graph
<1>3. /\ Reached \subseteq Blocks /\ i \in Nat /\ i > 1
      /\ \A b \in Reached : dfnum(b) \in Nat
      /\ e \in Reached
  <2>1. /\ Reached \subseteq Blocks
        /\ \A b \in Reached : dfnum(b) \in 1 .. Len(vertex)
    BY <1>1, Numbers
  <2>2. i \in Nat /\ i > 1
    BY <1>1, <1>2 DEF TypeInv, LinkInv
  <2>3. e \in Reached
    BY <1>1, <1>a, <2>2 DEF LinkInv, TreeInv
  <2> QED
    BY <2>1, <2>2, <2>3
<1>4. /\ Blocks' = Blocks /\ Reached' = Reached
      /\ \A b : dfnum(b)' = dfnum(b)
      /\ \A a, b : IsAbove(a, b)' <=> IsAbove(a, b)
      /\ \A b : HasChild(b)' <=> HasChild(b)
      /\ \A b : Open(b)' <=> Open(b)
      /\ Numbered' /\ TreeInv' /\ EdgesInv'
  BY <1>1, <1>2, SameTree, SameOpen DEF LinkInv
<1>5. PICK q : q = bucket[e] /\ q \in Seq(Blocks) /\ q # << >>
  BY <1>1, <1>2, <1>3 DEF TypeInv
<1>6. /\ v \in Range(q) /\ Tail(q) \in Seq(Blocks) /\ Range(Tail(q)) \subseteq Range(q)
      /\ \A y \in Range(q) : y = v \/ y \in Range(Tail(q))
  <2>1. /\ DOMAIN q = 1 .. Len(q) /\ Len(q) \in Nat /\ 1 <= Len(q)
        /\ Tail(q) \in Seq(Blocks)
        /\ DOMAIN Tail(q) = 1 .. Len(q) - 1
        /\ \A k \in 1 .. Len(q) - 1 : Tail(q)[k] = q[k + 1]
    BY <1>5, EmptySeq
  <2>2. v = q[1]
    BY <1>5, <1>a
  <2>3. \A k \in 1 .. Len(q) - 1 : k + 1 \in 1 .. Len(q)
    BY <2>1
  <2>4. \A k \in 1 .. Len(q) : k = 1 \/ (k - 1 \in 1 .. Len(q) - 1 /\ (k - 1) + 1 = k)
    BY <2>1
  <2>5. \A y \in Range(q) : y = v \/ y \in Range(Tail(q))
    <3> SUFFICES ASSUME NEW k \in 1 .. Len(q), k # 1 PROVE q[k] \in Range(Tail(q))
      BY <2>1, <2>2 DEF Range
    <3>1. k - 1 \in DOMAIN Tail(q) /\ Tail(q)[k - 1] = q[k]
      BY <2>1, <2>4
    <3> QED
      BY <3>1 DEF Range
  <2>6. Range(Tail(q)) \subseteq Range(q)
    BY <2>1, <2>3 DEF Range
  <2>7. v \in Range(q)
    BY <2>1, <2>2 DEF Range
  <2> QED
    BY <2>1, <2>5, <2>6, <2>7
<1>7. v \in Reached /\ ~Open(v) /\ semi[v] = e
  BY <1>1, <1>3, <1>5, <1>6 DEF LinkInv, BucketInv
<1>8. IsAbove(e, v)
  BY <1>1, <1>7 DEF LinkInv, SemiInv
<1>9. /\ D \in [Blocks -> Blocks \cup {0}]
      /\ IsAbove(D[v], v)
      /\ \A b \in Blocks : b # v => D[b] = idom[b]
  <2>1. x \in Reached /\ LeadsTo(x, v)
    BY <1>1, <1>7, <1>b, EvalSemi
  <2>2. SemiNumber(Eval(v).u) = dfnum(x) /\ SemiNumber(v) = dfnum(e)
    BY <1>7, <1>b DEF SemiNumber
  <2>3. dfnum(x) < dfnum(e) => IsAbove(x, v)
    <3>1. dfnum(e) < dfnum(v) /\ dfnum(x) \in Nat /\ dfnum(v) \in Nat /\ dfnum(e) \in Nat
      BY <1>3, <1>7, <1>8, <2>1 DEF IsAbove
    <3>2. dfnum(x) < dfnum(e) => dfnum(x) < dfnum(v)
      <4>1. \A j, k, m \in Nat : j < k /\ k < m => j < m
        OBVIOUS
      <4> QED
        BY <3>1, <4>1
    <3> QED
      BY <1>7, <2>1, <3>2 DEF IsAbove
  <2>4. PICK d : /\ d = IF dfnum(x) < dfnum(e) THEN x ELSE e
                 /\ D = [idom EXCEPT ![v] = d]
    BY <1>2, <2>2
  <2>5. IsAbove(d, v) /\ d \in Blocks /\ v \in Blocks
    BY <1>3, <1>7, <1>8, <2>1, <2>3, <2>4
  <2> QED
    BY <1>1, <2>4, <2>5 DEF TypeInv
<1>10. /\ B \in [Blocks -> Seq(Blocks)]
       /\ \A b \in Blocks : Range(B[b]) \subseteq Range(bucket[b])
       /\ \A b \in Blocks : \A y \in Range(bucket[b]) : y # v => y \in Range(B[b])
  <2>1. bucket \in [Blocks -> Seq(Blocks)] /\ e \in Blocks
    BY <1>1, <1>3 DEF TypeInv
  <2>2. B[e] = Tail(q) /\ B \in [Blocks -> Seq(Blocks)] /\ \A b \in Blocks : b # e => B[b] = bucket[b]
    BY <1>2, <1>5, <1>6, <2>1
  <2> QED
    BY <1>5, <1>6, <2>2
<1>11. /\ label' \in [Blocks -> Blocks]
       /\ ancestor' \in [Blocks -> Blocks \cup {0}]
       /\ LabelInv' /\ AncestorInv'
  BY <1>1, <1>2, <1>7, CompressionKeeps
<1>12. SemiInv'
  <2> SUFFICES ASSUME NEW b \in Reached'
               PROVE  /\ semi'[b] = b \/ (IsAbove(semi[b], b)' /\ HasChild(semi[b])')
                      /\ dfnum(b)' < i' => semi'[b] = b
                      /\ ~Open(b)' => semi'[b] # b
    BY DEF SemiInv
  <2>1. PICK n : n = semi'[b] /\ n = semi[b]
    BY <1>2
  <2>2. /\ n = b \/ (IsAbove(n, b) /\ HasChild(n))
        /\ dfnum(b) < i => n = b
        /\ ~Open(b) => n # b
    BY <1>1, <1>4, <2>1 DEF LinkInv, SemiInv
  <2>3. IsAbove(n, b)' => IsAbove(semi[b], b)'
    BY <2>1, Zenon DEF IsAbove, dfnum, LeadsTo
  <2>4. HasChild(n)' => HasChild(semi[b])'
    BY <2>1, Zenon DEF HasChild, dfnum
  <2> QED
    BY <1>2, <1>4, <2>1, <2>2, <2>3, <2>4
<1>13. BucketInv'
  <2>1. \A b \in Blocks : \A y \in Range(bucket'[b]) : y \in Reached' /\ ~Open(y)' /\ semi'[y] = b
    BY <1>1, <1>2, <1>4, <1>10, <1>b DEF LinkInv, BucketInv
  <2>2. ASSUME NEW y \in Reached', ~Open(y)'
        PROVE  \/ IsAbove(idom[y], y)'
               \/ y \in Range(bucket'[semi'[y]]) /\ dfnum(semi[y])' < i'
    <3>0. y \in Reached /\ ~Open(y)
      BY <1>4, <2>2
    <3>1. PICK d, n : d = idom'[y] /\ d = D[y] /\ n = semi'[y] /\ n = semi[y]
      BY <1>2, <1>b
    <3>2. IsAbove(d, y) \/ (y \in Range(B[n]) /\ dfnum(n) < i)
      <4>1. CASE y = v
        BY <1>9, <3>1, <4>1
      <4>2. CASE y # v
        <5>1. n \in Blocks /\ d = idom[y]
          BY <1>1, <1>3, <1>9, <3>0, <3>1, <4>2 DEF TypeInv
        <5>2. IsAbove(d, y) \/ (y \in Range(bucket[n]) /\ dfnum(n) < i)
          BY <1>1, <3>0, <3>1, <5>1 DEF LinkInv, BucketInv
        <5> QED
          BY <1>10, <4>2, <5>1, <5>2
      <4> QED
        BY <4>1, <4>2
    <3>3. IsAbove(d, y)' => IsAbove(idom[y], y)'
      BY <3>1, Zenon DEF IsAbove, dfnum, LeadsTo
    <3>4. dfnum(n)' = dfnum(semi[y])'
      BY <3>1, Zenon DEF dfnum
    <3>5. IsAbove(d, y)' \/ (y \in Range(bucket'[semi'[y]]) /\ dfnum(n)' < i')
      BY <1>2, <1>4, <1>b, <3>1, <3>2
    <3> QED
      BY <3>3, <3>4, <3>5
  <2> QED
    BY <1>4, <2>1, <2>2 DEF BucketInv
<1>14. LinkInv'
  BY <1>1, <1>2, <1>3, <1>4, <1>11, <1>12, <1>13 DEF LinkInv
<1>15. TypeInv'
  BY <1>1, <1>2, <1>4, <1>9, <1>10, <1>11, <1>b DEF TypeInv
<1>16. Rises(idom)'
  <2> SUFFICES ASSUME NEW b \in Blocks', idom'[b] # 0 PROVE IsAbove(idom[b], b)'
    BY DEF Rises
  <2>1. PICK d : d = idom'[b] /\ d = D[b]
    BY <1>b
  <2>2. IsAbove(d, b)
    <3>1. CASE b = v
      BY <1>9, <2>1, <3>1
    <3>2. CASE b # v
      BY <1>1, <1>4, <1>9, <2>1, <3>2 DEF Rises
    <3> QED
      BY <3>1, <3>2
  <2>3. IsAbove(d, b)'
    BY <1>4, <2>2
  <2> QED
    BY <2>1, <2>3, Zenon DEF IsAbove, dfnum, LeadsTo
<1> QED
  BY <1>1, <1>2, <1>14, <1>15, <1>16, SameHeads DEF ClimbInv

(* The bucket is empty: no vertex waits for the parent's number any more.  *)
LEMMA NextVertexKeeps == ClimbInv /\ NextVertex => ClimbInv'
<1> SUFFICES ASSUME ClimbInv, NextVertex PROVE ClimbInv'
  OBVIOUS
<1>a. PICK w : w = vertex[i]
  OBVIOUS
<1>1. /\ TypeInv /\ LinkInv /\ LoopHeadsOnCycles /\ Rises(idom)
      /\ Numbered /\ succ \in Graphs /\ i \in DOMAIN vertex
  BY DEF ClimbInv, NextVertex, TypeInv, LinkInv
<1>2. /\ pc = "bucket" /\ bucket[parent[w]] = << >>
      /\ i' = i - 1 /\ p' = 0 /\ pc' = "semi"
      /\ UNCHANGED <<succ, stack, vertex, parent, semi, label, ancestor, bucket, idom, kind>>
  BY <1>a DEF NextVertex, graph
<1>3. /\ Reached \subseteq Blocks /\ i \in Nat /\ i > 1
      /\ DOMAIN vertex = 1 .. Len(vertex) /\ Len(vertex) \in Nat
      /\ \A b \in Reached : dfnum(b) \in Nat
      /\ Blocks \subseteq Nat \ {0}
  <2>1. /\ Reached \subseteq Blocks /\ DOMAIN vertex = 1 .. Len(vertex) /\ Len(vertex) \in Nat
        /\ \A b \in Reached : dfnum(b) \in 1 .. Len(vertex)
    BY <1>1, Numbers
  <2>2. Blocks \subseteq Nat \ {0}
    BY <1>1, GraphShape
  <2>3. i \in Nat /\ i > 1
    BY <1>1, <1>2 DEF TypeInv, LinkInv
  <2> QED
    BY <2>1, <2>2, <2>3
<1>4. /\ Blocks' = Blocks /\ Reached' = Reached
      /\ \A b : dfnum(b)' = dfnum(b)
      /\ \A x, b : LeadsTo(x, b)' <=> LeadsTo(x, b)
      /\ \A x, b : IsAbove(x, b)' <=> IsAbove(x, b)
      /\ \A b : HasChild(b)' <=> HasChild(b)
      /\ Numbered' /\ TreeInv' /\ EdgesInv'
  BY <1>1, <1>2, SameTree DEF LinkInv
<1>5. \A b \in Reached : Open(b)' <=> Open(b)
  <2> SUFFICES ASSUME NEW b \in Reached PROVE Open(b)' <=> Open(b)
    OBVIOUS
  <2>1. PICK m : m = dfnum(b) /\ m = dfnum(b)' /\ m \in Nat
    BY <1>3, <1>4
  <2>2. m < i' \/ m = i' <=> m < i
    BY <1>2, <1>3, <2>1
  <2> QED
    BY <1>2, <2>1, <2>2 DEF Open
<1>6. SemiInv'
  <2> SUFFICES ASSUME NEW b \in Reached'
               PROVE  /\ semi'[b] = b \/ (IsAbove(semi[b], b)' /\ HasChild(semi[b])')
                      /\ dfnum(b)' < i' => semi'[b] = b
                      /\ ~Open(b)' => semi'[b] # b
    BY DEF SemiInv
  <2>1. PICK n : n = semi'[b] /\ n = semi[b]
    BY <1>2
  <2>2. /\ b \in Reached
        /\ n = b \/ (IsAbove(n, b) /\ HasChild(n))
        /\ dfnum(b) < i => n = b
        /\ ~Open(b) => n # b
    BY <1>1, <1>4, <2>1 DEF LinkInv, SemiInv
  <2>3. IsAbove(n, b)' => IsAbove(semi[b], b)'
    BY <2>1, Zenon DEF IsAbove, dfnum, LeadsTo
  <2>4. HasChild(n)' => HasChild(semi[b])'
    BY <2>1, Zenon DEF HasChild, dfnum
  <2>5. dfnum(b)' < i' => dfnum(b) < i
    <3>1. PICK m : m = dfnum(b) /\ m = dfnum(b)' /\ m \in Nat
      BY <1>3, <1>4, <2>2
    <3> QED
      BY <1>2, <1>3, <3>1
  <2> QED
    BY <1>4, <1>5, <2>1, <2>2, <2>3, <2>4, <2>5
<1>7. LabelInv'
  BY <1>1, <1>2, <1>4 DEF LinkInv, LabelInv, LeadsTo, Closed
<1>8. AncestorInv'
  <2>1. Rises(ancestor)'
    <3> SUFFICES ASSUME NEW b \in Blocks', ancestor'[b] # 0 PROVE IsAbove(ancestor[b], b)'
      BY DEF Rises
    <3>1. PICK n : n = ancestor'[b] /\ n = ancestor[b]
      BY <1>2
    <3>2. IsAbove(n, b)'
      BY <1>1, <1>4, <3>1 DEF LinkInv, AncestorInv, Rises
    <3> QED
      BY <3>1, <3>2, Zenon DEF IsAbove, dfnum, LeadsTo
  <2>2. ASSUME NEW b \in Blocks', ancestor'[b] # 0 PROVE HasChild(ancestor[b])'
    <3>1. PICK n : n = ancestor'[b] /\ n = ancestor[b]
      BY <1>2
    <3>2. HasChild(n)'
      BY <1>1, <1>4, <2>2, <3>1 DEF LinkInv, AncestorInv
    <3> QED
      BY <3>1, <3>2, Zenon DEF HasChild, dfnum
  <2>3. \A b \in Reached : Open(b)' => ancestor'[b] = 0
    BY <1>1, <1>2, <1>5 DEF LinkInv, AncestorInv
  <2> QED
    BY <1>4, <2>1, <2>2, <2>3 DEF AncestorInv
<1>9. BucketInv'
  <2>1. \A b \in Blocks : \A y \in Range(bucket'[b]) : y \in Reached' /\ ~Open(y)' /\ semi'[y] = b
    BY <1>1, <1>2, <1>4, <1>5 DEF LinkInv, BucketInv
  <2>2. ASSUME NEW y \in Reached', ~Open(y)'
        PROVE  \/ IsAbove(idom[y], y)'
               \/ y \in Range(bucket'[semi'[y]]) /\ dfnum(semi[y])' < i'
    <3>0. y \in Reached /\ ~Open(y)
      BY <1>4, <1>5, <2>2
    <3>1. PICK d, n : d = idom'[y] /\ d = idom[y] /\ n = semi'[y] /\ n = semi[y]
      BY <1>2
    <3>2. IsAbove(d, y) \/ (y \in Range(bucket[n]) /\ dfnum(n) < i)
      BY <1>1, <3>0, <3>1 DEF LinkInv, BucketInv
    <3>3. ASSUME y \in Range(bucket[n]) PROVE dfnum(n) # i - 1
      <4> SUFFICES ASSUME dfnum(n) = i - 1 PROVE FALSE
        OBVIOUS
      <4>1. HasChild(n)
        BY <1>1, <3>0, <3>1 DEF LinkInv, SemiInv
      <4>2. parent[w] = n
        BY <1>3, <1>a, <4>1 DEF HasChild
      <4> QED
        BY <1>2, <3>3, <4>2, EmptySeq DEF Range
    <3>4. n \in Reached
      BY <1>1, <3>0, <3>1 DEF LinkInv, SemiInv, IsAbove
    <3>5. ASSUME y \in Range(bucket[n]), dfnum(n) < i PROVE dfnum(n)' < i'
      <4>1. PICK m : m = dfnum(n) /\ m = dfnum(n)' /\ m \in Nat
        BY <1>3, <1>4, <3>4
      <4>2. m < i /\ m # i - 1
        BY <3>3, <3>5, <4>1
      <4> QED
        BY <1>2, <1>3, <4>1, <4>2
    <3>6. IsAbove(d, y)' => IsAbove(idom[y], y)'
      BY <3>1, Zenon DEF IsAbove, dfnum, LeadsTo
    <3>7. dfnum(n)' = dfnum(semi[y])'
      BY <3>1, Zenon DEF dfnum
    <3>8. IsAbove(d, y)' \/ (y \in Range(bucket'[semi'[y]]) /\ dfnum(n)' < i')
      BY <1>2, <1>4, <3>1, <3>2, <3>5
    <3> QED
      BY <3>6, <3>7, <3>8
  <2> QED
    BY <1>4, <2>1, <2>2 DEF BucketInv
<1>10. i' \in DOMAIN vertex' /\ i' \in Nat
  BY <1>1, <1>2, <1>3
<1>11. ~(i' > 1 /\ parent'[vertex'[i']] <= p')
  <2> SUFFICES ASSUME i' > 1 PROVE ~(parent[vertex[i']] <= 0)
    BY <1>2
  <2>1. parent[vertex[i']] \in Reached
    BY <1>1, <1>2, <1>10 DEF LinkInv, TreeInv
  <2>2. parent[vertex[i']] \in Nat \ {0}
    <3> HIDE DEF Blocks
    <3> QED
      BY <1>3, <2>1
  <2>3. \A n \in Nat \ {0} : ~(n <= 0)
    OBVIOUS
  <2> QED
    BY <2>2, <2>3
<1>12. LinkInv'
  BY <1>2, <1>4, <1>6, <1>7, <1>8, <1>9, <1>10, <1>11 DEF LinkInv
<1>13. TypeInv'
  BY <1>1, <1>2, <1>4, <1>10 DEF TypeInv
<1>14. Rises(idom)'
  BY <1>1, <1>2, <1>4 DEF Rises, IsAbove, dfnum, LeadsTo, Closed
<1> QED
  BY <1>1, <1>2, <1>12, <1>13, <1>14, SameHeads DEF ClimbInv

(* The entry is reached again: nothing waits in a bucket.                  *)
LEMMA StartFinalKeeps == ClimbInv /\ StartFinal => ClimbInv'
<1> SUFFICES ASSUME ClimbInv, StartFinal PROVE ClimbInv'
  OBVIOUS
<1>1. /\ TypeInv /\ LinkInv /\ LoopHeadsOnCycles /\ Rises(idom)
      /\ Numbered /\ succ \in Graphs
  BY DEF ClimbInv, StartFinal, TypeInv, LinkInv
<1>2. /\ pc = "semi" /\ i = 1 /\ pc' = "final" /\ i' = 2
      /\ UNCHANGED <<succ, stack, vertex, parent, semi, label, ancestor, bucket, idom, p, kind>>
  BY DEF StartFinal, graph
<1>3. /\ Blocks' = Blocks /\ Reached' = Reached
      /\ \A a, b : IsAbove(a, b)' <=> IsAbove(a, b)
      /\ Numbered'
  BY <1>1, <1>2, SameTree
<1>4. ASSUME NEW k \in DOMAIN vertex, k >= 2 PROVE IsAbove(idom[vertex[k]], vertex[k])
  <2>1. PICK v : v = vertex[k]
    OBVIOUS
  <2>2. v \in Reached /\ dfnum(v) = k /\ k \in Nat
    BY <1>1, <2>1, Numbers
  <2>3. ~Open(v) /\ semi[v] # v
    BY <1>1, <1>2, <1>4, <2>2 DEF Open, LinkInv, SemiInv
  <2>4. semi[v] \in Reached
    BY <1>1, <2>2, <2>3 DEF LinkInv, SemiInv, IsAbove
  <2>5. dfnum(semi[v]) \in Nat /\ ~(dfnum(semi[v]) < 1)
    BY <1>1, <2>4, Numbers
  <2> QED
    BY <1>1, <1>2, <2>1, <2>2, <2>3, <2>5 DEF LinkInv, BucketInv
<1>5. FinalInv'
  <2> SUFFICES ASSUME NEW k \in DOMAIN vertex', k >= i' PROVE IsAbove(idom[vertex[k]], vertex[k])'
    BY <1>2 DEF FinalInv
  <2>1. PICK d, v : d = idom'[vertex'[k]] /\ d = idom[vertex[k]] /\ v = vertex'[k] /\ v = vertex[k]
    BY <1>2
  <2>2. IsAbove(d, v)'
    BY <1>2, <1>3, <1>4, <2>1
  <2> QED
    BY <2>1, <2>2, Zenon DEF IsAbove, dfnum, LeadsTo
<1>6. TypeInv'
  BY <1>1, <1>2, <1>3 DEF TypeInv
<1>7. Rises(idom)'
  BY <1>1, <1>2, <1>3 DEF Rises, IsAbove, dfnum, LeadsTo, Closed
<1> QED
  BY <1>1, <1>2, <1>5, <1>6, <1>7, SameHeads DEF ClimbInv

(* An entry may be replaced by the entry of what it names, if there is one.*)
LEMMA FinalPassKeeps == ClimbInv /\ FinalPass => ClimbInv'
<1> SUFFICES ASSUME ClimbInv, FinalPass PROVE ClimbInv'
  OBVIOUS
<1>a. PICK w, D : w = vertex[i] /\ D = idom'
  OBVIOUS
<1>1. /\ TypeInv /\ FinalInv /\ LoopHeadsOnCycles /\ Rises(idom)
      /\ Numbered /\ succ \in Graphs
  BY DEF ClimbInv, FinalPass, TypeInv
<1>2. /\ pc = "final" /\ pc' = "final" /\ i \in DOMAIN vertex /\ i' = i + 1
      /\ D = idom \/ D = [idom EXCEPT ![w] = idom[idom[w]]]
      /\ UNCHANGED <<succ, stack, vertex, parent, semi, label, ancestor, bucket, p, kind>>
  BY <1>a DEF FinalPass, graph
<1>3. /\ Blocks' = Blocks /\ Reached' = Reached
      /\ \A a, b : IsAbove(a, b)' <=> IsAbove(a, b)
      /\ Numbered'
  BY <1>1, <1>2, SameTree
<1>4. /\ Reached \subseteq Blocks /\ i \in Nat /\ i > 1
      /\ DOMAIN vertex = 1 .. Len(vertex) /\ Len(vertex) \in Nat
      /\ \A k \in DOMAIN vertex : vertex[k] \in Reached /\ dfnum(vertex[k]) = k
  BY <1>1, Numbers DEF TypeInv, FinalInv
<1>5. IsAbove(idom[w], w)
  BY <1>1, <1>2, <1>4, <1>a DEF FinalInv
<1>6. /\ D \in [Blocks -> Blocks \cup {0}]
      /\ \A b \in Blocks : b # w => D[b] = idom[b]
      /\ D[w] = 0 \/ IsAbove(D[w], w)
  <2>1. PICK d, x : d = idom[w] /\ x = idom[d]
    OBVIOUS
  <2>2. d \in Blocks /\ w \in Blocks /\ idom \in [Blocks -> Blocks \cup {0}]
    BY <1>1, <1>4, <1>5, <2>1 DEF IsAbove, TypeInv
  <2>3. x = 0 \/ IsAbove(x, w)
    <3>1. x = 0 \/ IsAbove(x, d)
      BY <1>1, <2>1, <2>2 DEF Rises
    <3> QED
      BY <1>1, <1>5, <2>1, <3>1, AboveIsTransitive
  <2>4. D = idom \/ D = [idom EXCEPT ![w] = x]
    BY <1>2, <2>1
  <2>5. x \in Blocks \cup {0}
    BY <2>1, <2>2
  <2>6. CASE D = idom
    BY <1>5, <2>2, <2>6
  <2>7. CASE D = [idom EXCEPT ![w] = x]
    BY <2>2, <2>3, <2>5, <2>7
  <2> QED
    BY <2>4, <2>6, <2>7
<1>7. FinalInv'
  <2> SUFFICES ASSUME NEW k \in DOMAIN vertex', k >= i' PROVE IsAbove(idom[vertex[k]], vertex[k])'
    BY <1>2, <1>4 DEF FinalInv
  <2>0. k \in 1 .. Len(vertex) /\ k > i
    BY <1>2, <1>4
  <2>1. PICK d, v : d = idom'[vertex'[k]] /\ d = D[v] /\ v = vertex'[k] /\ v = vertex[k]
    BY <1>2, <1>a
  <2>2. IsAbove(d, v)
    <3>1. v # w
      BY <1>2, <1>4, <1>a, <2>0, <2>1
    <3>2. d = idom[v]
      BY <1>4, <1>6, <2>0, <2>1, <3>1
    <3> QED
      BY <1>1, <1>4, <2>0, <2>1, <3>2 DEF FinalInv
  <2>3. IsAbove(d, v)'
    BY <1>3, <2>2
  <2> QED
    BY <2>1, <2>3, Zenon DEF IsAbove, dfnum, LeadsTo
<1>8. TypeInv'
  BY <1>1, <1>2, <1>3, <1>4, <1>6, <1>a DEF TypeInv
<1>9. Rises(idom)'
  <2> SUFFICES ASSUME NEW b \in Blocks', idom'[b] # 0 PROVE IsAbove(idom[b], b)'
    BY DEF Rises
  <2>1. PICK d : d = idom'[b] /\ d = D[b]
    BY <1>a
  <2>2. IsAbove(d, b)
    <3>1. CASE b = w
      BY <1>6, <2>1, <3>1
    <3>2. CASE b # w
      BY <1>1, <1>3, <1>6, <2>1, <3>2 DEF Rises
    <3> QED
      BY <3>1, <3>2
  <2>3. IsAbove(d, b)'
    BY <1>3, <2>2
  <2> QED
    BY <2>1, <2>3, Zenon DEF IsAbove, dfnum, LeadsTo
<1> QED
  BY <1>1, <1>2, <1>7, <1>8, <1>9, SameHeads DEF ClimbInv

-----------------------------------------------------------------------------
(* The steps after computeDominators leave the entries, or one less.       *)
LEMMA SameEntries ==
    ASSUME ClimbInv, pc \notin {"dfs", "semi", "bucket"}, pc' \in {"loops", "classify", "done"},
           succ' = succ, vertex' = vertex, parent' = parent, stack' = stack,
           semi' = semi, label' = label, ancestor' = ancestor, bucket' = bucket,
           idom' = idom \/ idom' = [idom EXCEPT ![1] = 0],
           kind' \in [Blocks -> Kinds], i' \in Nat, p' \in Nat, LoopHeadsOnCycles'
    PROVE  ClimbInv'
<1>1. PICK D : D = idom'
  OBVIOUS
<1>2. TypeInv /\ Rises(idom) /\ Numbered /\ succ \in Graphs
  BY DEF ClimbInv, TypeInv
<1>3. /\ Blocks' = Blocks /\ Reached' = Reached /\ Numbered'
      /\ \A a, b : IsAbove(a, b)' <=> IsAbove(a, b)
  BY <1>2, SameTree
<1>4. /\ D \in [Blocks -> Blocks \cup {0}]
      /\ \A b \in Blocks : D[b] = idom[b] \/ D[b] = 0
  BY <1>1, <1>2 DEF TypeInv
<1>5. TypeInv'
  BY <1>1, <1>2, <1>3, <1>4 DEF TypeInv
<1>6. Rises(idom)'
  <2> SUFFICES ASSUME NEW b \in Blocks', idom'[b] # 0 PROVE IsAbove(idom[b], b)'
    BY DEF Rises
  <2>1. PICK d : d = idom'[b] /\ d = D[b]
    BY <1>1
  <2>2. IsAbove(d, b)'
    BY <1>2, <1>3, <1>4, <2>1 DEF Rises
  <2> QED
    BY <2>1, <2>2, Zenon DEF IsAbove, dfnum, LeadsTo
<1> QED
  BY <1>5, <1>6 DEF ClimbInv

(* A path to another block goes through a successor.                       *)
LEMMA FirstStep ==
    ASSUME succ \in Graphs, NEW x \in Blocks, NEW y \in Blocks, x # y, LeadsTo(x, y)
    PROVE  \E s \in Range(succ[x]) : LeadsTo(s, y)
<1> SUFFICES ASSUME \A s \in Range(succ[x]) : ~LeadsTo(s, y) PROVE FALSE
  OBVIOUS
<1> DEFINE U == {z \in Blocks : ~LeadsTo(z, y)} \cup {x}
<1>1. U \in SUBSET Blocks /\ x \in U
  OBVIOUS
<1>2. y \notin U
  BY Leading
<1>3. Closed(U)
  <2> SUFFICES ASSUME NEW z \in U, NEW s \in Range(succ[z]) PROVE s \in U
    BY DEF Closed
  <2>1. z \in Blocks /\ s \in Blocks
    BY <1>1, GraphShape
  <2>2. CASE z = x
    BY <2>1, <2>2
  <2>3. CASE z # x
    BY <2>1, <2>3, Leading
  <2> QED
    BY <2>2, <2>3
<1> HIDE DEF U
<1> QED
  BY <1>1, <1>2, <1>3 DEF LeadsTo

(* Only a block on a cycle may become a loop head.                         *)
LEMMA HeadsStay ==
    ASSUME succ' = succ,
           \A b \in Blocks :
             kind'[b] = "loop-head" => \E s \in Range(succ[b]) : LeadsTo(s, b)
    PROVE  LoopHeadsOnCycles'
<1>1. Blocks' = Blocks /\ \A a, b : LeadsTo(a, b)' <=> LeadsTo(a, b)
  BY DEF Blocks, LeadsTo, Closed
<1> QED
  BY <1>1 DEF LoopHeadsOnCycles

(* The target of an edge from a block it was met above lies on a cycle     *)
(* with that block.                                                        *)
LEMMA IdentifyKeeps == ClimbInv /\ IdentifyLoop => ClimbInv'
<1> SUFFICES ASSUME ClimbInv, IdentifyLoop PROVE ClimbInv'
  OBVIOUS
<1>a. PICK h, K : h = succ[i][p + 1] /\ K = kind'
  OBVIOUS
<1>1. /\ TypeInv /\ LoopHeadsOnCycles /\ Rises(idom) /\ Numbered /\ succ \in Graphs
  BY DEF ClimbInv, TypeInv
<1>2. /\ pc = "loops" /\ pc' = "loops" /\ i \in Blocks /\ p < Len(succ[i]) /\ p' = p + 1
      /\ \/ K = kind
         \/ dominates(h, i) /\ K = [kind EXCEPT ![i] = "loop-body", ![h] = "loop-head"]
      /\ UNCHANGED <<succ, stack, vertex, parent, semi, label, ancestor, bucket, idom, i>>
  BY <1>a DEF IdentifyLoop, graph
<1>3. h \in Range(succ[i]) /\ h \in Blocks /\ p \in Nat
  <2>1. succ[i] \in Seq(Blocks) /\ p \in Nat
    BY <1>1, <1>2, GraphShape DEF Blocks, TypeInv
  <2>2. p + 1 \in DOMAIN succ[i]
    BY <1>2, <2>1
  <2> QED
    BY <1>1, <1>2, <1>a, <2>1, <2>2, GraphShape
<1>4. dominates(h, i) => \E s \in Range(succ[h]) : LeadsTo(s, h)
  <2> SUFFICES ASSUME h \in Upward(idom, i) PROVE \E s \in Range(succ[h]) : LeadsTo(s, h)
    BY DEF dominates
  <2>1. h = i \/ IsAbove(h, i)
    BY <1>1, <1>2, UpwardRises DEF TypeInv
  <2>2. CASE h = i
    BY <1>1, <1>3, <2>2, Leading
  <2>3. CASE h # i
    <3>1. LeadsTo(h, i)
      BY <2>1, <2>3 DEF IsAbove
    <3>2. PICK s \in Range(succ[h]) : LeadsTo(s, i)
      BY <1>1, <1>2, <1>3, <2>3, <3>1, FirstStep
    <3>3. s \in Blocks /\ LeadsTo(i, h)
      BY <1>1, <1>2, <1>3, GraphShape, Leading
    <3>4. LeadsTo(s, h)
      BY <1>1, <1>2, <1>3, <3>2, <3>3, Leading
    <3> QED
      BY <3>4
  <2> QED
    BY <2>2, <2>3
<1>5. /\ K \in [Blocks -> Kinds]
      /\ \A b \in Blocks : K[b] = "loop-head" => kind[b] = "loop-head" \/ (b = h /\ dominates(h, i))
  <2>1. kind \in [Blocks -> Kinds] /\ "loop-body" \in Kinds /\ "loop-head" \in Kinds
    BY <1>1 DEF TypeInv, Kinds
  <2>2. CASE K = kind
    BY <2>1, <2>2
  <2>3. CASE dominates(h, i) /\ K = [kind EXCEPT ![i] = "loop-body", ![h] = "loop-head"]
    BY <1>2, <1>3, <2>1, <2>3
  <2> QED
    BY <1>2, <2>2, <2>3
<1>6. \A b \in Blocks : K[b] = "loop-head" => \E s \in Range(succ[b]) : LeadsTo(s, b)
  BY <1>1, <1>4, <1>5 DEF LoopHeadsOnCycles
<1>7. LoopHeadsOnCycles'
  BY <1>2, <1>6, <1>a, HeadsStay
<1> QED
  BY <1>1, <1>2, <1>3, <1>5, <1>7, <1>a, SameEntries DEF TypeInv

(* classifyBlocks makes no loop heads.                                     *)
LEMMA ClassifyKeeps == ClimbInv /\ ClassifyBlock => ClimbInv'
<1> SUFFICES ASSUME ClimbInv, ClassifyBlock PROVE ClimbInv'
  OBVIOUS
<1>a. PICK K : K = kind'
  OBVIOUS
<1>1. TypeInv /\ LoopHeadsOnCycles
  BY DEF ClimbInv
<1>2. /\ pc = "classify" /\ pc' = "classify" /\ i \in Blocks /\ i' = i + 1
      /\ K = [kind EXCEPT ![i] = KindOf(i)]
      /\ UNCHANGED <<succ, stack, vertex, parent, semi, label, ancestor, bucket, idom, p>>
  BY <1>a DEF ClassifyBlock, graph
<1>3. /\ K \in [Blocks -> Kinds]
      /\ \A b \in Blocks : K[b] = "loop-head" => kind[b] = "loop-head"
  <2>1. kind \in [Blocks -> Kinds]
    BY <1>1 DEF TypeInv
  <2>2. KindOf(i) \in Kinds /\ (KindOf(i) = "loop-head" => kind[i] = "loop-head")
    BY <1>2, <2>1 DEF KindOf, Kinds
  <2> QED
    BY <1>2, <2>1, <2>2
<1>4. LoopHeadsOnCycles'
  BY <1>1, <1>2, <1>3, <1>a, HeadsStay DEF LoopHeadsOnCycles
<1>5. i' \in Nat /\ p' \in Nat
  BY <1>1, <1>2 DEF TypeInv
<1> QED
  BY <1>2, <1>3, <1>4, <1>5, <1>a, SameEntries

(* The steps that only move on, and the end of the pass over the entries.  *)
LEMMA MovingOnKeeps ==
    ASSUME ClimbInv, PostDominators \/ NextBlock \/ StartClassify \/ Return
    PROVE  ClimbInv'
<1>1. TypeInv /\ LoopHeadsOnCycles
  BY DEF ClimbInv
<1>2. /\ pc \in {"final", "loops", "classify"} /\ pc' \in {"loops", "classify", "done"}
      /\ idom' = idom \/ idom' = [idom EXCEPT ![1] = 0]
      /\ UNCHANGED <<succ, stack, vertex, parent, semi, label, ancestor, bucket, kind>>
  BY DEF PostDominators, NextBlock, StartClassify, Return, graph
<1>3. i' \in Nat /\ p' \in Nat
  BY <1>1 DEF PostDominators, NextBlock, StartClassify, Return, TypeInv
<1> QED
  BY <1>1, <1>2, <1>3, SameEntries, SameHeads DEF TypeInv

(* A step that changes nothing keeps everything.                           *)
LEMMA StutterKeeps == ClimbInv /\ UNCHANGED vars => ClimbInv'
<1> SUFFICES ASSUME ClimbInv, UNCHANGED vars PROVE ClimbInv'
  OBVIOUS
<1>1. /\ succ' = succ /\ pc' = pc /\ stack' = stack /\ vertex' = vertex /\ parent' = parent
      /\ semi' = semi /\ label' = label /\ ancestor' = ancestor /\ bucket' = bucket
      /\ idom' = idom /\ i' = i /\ p' = p /\ kind' = kind
  BY DEF vars
<1>2. /\ Blocks' = Blocks /\ Reached' = Reached
      /\ \A b : dfnum(b)' = dfnum(b) /\ (HasChild(b)' <=> HasChild(b)) /\ (Open(b)' <=> Open(b))
      /\ Numbered' <=> Numbered
      /\ TreeInv' <=> TreeInv
      /\ EdgesInv' <=> EdgesInv
      /\ LabelInv' <=> LabelInv
      /\ AncestorInv' <=> AncestorInv
  BY <1>1, SameTree, SameOpen, SameForest
<1>3. TypeInv'
  BY <1>1, <1>2 DEF ClimbInv, TypeInv
<1>4. SearchInv => SearchInv'
  BY <1>1, <1>2 DEF SearchInv
<1>5. SemiInv => SemiInv'
  <2>1. \A b : IsAbove(semi[b], b)' <=> IsAbove(semi[b], b)
    BY <1>1, Zenon DEF IsAbove, LeadsTo, Closed, dfnum, Reached, Blocks
  <2>2. \A b : HasChild(semi[b])' <=> HasChild(semi[b])
    BY <1>1, Zenon DEF HasChild, dfnum
  <2> QED
    BY <1>1, <1>2, <2>1, <2>2 DEF SemiInv
<1>6. BucketInv => BucketInv'
  <2>1. \A b : IsAbove(idom[b], b)' <=> IsAbove(idom[b], b)
    BY <1>1, Zenon DEF IsAbove, LeadsTo, Closed, dfnum, Reached, Blocks
  <2>2. \A b : dfnum(semi[b])' = dfnum(semi[b])
    BY <1>1, Zenon DEF dfnum
  <2> QED
    BY <1>1, <1>2, <2>1, <2>2 DEF BucketInv
<1>7. LinkInv => LinkInv'
  BY <1>1, <1>2, <1>5, <1>6 DEF LinkInv
<1>8. FinalInv => FinalInv'
  BY <1>1 DEF FinalInv, IsAbove, LeadsTo, Closed, dfnum, Reached, Blocks
<1>9. Rises(idom)'
  BY <1>1 DEF ClimbInv, Rises, IsAbove, LeadsTo, Closed, dfnum, Reached, Blocks
<1>10. LoopHeadsOnCycles'
  BY <1>1, SameHeads DEF ClimbInv
<1> QED
  BY <1>1, <1>3, <1>4, <1>7, <1>8, <1>9, <1>10 DEF ClimbInv

-----------------------------------------------------------------------------
(* The invariant.                                                          *)
THEOREM Climbing == Spec => []ClimbInv
<1>1. ClimbInv /\ [Next]_vars => ClimbInv'
  BY VisitKeeps, ReturnFromDfsKeeps, StartSemiKeeps, PredecessorKeeps, LinkKeeps, BucketKeeps,
     NextVertexKeeps, StartFinalKeeps, FinalPassKeeps, IdentifyKeeps, ClassifyKeeps,
     MovingOnKeeps, StutterKeeps
     DEF Next, Returned
<1> QED
  BY <1>1, InitClimbs, PTL DEF Spec

(* In every control flow graph, what computeDominators leaves in idom can  *)
(* be climbed: every vertex comes to the last pass with an entry, and an   *)
(* entry names a block reached earlier that leads to its block.            *)
THEOREM DominatorTreeClimbs == Spec => []DomTreeClimbs
<1>1. ClimbInv => DomTreeClimbs
  <2> SUFFICES ASSUME ClimbInv PROVE DomTreeClimbs
    OBVIOUS
  <2>1. succ \in Graphs /\ Numbered /\ Rises(idom) /\ Reached \subseteq Blocks
    BY Numbers DEF ClimbInv, TypeInv
  <2>2. \A b : IsAbove(idom[b], b) => Climbs(b)
    BY DEF IsAbove, Climbs
  <2>3. pc = "final" => \A k \in DOMAIN vertex : k >= i => Climbs(vertex[k])
    BY <2>2 DEF ClimbInv, FinalInv
  <2>4. \A b \in Reached : idom[b] # 0 => Climbs(b)
    BY <2>1, <2>2 DEF Rises
  <2> QED
    BY <2>3, <2>4 DEF DomTreeClimbs
<1> QED
  BY <1>1, Climbing, PTL

(* In every control flow graph, a block identifyLoops makes a loop head    *)
(* lies on a cycle.                                                        *)
THEOREM LoopHeadsLieOnCycles == Spec => []LoopHeadsOnCycles
<1>1. ClimbInv => LoopHeadsOnCycles
  BY DEF ClimbInv
<1> QED
  BY <1>1, Climbing, PTL

-----------------------------------------------------------------------------
(* The search tree as an order: a is at b or over it if every set that goes*)
(* up the tree from b has a.                                               *)
GoesUp(S) == \A b \in S : parent[b] # 0 => parent[b] \in S
Over(a, b) == \A S \in SUBSET Blocks : b \in S /\ GoesUp(S) => a \in S

(* What the search leaves: only the vertices after the first have a parent,*)
(* what is under a vertex is numbered without a gap from it on, and an edge*)
(* leads to a higher number only down the tree.                            *)
RootedInv == \A b \in Blocks : parent[b] # 0 <=> b \in Reached \ {1}
Interval ==
  \A a, b, c \in Reached :
    Over(a, b) /\ dfnum(a) <= dfnum(c) /\ dfnum(c) <= dfnum(b) => Over(a, c)
Forward ==
  \A a, b \in Reached : b \in Range(succ[a]) /\ dfnum(a) < dfnum(b) => Over(a, b)

ShapeInv == RootedInv /\ Interval /\ Forward

(* While the search runs, the stack is the way from the entry to its top,  *)
(* and whatever is numbered after a block on it is under that block.       *)
StackInv ==
  /\ stack # << >> => stack[1] = 1
  /\ \A k \in DOMAIN stack : k > 1 => parent[stack[k]] = stack[k - 1]
  /\ \A j, k \in DOMAIN stack : j <= k => Over(stack[j], stack[k])
  /\ \A k \in DOMAIN stack : \A b \in Reached :
       dfnum(stack[k]) <= dfnum(b) => Over(stack[k], b)

(* The blocks a path from a inside a set reaches, and the blocks with such *)
(* a path to w, whose inner blocks come after w: those among which the     *)
(* semi-dominator of w has the lowest number.                              *)
Inside(S, within) == \A b \in S : \A s \in Range(succ[b]) : s \in within => s \in S
Reaches(within, a, b) ==
  /\ a \in within
  /\ \A S \in SUBSET within : a \in S /\ Inside(S, within) => b \in S
Later(w) == {b \in Reached : dfnum(b) > dfnum(w)}
Precedes(v, w) ==
  /\ v \in Reached
  /\ \E s \in Range(succ[v]) :
       \/ s = w
       \/ \E b \in Later(w) : Reaches(Later(w), s, b) /\ w \in Range(succ[b])

IsSemi(b) ==
  /\ semi[b] \in Reached
  /\ Precedes(semi[b], b)
  /\ \A v \in Reached : Precedes(v, b) => dfnum(semi[b]) <= dfnum(v)

(* A linked block has its semi-dominator. Its link and its label are over  *)
(* it, the label below the link, and of the blocks between, all of them    *)
(* linked, the label has the lowest semi-dominator.                        *)
Compressed(b) ==
  /\ Over(ancestor[b], b)
  /\ Over(label[b], b)
  /\ dfnum(ancestor[b]) < dfnum(label[b])
  /\ \A x \in Reached :
       Over(x, b) /\ dfnum(ancestor[b]) < dfnum(x) =>
         ~Open(x) /\ SemiNumber(label[b]) <= SemiNumber(x)

ForestInv ==
  /\ \A b \in Reached : ~Open(b) => ancestor[b] # 0
  /\ \A b \in Reached : ancestor[b] # 0 => Compressed(b)

(* The vertex whose predecessors are looked at: what is in semi is a block *)
(* the definition allows, and none that those looked at offer is lower.    *)
OfferInv ==
  LET w == vertex[i]
  IN  /\ semi[w] = w \/ Precedes(semi[w], w)
      /\ \A x \in Reached : w \in Range(succ[x]) /\ x <= p =>
           /\ dfnum(x) < i => SemiNumber(w) <= dfnum(x)
           /\ \A y \in Reached : i < dfnum(y) /\ Over(y, x) => SemiNumber(w) <= SemiNumber(y)

SemiDominatorInv ==
  /\ ShapeInv
  /\ pc = "dfs" => StackInv
  /\ pc \in {"semi", "bucket"} =>
       /\ ForestInv
       /\ \A b \in Reached : ~Open(b) => IsSemi(b)
  /\ pc = "semi" /\ i > 1 => OfferInv
  /\ pc = "final" => \A b \in Reached : b # 1 => IsSemi(b)
-----------------------------------------------------------------------------
(* Being over is reflexive and transitive, and a parent is over its child. *)
LEMMA OverOrders ==
    ASSUME NEW a \in Blocks, NEW b \in Blocks, NEW c \in Blocks
    PROVE  /\ Over(a, a)
           /\ Over(a, b) /\ Over(b, c) => Over(a, c)
           /\ parent[b] # 0 => Over(parent[b], b)
  BY DEF Over, GoesUp

(* What is over a block and is not that block is over its parent.          *)
LEMMA OverParent ==
    ASSUME NEW a \in Blocks, NEW b \in Blocks, Over(a, b), a # b
    PROVE  parent[b] # 0 /\ Over(a, parent[b])
<1>1. parent[b] # 0
  <2> SUFFICES ASSUME parent[b] = 0 PROVE FALSE
    OBVIOUS
  <2>1. {b} \in SUBSET Blocks /\ GoesUp({b})
    BY DEF GoesUp
  <2> QED
    BY <2>1 DEF Over
<1>2. ASSUME NEW S \in SUBSET Blocks, parent[b] \in S, GoesUp(S) PROVE a \in S
  <2>1. S \cup {b} \in SUBSET Blocks /\ GoesUp(S \cup {b})
    BY <1>2 DEF GoesUp
  <2> QED
    BY <2>1 DEF Over
<1> QED
  BY <1>1, <1>2 DEF Over

(* The facts about the graph and its numbers that are used throughout.     *)
Searched == succ \in Graphs /\ Numbered /\ TreeInv /\ RootedInv
              /\ parent \in [Blocks -> Blocks \cup {0}]

(* A parent has an edge to its child, and a lower number.                  *)
LEMMA ParentAbove ==
    ASSUME Searched, NEW b \in Blocks, parent[b] # 0
    PROVE  /\ b \in Reached /\ parent[b] \in Reached /\ parent[b] \in Blocks
           /\ dfnum(parent[b]) < dfnum(b)
           /\ b \in Range(succ[parent[b]])
<1>1. b \in Reached /\ b # 1
  BY DEF Searched, RootedInv
<1>2. dfnum(b) \in DOMAIN vertex /\ vertex[dfnum(b)] = b /\ dfnum(b) # 1 /\ dfnum(b) \in Nat
  BY <1>1, Numbers DEF Searched, Numbered
<1>3. dfnum(b) > 1
  BY <1>2, Numbers DEF Searched
<1> QED
  BY <1>1, <1>2, <1>3, Numbers DEF Searched, TreeInv

(* What is over a block has a number that is not higher.                   *)
LEMMA OverNumbers ==
    ASSUME Searched, NEW a, NEW b \in Reached, Over(a, b)
    PROVE  a \in Reached /\ a \in Blocks /\ dfnum(a) <= dfnum(b)
<1> DEFINE S == {x \in Reached : dfnum(x) <= dfnum(b)}
<1>1. Reached \subseteq Blocks /\ \A x \in Reached : dfnum(x) \in Nat
  BY Numbers DEF Searched
<1>2. S \in SUBSET Blocks /\ b \in S
  BY <1>1
<1>3. GoesUp(S)
  <2> SUFFICES ASSUME NEW x \in S, parent[x] # 0 PROVE parent[x] \in S
    BY DEF GoesUp
  <2>1. x \in Blocks /\ dfnum(x) <= dfnum(b)
    BY <1>1
  <2>2. parent[x] \in Reached /\ dfnum(parent[x]) < dfnum(x)
    BY <2>1, ParentAbove
  <2> QED
    BY <1>1, <2>1, <2>2
<1>4. a \in S
  BY <1>2, <1>3 DEF Over
<1> QED
  BY <1>1, <1>4

(* Over another block means over it by one of the children.                *)
LEMMA ChildOver ==
    ASSUME Searched, NEW a \in Reached, NEW b \in Reached, Over(a, b), a # b
    PROVE  \E c \in Reached : parent[c] = a /\ Over(c, b)
<1> SUFFICES ASSUME \A c \in Reached : ~(parent[c] = a /\ Over(c, b)) PROVE FALSE
  OBVIOUS
<1> DEFINE S == {x \in Reached : Over(x, b) /\ x # a}
<1>1. Reached \subseteq Blocks
  BY Numbers DEF Searched
<1>2. S \in SUBSET Blocks /\ b \in S
  BY <1>1, OverOrders
<1>3. GoesUp(S)
  <2> SUFFICES ASSUME NEW x \in S, parent[x] # 0 PROVE parent[x] \in S
    BY DEF GoesUp
  <2>1. x \in Blocks /\ x \in Reached /\ Over(x, b) /\ b \in Blocks
    BY <1>1
  <2>2. parent[x] \in Reached /\ parent[x] \in Blocks
    BY <2>1, ParentAbove
  <2>3. Over(parent[x], b)
    BY <2>1, <2>2, OverOrders
  <2> QED
    BY <2>1, <2>2, <2>3
<1>4. a \in S
  BY <1>2, <1>3 DEF Over
<1> QED
  BY <1>4

-----------------------------------------------------------------------------
(* A path begins and ends inside, and goes on along an edge.               *)
LEMMA Paths ==
    ASSUME NEW within, NEW a, NEW b, NEW c
    PROVE  /\ a \in within => Reaches(within, a, a)
           /\ Reaches(within, a, b) => a \in within /\ b \in within
           /\ Reaches(within, a, b) /\ c \in Range(succ[b]) /\ c \in within
                => Reaches(within, a, c)
<1>1. Reaches(within, a, b) => b \in within
  <2>1. within \in SUBSET within /\ Inside(within, within)
    BY DEF Inside
  <2> QED
    BY <2>1 DEF Reaches
<1> QED
  BY <1>1 DEF Reaches, Inside

(* The vertices from a number on.                                          *)
From(t) == {b \in Reached : t <= dfnum(b)}

(* After a vertex come those from the next number on.                      *)
LEMMA Laters ==
    ASSUME Searched, NEW w \in Reached
    PROVE  /\ Later(w) = From(dfnum(w) + 1)
           /\ From(dfnum(w)) = Later(w) \cup {w}
           /\ w \notin Later(w)
<1>1. \A b \in Reached : dfnum(b) \in Nat
  BY Numbers DEF Searched
<1>2. \A b \in Reached : dfnum(b) = dfnum(w) => b = w
  BY Numbers DEF Searched
<1> QED
  BY <1>1, <1>2 DEF Later, From

(* A path whose blocks all come after the first stays under it.            *)
LEMMA PathsGoUnder ==
    ASSUME Searched, Interval, Forward, NEW a \in Reached, NEW b, Reaches(From(dfnum(a)), a, b)
    PROVE  Over(a, b)
<1> DEFINE L == From(dfnum(a))
           S == {x \in L : Over(a, x)}
<1>1. Reached \subseteq Blocks /\ \A x \in Reached : dfnum(x) \in Nat
  BY Numbers DEF Searched
<1>2. a \in S
  BY <1>1, OverOrders DEF From
<1>3. Inside(S, L)
  <2> SUFFICES ASSUME NEW x \in S, NEW s \in Range(succ[x]), s \in L PROVE s \in S
    BY DEF Inside
  <2>1. /\ x \in Reached /\ s \in Reached /\ x \in Blocks /\ s \in Blocks /\ a \in Blocks
        /\ Over(a, x) /\ dfnum(a) <= dfnum(s) /\ dfnum(x) \in Nat /\ dfnum(s) \in Nat
    BY <1>1 DEF From
  <2>2. CASE dfnum(x) < dfnum(s)
    <3>1. Over(x, s)
      BY <2>1, <2>2 DEF Forward
    <3> QED
      BY <2>1, <3>1, OverOrders
  <2>3. CASE dfnum(s) <= dfnum(x)
    <3>1. Over(a, s)
      BY <2>1, <2>3 DEF Interval
    <3> QED
      BY <3>1
  <2> QED
    BY <2>1, <2>2, <2>3
<1>4. b \in S
  <2> HIDE DEF L
  <2>1. S \in SUBSET L
    OBVIOUS
  <2>2. Reaches(L, a, b)
    BY DEF L
  <2> HIDE DEF S
  <2> QED
    BY <1>2, <1>3, <2>1, <2>2 DEF Reaches
<1> QED
  BY <1>4

(* The first edge of a path may be all of it.                              *)
LEMMA EdgePrecedes ==
    ASSUME NEW v \in Reached, NEW w \in Range(succ[v])
    PROVE  Precedes(v, w)
  BY DEF Precedes

(* What precedes a later block precedes what that block is over leads to.  *)
LEMMA PrecedesThrough ==
    ASSUME Searched, NEW v, NEW u \in Reached, NEW x \in Reached, NEW w \in Reached,
           dfnum(w) < dfnum(u), Precedes(v, u), Over(u, x), w \in Range(succ[x])
    PROVE  Precedes(v, w)
<1>1. Reached \subseteq Blocks /\ \A b \in Reached : dfnum(b) \in Nat
  BY Numbers DEF Searched
<1>2. Later(u) \subseteq Later(w) /\ u \in Later(w)
  BY <1>1 DEF Later
<1>3. PICK s \in Range(succ[v]) :
        \/ s = u
        \/ \E b \in Later(u) : Reaches(Later(u), s, b) /\ u \in Range(succ[b])
  BY DEF Precedes
<1>4. s \in Later(w)
  BY <1>2, <1>3, Paths
<1>5. x \in Later(w)
  <2>1. dfnum(u) <= dfnum(x)
    BY OverNumbers
  <2> QED
    BY <1>1, <2>1 DEF Later
<1>6. ASSUME NEW S \in SUBSET Later(w), s \in S, Inside(S, Later(w)) PROVE x \in S
  <2>1. u \in S
    <3>1. CASE s = u
      BY <1>6, <3>1
    <3>2. CASE \E b \in Later(u) : Reaches(Later(u), s, b) /\ u \in Range(succ[b])
      <4>1. PICK b \in Later(u) : Reaches(Later(u), s, b) /\ u \in Range(succ[b])
        BY <3>2
      <4> DEFINE T == S \cap Later(u)
      <4>2. Inside(T, Later(u))
        BY <1>2, <1>6 DEF Inside
      <4>3. s \in T
        BY <1>6, <4>1, Paths
      <4>4. b \in T
        BY <4>1, <4>2, <4>3 DEF Reaches
      <4> QED
        BY <1>2, <1>6, <4>1, <4>4 DEF Inside
    <3> QED
      BY <1>3, <3>1, <3>2
  <2> SUFFICES ASSUME x \notin S PROVE FALSE
    OBVIOUS
  <2> DEFINE C == Blocks \ S
  <2>2. GoesUp(C)
    <3> SUFFICES ASSUME NEW y \in C, parent[y] # 0, parent[y] \notin C PROVE FALSE
      BY DEF GoesUp
    <3>1. /\ y \in Reached /\ parent[y] \in Reached /\ parent[y] \in Blocks
          /\ dfnum(parent[y]) < dfnum(y)
          /\ y \in Range(succ[parent[y]])
      BY ParentAbove
    <3>2. parent[y] \in S /\ parent[y] \in Later(w)
      BY <3>1
    <3>3. y \in Later(w)
      BY <1>1, <3>1, <3>2 DEF Later
    <3> QED
      BY <1>6, <3>1, <3>2, <3>3 DEF Inside
  <2>3. x \in C
    BY <1>1
  <2>4. u \in C
    BY <2>2, <2>3 DEF Over
  <2> QED
    BY <2>1, <2>4
<1> QED
  BY <1>3, <1>4, <1>5, <1>6 DEF Precedes, Reaches

(* And that is the only way to precede a block other than by an edge: the  *)
(* lowest block inside the path is over the last one.                      *)
LEMMA PrecedesSplit ==
    ASSUME Searched, Interval, Forward, NEW v \in Reached, NEW w \in Reached, Precedes(v, w)
    PROVE  \/ w \in Range(succ[v])
           \/ \E u, x \in Reached : /\ dfnum(w) < dfnum(u)
                                    /\ Precedes(v, u) /\ Over(u, x) /\ w \in Range(succ[x])
<1> SUFFICES ASSUME w \notin Range(succ[v])
             PROVE  \E u, x \in Reached : /\ dfnum(w) < dfnum(u)
                                          /\ Precedes(v, u) /\ Over(u, x) /\ w \in Range(succ[x])
  OBVIOUS
<1>a. PICK n : n = dfnum(w)
  OBVIOUS
<1>b. PICK M : M = Len(vertex)
  OBVIOUS
<1>1. /\ Reached \subseteq Blocks /\ n \in Nat /\ M \in Nat
      /\ \A b \in Reached : dfnum(b) \in 1 .. M /\ vertex[dfnum(b)] = b
      /\ \A k \in 1 .. M : vertex[k] \in Reached /\ dfnum(vertex[k]) = k
  BY <1>a, <1>b, Numbers DEF Searched
<1>2. PICK s \in Range(succ[v]), b \in Later(w) :
        Reaches(From(n + 1), s, b) /\ w \in Range(succ[b])
  BY <1>a, Laters DEF Precedes
<1>3. s \in From(n + 1) /\ b \in From(n + 1) /\ b \in Reached
  BY <1>2, Paths DEF From
<1>4. PICK t \in n + 1 .. M : Reaches(From(t), s, b) /\ ~Reaches(From(t + 1), s, b)
  <2> DEFINE U == {M - t : t \in {r \in n + 1 .. M : Reaches(From(r), s, b)}}
  <2>1. n + 1 \in n + 1 .. M
    BY <1>1, <1>3 DEF From
  <2>2. U \subseteq Nat /\ U # {}
    BY <1>1, <1>2, <2>1
  <2>3. PICK m \in U : \A k \in U : m <= k
    BY <2>2, LeastOf
  <2>4. PICK t \in n + 1 .. M : m = M - t /\ Reaches(From(t), s, b)
    OBVIOUS
  <2>5. ASSUME Reaches(From(t + 1), s, b) PROVE FALSE
    <3>1. s \in From(t + 1)
      BY <2>5, Paths
    <3>2. t + 1 <= dfnum(s) /\ dfnum(s) \in 1 .. M
      BY <1>1, <3>1 DEF From
    <3>3. t + 1 \in n + 1 .. M
      BY <1>1, <3>2
    <3>4. M - (t + 1) \in U
      BY <2>5, <3>3
    <3> HIDE DEF U
    <3>5. M - t <= M - (t + 1)
      BY <2>3, <2>4, <3>4
    <3> QED
      BY <1>1, <3>5
  <2> QED
    BY <2>4, <2>5
<1>5. PICK u : u = vertex[t]
  OBVIOUS
<1>6. /\ u \in Reached /\ dfnum(u) = t /\ n < t /\ t \in Nat /\ dfnum(w) < dfnum(u)
      /\ From(t + 1) = Later(u) /\ From(t) = Later(u) \cup {u} /\ u \notin Later(u)
  <2>1. t \in 1 .. M /\ n < t /\ t \in Nat
    BY <1>1
  <2>2. u \in Reached /\ dfnum(u) = t
    BY <1>1, <1>5, <2>1
  <2> QED
    BY <1>a, <2>1, <2>2, Laters
<1>7. /\ Reaches(Later(u) \cup {u}, s, b) /\ ~Reaches(Later(u), s, b)
      /\ s \in Later(u) \cup {u} /\ u \in Later(u) \cup {u}
  BY <1>4, <1>6, Paths
<1> DEFINE T == {z \in Later(u) : Reaches(Later(u), s, z)}
<1>8. ASSUME NEW z \in T, NEW y \in Range(succ[z]), y \in Later(u) PROVE y \in T
  BY <1>8, Paths
<1>9. b \notin T /\ (s \in Later(u) => s \in T)
  BY <1>7, Paths
<1>10. Precedes(v, u)
  <2> SUFFICES ASSUME ~Precedes(v, u) PROVE FALSE
    OBVIOUS
  <2>1. s # u /\ \A z \in T : u \notin Range(succ[z])
    BY DEF Precedes
  <2>2. T \in SUBSET (Later(u) \cup {u}) /\ s \in T
    BY <1>7, <1>9, <2>1
  <2>3. Inside(T, Later(u) \cup {u})
    <3> HIDE DEF T
    <3> QED
      BY <1>8, <2>1 DEF Inside
  <2> HIDE DEF T
  <2> QED
    BY <1>7, <1>9, <2>2, <2>3 DEF Reaches
<1>11. Over(u, b)
  <2> DEFINE L == Later(u) \cup {u}
             V == {z \in L : Reaches(L, u, z)}
  <2>1. u \in V
    BY Paths
  <2>2. ASSUME NEW z \in V, NEW y \in Range(succ[z]), y \in L PROVE y \in V
    BY <2>2, Paths
  <2>3. Inside(T \cup V, L)
    <3> SUFFICES ASSUME NEW z \in T \cup V, NEW y \in Range(succ[z]), y \in L
                 PROVE  y \in T \cup V
      BY DEF Inside
    <3>1. CASE z \in T
      <4>1. y = u \/ y \in Later(u)
        OBVIOUS
      <4> HIDE DEF T, V
      <4> QED
        BY <1>8, <2>1, <3>1, <4>1
    <3>2. CASE z \in V
      <4> HIDE DEF T, V
      <4> QED
        BY <2>2, <3>2
    <3> QED
      BY <3>1, <3>2
  <2>4. T \cup V \in SUBSET L /\ s \in T \cup V
    BY <1>7, <1>9, <2>1
  <2>5. b \in T \cup V
    <3> HIDE DEF T, V
    <3>1. Reaches(L, s, b)
      BY <1>7
    <3> HIDE DEF L
    <3> QED
      BY <2>3, <2>4, <3>1 DEF Reaches
  <2>6. Reaches(L, u, b)
    BY <1>9, <2>5
  <2>7. L = From(dfnum(u))
    BY <1>6
  <2> QED
    BY <1>6, <2>6, <2>7, PathsGoUnder
<1> QED
  BY <1>2, <1>3, <1>6, <1>10, <1>11

-----------------------------------------------------------------------------
(* ReachableIn unrolled: every round adds what the last one leads to.      *)
Wider(S, within) == S \cup {s \in within : \E b \in S : s \in Range(succ[b])}

IsSpread(f, from, within) ==
  /\ f[0] = from \cap within
  /\ \A k \in 1 .. Len(succ) : f[k] = Wider(f[k - 1], within)
  /\ ReachableIn(from, within) = f[Len(succ)]

(* There is such a run of rounds.                                          *)
LEMMA Spreads ==
    ASSUME succ \in Graphs, NEW from, NEW within
    PROVE  \E f : IsSpread(f, from, within)
<1> DEFINE IsRun(f, n) ==
             f = [k \in 0 .. n |-> IF k = 0 THEN from \cap within ELSE Wider(f[k - 1], within)]
           U == {n \in Nat : \E f : IsRun(f, n)}
           last == Len(succ)
           run == CHOOSE f : IsRun(f, last)
<1>0. last \in Nat \ {0}
  BY GraphShape
<1>1. ReachableIn(from, within) = run[last]
  BY DEF ReachableIn, Wider
<1>2. 0 \in U
  <2> DEFINE f == [k \in 0 .. 0 |-> from \cap within]
  <2>1. IsRun(f, 0)
    OBVIOUS
  <2> HIDE DEF IsRun, f
  <2> QED
    BY <2>1
<1>3. ASSUME NEW n \in Nat, n \in U PROVE n + 1 \in U
  <2>1. PICK f : IsRun(f, n)
    BY <1>3
  <2> DEFINE g == [k \in 0 .. n + 1 |-> IF k = n + 1 THEN Wider(f[n], within) ELSE f[k]]
  <2>2. IsRun(g, n + 1)
    <3>1. \A k \in 0 .. n : /\ k # n + 1 /\ g[k] = f[k]
                            /\ k # 0 => k - 1 \in 0 .. n /\ g[k - 1] = f[k - 1]
      OBVIOUS
    <3>2. \A k \in 0 .. n : f[k] = IF k = 0 THEN from \cap within ELSE Wider(f[k - 1], within)
      BY <2>1
    <3>3. \A k \in 0 .. n : g[k] = IF k = 0 THEN from \cap within ELSE Wider(g[k - 1], within)
      <4> HIDE DEF g
      <4> SUFFICES ASSUME NEW k \in 0 .. n
                   PROVE  g[k] = IF k = 0 THEN from \cap within ELSE Wider(g[k - 1], within)
        OBVIOUS
      <4>1. g[k] = f[k] /\ (k # 0 => g[k - 1] = f[k - 1])
        BY <3>1
      <4> QED
        BY <3>2, <4>1
    <3>4. g[n + 1] = Wider(g[(n + 1) - 1], within) /\ n + 1 # 0
      <4>1. (n + 1) - 1 = n /\ n \in 0 .. n /\ g[n + 1] = Wider(f[n], within)
        OBVIOUS
      <4> HIDE DEF g
      <4> QED
        BY <3>1, <4>1
    <3>5. \A k \in 0 .. n + 1 : g[k] = IF k = 0 THEN from \cap within ELSE Wider(g[k - 1], within)
      <4> HIDE DEF g
      <4>1. \A k \in 0 .. n + 1 : k \in 0 .. n \/ k = n + 1
        OBVIOUS
      <4> QED
        BY <3>3, <3>4, <4>1
    <3>6. g = [k \in 0 .. n + 1 |-> g[k]]
      OBVIOUS
    <3> HIDE DEF g
    <3> QED
      BY <3>5, <3>6
  <2> HIDE DEF IsRun, g
  <2> QED
    BY <2>2
<1>4. last \in U
  <2> HIDE DEF U
  <2>1. Nat \subseteq U
    BY <1>2, <1>3, SetInduction
  <2> QED
    BY <1>0, <2>1
<1>5. IsRun(run, last)
  <2> HIDE DEF IsRun
  <2> QED
    BY <1>4, Zenon
<1>6. \A k \in 0 .. last :
        run[k] = IF k = 0 THEN from \cap within ELSE Wider(run[k - 1], within)
  <2> HIDE DEF run
  <2> QED
    BY <1>5
<1> HIDE DEF run
<1>7. /\ run[0] = from \cap within
      /\ \A k \in 1 .. last : run[k] = Wider(run[k - 1], within)
  BY <1>0, <1>6
<1>8. IsSpread(run, from, within)
  BY <1>1, <1>7 DEF IsSpread
<1> QED
  BY <1>8

(* As many rounds as there are blocks are enough: each adds a block, or    *)
(* there is none to add.                                                   *)
LEMMA SpreadCloses ==
    ASSUME succ \in Graphs, NEW from, NEW within \in SUBSET Blocks
    PROVE  /\ ReachableIn(from, within) \in SUBSET within
           /\ Inside(ReachableIn(from, within), within)
           /\ from \cap within \subseteq ReachableIn(from, within)
           /\ \A S \in SUBSET within :
                from \cap within \subseteq S /\ Inside(S, within)
                  => ReachableIn(from, within) \subseteq S
<1>1. PICK f : IsSpread(f, from, within)
  BY Spreads
<1>a. PICK n : n = Len(succ)
  OBVIOUS
<1>2. n \in Nat \ {0} /\ Blocks = 1 .. n
  BY <1>a, GraphShape
<1>3. /\ f[0] = from \cap within
      /\ \A k \in 0 .. n - 1 : f[k + 1] = Wider(f[k], within)
      /\ ReachableIn(from, within) = f[n]
  <2>1. \A k \in 0 .. n - 1 : k + 1 \in 1 .. n /\ (k + 1) - 1 = k
    BY <1>2
  <2> QED
    BY <1>1, <1>a, <2>1 DEF IsSpread
<1>4. \A k \in 0 .. n : f[k] \in SUBSET within /\ from \cap within \subseteq f[k]
  <2> DEFINE U == {k \in Nat : k <= n => f[k] \in SUBSET within /\ from \cap within \subseteq f[k]}
  <2>1. 0 \in U
    BY <1>3
  <2>2. ASSUME NEW k \in Nat, k \in U PROVE k + 1 \in U
    <3> SUFFICES ASSUME k + 1 <= n
                 PROVE  f[k + 1] \in SUBSET within /\ from \cap within \subseteq f[k + 1]
      OBVIOUS
    <3>1. k \in 0 .. n - 1 /\ f[k] \in SUBSET within /\ from \cap within \subseteq f[k]
      BY <1>2, <2>2
    <3> QED
      BY <1>3, <3>1 DEF Wider
  <2> HIDE DEF U
  <2>3. Nat \subseteq U
    BY <2>1, <2>2, SetInduction
  <2> QED
    BY <2>3 DEF U
<1>5. ASSUME NEW S \in SUBSET within, from \cap within \subseteq S, Inside(S, within)
      PROVE  f[n] \subseteq S
  <2> DEFINE U == {k \in Nat : k <= n => f[k] \subseteq S}
  <2>1. 0 \in U
    BY <1>3, <1>5
  <2>2. ASSUME NEW k \in Nat, k \in U PROVE k + 1 \in U
    <3> SUFFICES ASSUME k + 1 <= n PROVE f[k + 1] \subseteq S
      OBVIOUS
    <3>1. k \in 0 .. n - 1 /\ f[k] \subseteq S
      BY <1>2, <2>2
    <3> QED
      BY <1>3, <1>5, <3>1 DEF Wider, Inside
  <2> HIDE DEF U
  <2>3. Nat \subseteq U
    BY <2>1, <2>2, SetInduction
  <2>4. n \in U
    BY <1>2, <2>3
  <2> QED
    BY <1>2, <2>4 DEF U
<1>6. IsFiniteSet(Blocks) /\ Cardinality(Blocks) = n
  <2>1. Cardinality(1 .. n) = IF 1 > n THEN 0 ELSE n - 1 + 1
    BY <1>2, FS_Interval
  <2> QED
    BY <1>2, <2>1, FS_Interval
<1>7. \A k \in 0 .. n : IsFiniteSet(f[k]) /\ Cardinality(f[k]) \in Nat
  <2> SUFFICES ASSUME NEW k \in 0 .. n PROVE IsFiniteSet(f[k]) /\ Cardinality(f[k]) \in Nat
    OBVIOUS
  <2>1. f[k] \subseteq Blocks
    BY <1>4
  <2> HIDE DEF Blocks
  <2> QED
    BY <1>6, <2>1, FS_Subset, FS_CardinalityType
<1>8. \A k \in 0 .. n : Inside(f[k], within) \/ Cardinality(f[k]) >= k + 1
  <2> DEFINE U == {k \in Nat : k <= n => Inside(f[k], within) \/ Cardinality(f[k]) >= k + 1}
  <2>1. 0 \in U
    <3> SUFFICES ASSUME Cardinality(f[0]) < 1 PROVE Inside(f[0], within)
      BY <1>7, <1>2
    <3>1. f[0] = {}
      <4>1. IsFiniteSet(f[0]) /\ Cardinality(f[0]) = 0
        BY <1>2, <1>7
      <4> QED
        BY <4>1, FS_EmptySet
    <3> QED
      BY <3>1 DEF Inside
  <2>2. ASSUME NEW k \in Nat, k \in U PROVE k + 1 \in U
    <3> SUFFICES ASSUME k + 1 <= n
                 PROVE  Inside(f[k + 1], within) \/ Cardinality(f[k + 1]) >= (k + 1) + 1
      OBVIOUS
    <3>1. /\ k \in 0 .. n - 1 /\ k \in 0 .. n /\ k + 1 \in 0 .. n
          /\ Inside(f[k], within) \/ Cardinality(f[k]) >= k + 1
      BY <1>2, <2>2
    <3>2. f[k + 1] = Wider(f[k], within) /\ f[k] \in SUBSET within
      BY <1>3, <1>4, <3>1
    <3>3. CASE Inside(f[k], within)
      <4>1. f[k + 1] = f[k]
        BY <3>2, <3>3 DEF Wider, Inside
      <4> QED
        BY <3>3, <4>1
    <3>4. CASE ~Inside(f[k], within) /\ Cardinality(f[k]) >= k + 1
      <4>1. f[k] \subseteq f[k + 1] /\ f[k] # f[k + 1]
        BY <3>2, <3>4 DEF Wider, Inside
      <4>2. Cardinality(f[k]) < Cardinality(f[k + 1])
        <5>1. IsFiniteSet(f[k + 1]) /\ Cardinality(f[k + 1]) \in Nat /\ Cardinality(f[k]) \in Nat
          BY <1>7, <3>1
        <5>2. /\ Cardinality(f[k]) <= Cardinality(f[k + 1])
              /\ Cardinality(f[k]) = Cardinality(f[k + 1]) => f[k] = f[k + 1]
          BY <4>1, <5>1, FS_Subset
        <5> QED
          BY <4>1, <5>1, <5>2
      <4>3. Cardinality(f[k]) \in Nat /\ Cardinality(f[k + 1]) \in Nat
        BY <1>7, <3>1
      <4> QED
        BY <3>4, <4>2, <4>3
    <3> QED
      BY <3>1, <3>3, <3>4
  <2> HIDE DEF U
  <2>3. Nat \subseteq U
    BY <2>1, <2>2, SetInduction
  <2> QED
    BY <2>3 DEF U
<1>9. Inside(f[n], within)
  <2>0. n \in 0 .. n
    BY <1>2
  <2>1. n \in 0 .. n /\ f[n] \subseteq Blocks
    <3>1. f[n] \in SUBSET within
      BY <1>4, <2>0
    <3> QED
      BY <2>0, <3>1
  <2>2. Cardinality(f[n]) <= n
    <3> HIDE DEF Blocks
    <3> QED
      BY <1>6, <2>1, FS_Subset
  <2>3. Cardinality(f[n]) \in Nat
    BY <1>7, <2>1
  <2> QED
    BY <1>2, <1>8, <2>1, <2>2, <2>3
<1>10. n \in 0 .. n
  BY <1>2
<1> QED
  BY <1>3, <1>4, <1>5, <1>9, <1>10

(* So the definition of the semi-dominator speaks of those that precede.   *)
LEMMA ReachableIsReached ==
    ASSUME succ \in Graphs, NEW s, NEW within \in SUBSET Blocks, NEW b
    PROVE  b \in ReachableIn({s}, within) <=> Reaches(within, s, b)
<1>1. PICK R : R = ReachableIn({s}, within)
  OBVIOUS
<1>2. /\ R \in SUBSET within /\ Inside(R, within)
      /\ {s} \cap within \subseteq R
      /\ \A S \in SUBSET within : {s} \cap within \subseteq S /\ Inside(S, within) => R \subseteq S
  BY <1>1, SpreadCloses, Zenon
<1>3. ASSUME b \in R PROVE Reaches(within, s, b)
  <2>1. s \in within
    <3> SUFFICES ASSUME s \notin within PROVE FALSE
      OBVIOUS
    <3>1. {} \in SUBSET within /\ {s} \cap within \subseteq {} /\ Inside({}, within)
      BY DEF Inside
    <3>2. R \subseteq {}
      BY <1>2, <3>1
    <3> QED
      BY <1>3, <3>2
  <2>2. ASSUME NEW S \in SUBSET within, s \in S, Inside(S, within) PROVE b \in S
    <3>1. {s} \cap within \subseteq S
      BY <2>2
    <3> QED
      BY <1>2, <1>3, <2>2, <3>1
  <2> QED
    BY <2>1, <2>2 DEF Reaches
<1>4. ASSUME Reaches(within, s, b) PROVE b \in R
  BY <1>2, <1>4 DEF Reaches
<1> QED
  BY <1>1, <1>3, <1>4

(* What precedes a block and is the lowest to do so is its semi-dominator. *)
LEMMA SemiIsSemiDominator ==
    ASSUME succ \in Graphs, Numbered, NEW w \in Reached, IsSemi(w)
    PROVE  semi[w] = SemiDominator(w)
<1> DEFINE later == {b \in Reached : dfnum(b) > dfnum(w)}
           leads == {v \in Reached :
                       w \in UNION {{s} \cup (UNION {Range(succ[b]) :
                                       b \in ReachableIn({s}, later)}) :
                                    s \in Range(succ[v])}}
<1>1. SemiDominator(w) = vertex[Min({dfnum(v) : v \in leads})]
  BY DEF SemiDominator
<1>2. later = Later(w) /\ later \in SUBSET Blocks
  BY Numbers DEF Later
<1>3. \A v \in Reached : v \in leads <=> Precedes(v, w)
  <2> SUFFICES ASSUME NEW v \in Reached PROVE v \in leads <=> Precedes(v, w)
    OBVIOUS
  <2>1. v \in leads <=> \E s \in Range(succ[v]) :
                           s = w \/ \E b \in ReachableIn({s}, later) : w \in Range(succ[b])
    <3> DEFINE onward(s) == {s} \cup (UNION {Range(succ[b]) : b \in ReachableIn({s}, later)})
    <3>1. ASSUME NEW s
          PROVE  w \in onward(s) <=> (s = w \/ \E b \in ReachableIn({s}, later) : w \in Range(succ[b]))
      <4>1. PICK R : R = ReachableIn({s}, later)
        OBVIOUS
      <4>2. w \in {s} \cup (UNION {Range(succ[b]) : b \in R})
              <=> (s = w \/ \E b \in R : w \in Range(succ[b]))
        OBVIOUS
      <4> QED
        BY <4>1, <4>2
    <3>2. leads = {z \in Reached : w \in UNION {onward(s) : s \in Range(succ[z])}}
      BY Zenon
    <3> HIDE DEF leads, onward
    <3>3. v \in leads <=> \E s \in Range(succ[v]) : w \in onward(s)
      BY <3>2
    <3> QED
      BY <3>1, <3>3, Zenon
  <2>2. \A s, b : b \in ReachableIn({s}, later) <=> Reaches(later, s, b)
    <3> HIDE DEF later
    <3> QED
      BY <1>2, ReachableIsReached
  <2>3. \A s, b : Reaches(later, s, b) => b \in later
    <3> HIDE DEF later
    <3> QED
      BY Paths
  <2> HIDE DEF later, leads
  <2> QED
    BY <1>2, <2>1, <2>2, <2>3 DEF Precedes
<1> HIDE DEF leads
<1>4. leads \subseteq Reached
  BY DEF leads
<1> DEFINE nums == {dfnum(v) : v \in leads}
<1>5. semi[w] \in leads /\ \A v \in leads : dfnum(semi[w]) <= dfnum(v)
  BY <1>3, <1>4 DEF IsSemi
<1>6. \A b \in Reached : dfnum(b) \in Nat /\ vertex[dfnum(b)] = b
  BY Numbers
<1>7. nums \subseteq Nat /\ dfnum(semi[w]) \in nums /\ \A m \in nums : dfnum(semi[w]) <= m
  BY <1>4, <1>5, <1>6
<1>8. Min(nums) = dfnum(semi[w])
  <2> HIDE DEF nums
  <2>1. nums # {}
    BY <1>7
  <2>2. Min(nums) \in nums /\ \A y \in nums : Min(nums) <= y
    BY <1>7, <2>1, MinTaken
  <2>3. Min(nums) \in Nat /\ dfnum(semi[w]) \in Nat
    BY <1>7, <2>2
  <2> QED
    BY <1>7, <2>2, <2>3
<1> QED
  BY <1>1, <1>4, <1>5, <1>6, <1>8

-----------------------------------------------------------------------------
(* What is said of the tree alone stays true while the tree stays the same.*)
LEMMA SameShape ==
    ASSUME succ' = succ, vertex' = vertex, parent' = parent
    PROVE  /\ \A a, b : Over(a, b)' <=> Over(a, b)
           /\ ShapeInv' <=> ShapeInv
<1>1. Blocks' = Blocks /\ Reached' = Reached /\ \A b : dfnum(b)' = dfnum(b)
  BY SameTree
<1>2. \A a, b : Over(a, b)' <=> Over(a, b)
  BY <1>1 DEF Over, GoesUp
<1>3. RootedInv' <=> RootedInv
  BY <1>1 DEF RootedInv
<1>4. Interval' <=> Interval
  BY <1>1, <1>2 DEF Interval
<1>5. Forward' <=> Forward
  BY <1>1, <1>2 DEF Forward
<1> QED
  BY <1>2, <1>3, <1>4, <1>5 DEF ShapeInv

(* In the beginning the tree is the entry.                                 *)
LEMMA InitIsSemi == Init => SemiDominatorInv
<1> SUFFICES ASSUME Init PROVE SemiDominatorInv
  OBVIOUS
<1>1. succ \in Graphs /\ vertex = <<1>> /\ stack = <<1>> /\ pc = "dfs"
      /\ parent = [b \in Blocks |-> 0]
  BY DEF Init
<1>2. 1 \in Blocks
  BY <1>1, GraphShape
<1>3. Reached = {1} /\ dfnum(1) = 1 /\ DOMAIN stack = {1} /\ stack[1] = 1
  BY <1>1 DEF Reached, Range, dfnum
<1>4. Over(1, 1)
  BY <1>2, OverOrders
<1>5. ShapeInv
  BY <1>1, <1>3, <1>4 DEF ShapeInv, RootedInv, Interval, Forward
<1>6. StackInv
  BY <1>1, <1>3, <1>4 DEF StackInv
<1> QED
  BY <1>1, <1>5, <1>6 DEF SemiDominatorInv

(* Only what is on the stack is over its top.                              *)
LEMMA OverTop ==
    ASSUME TypeInv, RootedInv, StackInv, SearchInv, NEW k \in DOMAIN stack, NEW a, Over(a, stack[k])
    PROVE  a \in Range(stack)
<1>1. stack \in Seq(Blocks) /\ DOMAIN stack = 1 .. Len(stack) /\ Len(stack) \in Nat
  BY DEF TypeInv
<1>2. Range(stack) \in SUBSET Blocks /\ stack[k] \in Range(stack)
  BY <1>1 DEF Range
<1>3. stack[1] = 1 /\ parent[1] = 0
  <2>1. stack # << >>
    BY <1>1
  <2>2. 1 \in Blocks
    BY GraphShape DEF TypeInv
  <2> QED
    BY <1>1, <2>1, <2>2 DEF StackInv, RootedInv, TypeInv
<1>4. GoesUp(Range(stack))
  <2> SUFFICES ASSUME NEW j \in DOMAIN stack, parent[stack[j]] # 0
               PROVE  parent[stack[j]] \in Range(stack)
    BY DEF GoesUp, Range
  <2>1. j > 1 /\ j - 1 \in DOMAIN stack
    BY <1>1, <1>3
  <2> QED
    BY <2>1 DEF StackInv, Range
<1> QED
  BY <1>2, <1>4 DEF Over

(* A visit hangs a block below the top of the stack and leaves the rest.   *)
LEMMA VisitGrows ==
    ASSUME ClimbInv, RootedInv, pc = "dfs", NEW s, NEW t, NEW L, Visits(s, t, L)
    PROVE  /\ RootedInv'
           /\ \A a \in Blocks : Over(a, s)' <=> a = s \/ Over(a, t)
           /\ \A a, b \in Reached : Over(a, b)' <=> Over(a, b)
<1>1. /\ TypeInv /\ TreeInv /\ Numbered /\ succ \in Graphs
      /\ parent \in [Blocks -> Blocks \cup {0}]
  BY DEF ClimbInv, TypeInv, SearchInv
<1>2. /\ t \in Reached /\ s \in Blocks /\ s \notin Reached /\ Reached \subseteq Blocks
      /\ Blocks' = Blocks /\ Reached' = Reached \cup {s}
  BY DEF Visits
<1>3. PICK T : T = parent'
  OBVIOUS
<1>4. T[s] = t /\ \A b \in Blocks \ {s} : T[b] = parent[b]
  BY <1>3 DEF Visits
<1>5. 1 \in Reached /\ 0 \notin Blocks
  BY <1>1, Numbers, GraphShape
<1>6. parent[s] = 0
  BY <1>2 DEF RootedInv
<1>7. RootedInv'
  <2>1. \A b \in Blocks : T[b] # 0 <=> b \in (Reached \cup {s}) \ {1}
    BY <1>2, <1>4, <1>5 DEF RootedInv
  <2> QED
    BY <1>2, <1>3, <2>1 DEF RootedInv
<1> DEFINE Rise(S) == \A b \in S : T[b] # 0 => T[b] \in S
           Above(a, b) == \A S \in SUBSET Blocks : b \in S /\ Rise(S) => a \in S
<1>8. \A a, b : Over(a, b)' <=> Above(a, b)
  BY <1>2, <1>3 DEF Over, GoesUp
<1>9. \A S \in SUBSET Blocks : Rise(S) => GoesUp(S)
  BY <1>4, <1>6 DEF GoesUp
<1>10. \A S \in SUBSET Blocks : GoesUp(S) => Rise(S \cap Reached)
  <2> SUFFICES ASSUME NEW S \in SUBSET Blocks, GoesUp(S), NEW b \in S \cap Reached, T[b] # 0
               PROVE  T[b] \in S \cap Reached
    OBVIOUS
  <2>1. T[b] = parent[b]
    BY <1>2, <1>4
  <2>2. parent[b] \in Reached
    BY <1>1, <2>1, ParentAbove DEF Searched
  <2> QED
    BY <2>1, <2>2 DEF GoesUp
<1>11. \A a, b : Over(a, b) => Above(a, b)
  BY <1>9 DEF Over
<1>12. ASSUME NEW a, NEW b \in Reached, Above(a, b) PROVE Over(a, b)
  <2> SUFFICES ASSUME NEW S \in SUBSET Blocks, b \in S, GoesUp(S) PROVE a \in S
    BY DEF Over
  <2>1. S \cap Reached \in SUBSET Blocks /\ Rise(S \cap Reached) /\ b \in S \cap Reached
    BY <1>10
  <2> HIDE DEF Rise
  <2> QED
    BY <1>12, <2>1
<1>13. ASSUME NEW a, Above(a, s), a # s PROVE Above(a, t)
  <2> SUFFICES ASSUME NEW S \in SUBSET Blocks, t \in S, Rise(S) PROVE a \in S
    OBVIOUS
  <2>1. S \cup {s} \in SUBSET Blocks /\ Rise(S \cup {s})
    BY <1>2, <1>4
  <2> HIDE DEF Rise
  <2> QED
    BY <1>13, <2>1
<1>14. Above(s, s)
  OBVIOUS
<1>15. ASSUME NEW a, Above(a, t) PROVE Above(a, s)
  <2> SUFFICES ASSUME NEW S \in SUBSET Blocks, s \in S, Rise(S) PROVE a \in S
    OBVIOUS
  <2>1. t \in S
    BY <1>2, <1>4, <1>5
  <2> QED
    BY <1>15, <2>1
<1> HIDE DEF Above
<1> QED
  BY <1>2, <1>7, <1>8, <1>11, <1>12, <1>13, <1>14, <1>15

(* So the tree keeps its shape, and the stack is the way to its top.       *)
LEMMA VisitKeepsShape == ClimbInv /\ SemiDominatorInv /\ DfsVisit => SemiDominatorInv'
<1> SUFFICES ASSUME ClimbInv, SemiDominatorInv, DfsVisit PROVE SemiDominatorInv'
  OBVIOUS
<1>1. PICK s : Visits(s, Last(stack), Len(vertex))
  BY SearchVisits
<1>2. PICK t, L : t = Last(stack) /\ L = Len(vertex) /\ Visits(s, t, L)
  BY <1>1
<1>3. /\ pc = "dfs" /\ pc' = "dfs" /\ succ' = succ /\ stack # << >>
      /\ TypeInv /\ SearchInv /\ StackInv /\ ShapeInv
      /\ RootedInv /\ Interval /\ Forward
  BY DEF DfsVisit, graph, ClimbInv, SemiDominatorInv, ShapeInv
<1>4. /\ t \in Reached /\ s \in Blocks /\ s \notin Reached /\ s \in Range(succ[t])
      /\ Reached \subseteq Blocks /\ Blocks' = Blocks /\ Reached' = Reached \cup {s}
      /\ L \in Nat /\ \A b \in Reached : dfnum(b) \in 1 .. L /\ dfnum(b)' = dfnum(b)
      /\ dfnum(s)' = L + 1
  BY <1>2 DEF Visits
<1>5. /\ Len(stack) \in Nat \ {0} /\ DOMAIN stack = 1 .. Len(stack)
      /\ stack[Len(stack)] = t /\ Len(stack) \in DOMAIN stack
      /\ \A k \in DOMAIN stack : stack[k] \in Reached
      /\ DOMAIN stack' = 1 .. Len(stack) + 1
      /\ \A k \in DOMAIN stack : stack'[k] = stack[k]
      /\ stack'[Len(stack) + 1] = s
  BY <1>2, <1>3 DEF Visits, SearchInv, Range
<1>6. /\ RootedInv'
      /\ \A a \in Blocks : Over(a, s)' <=> a = s \/ Over(a, t)
      /\ \A a, b \in Reached : Over(a, b)' <=> Over(a, b)
  BY <1>2, <1>3, VisitGrows
<1>7. \A a \in Reached : Over(a, t) => \E k \in DOMAIN stack : stack[k] = a
  BY <1>3, <1>5, OverTop DEF Range
<1>8. \A k \in DOMAIN stack : Over(stack[k], t)
  BY <1>3, <1>5 DEF StackInv
<1>9. Interval'
  <2> SUFFICES ASSUME NEW a \in Reached', NEW b \in Reached', NEW c \in Reached', Over(a, b)',
                      dfnum(a)' <= dfnum(c)', dfnum(c)' <= dfnum(b)'
               PROVE  Over(a, c)'
    BY DEF Interval
  <2>1. CASE b # s
    <3>1. b \in Reached /\ dfnum(b)' = dfnum(b) /\ dfnum(b) \in 1 .. L
      BY <1>4, <2>1
    <3>2. c # s /\ c \in Reached /\ dfnum(c)' = dfnum(c) /\ dfnum(c) \in 1 .. L
      BY <1>4, <3>1
    <3>3. a # s /\ a \in Reached /\ dfnum(a)' = dfnum(a)
      BY <1>4, <3>2
    <3> QED
      BY <1>3, <1>6, <3>1, <3>2, <3>3 DEF Interval
  <2>2. CASE b = s /\ c = s
    BY <1>4, <1>6, <2>2
  <2>3. CASE b = s /\ c # s
    <3>1. c \in Reached /\ dfnum(c)' = dfnum(c) /\ dfnum(c) \in 1 .. L
      BY <1>4, <2>3
    <3>2. a # s /\ a \in Reached /\ dfnum(a)' = dfnum(a)
      BY <1>4, <3>1
    <3>3. Over(a, t)
      BY <1>4, <1>6, <2>3, <3>2
    <3>4. PICK k \in DOMAIN stack : stack[k] = a
      BY <1>7, <3>2, <3>3
    <3>5. Over(a, c)
      BY <1>3, <3>1, <3>2, <3>4 DEF StackInv
    <3> QED
      BY <1>6, <3>1, <3>2, <3>5
  <2> QED
    BY <2>1, <2>2, <2>3
<1>10. Forward'
  <2> SUFFICES ASSUME NEW a \in Reached', NEW b \in Reached', b \in Range(succ[a]),
                      dfnum(a)' < dfnum(b)'
               PROVE  Over(a, b)'
    BY <1>3 DEF Forward
  <2>1. CASE b # s
    <3>1. b \in Reached /\ dfnum(b)' = dfnum(b) /\ dfnum(b) \in 1 .. L
      BY <1>4, <2>1
    <3>2. a # s /\ a \in Reached /\ dfnum(a)' = dfnum(a)
      BY <1>4, <3>1
    <3> QED
      BY <1>3, <1>6, <3>1, <3>2 DEF Forward
  <2>2. CASE b = s
    <3>1. a # s /\ a \in Reached
      BY <1>4, <2>2
    <3>2. PICK k \in DOMAIN stack : stack[k] = a
      BY <1>3, <1>4, <2>2, <3>1 DEF SearchInv, Range
    <3> QED
      BY <1>4, <1>6, <1>8, <2>2, <3>1, <3>2
  <2> QED
    BY <2>1, <2>2
<1>11. StackInv'
  <2>1. stack'[1] = 1
    BY <1>3, <1>5 DEF StackInv
  <2>2. \A k \in DOMAIN stack' : k \in DOMAIN stack \/ k = Len(stack) + 1
    BY <1>5
  <2>3. ASSUME NEW k \in DOMAIN stack', k > 1 PROVE parent'[stack'[k]] = stack'[k - 1]
    <3>1. CASE k \in DOMAIN stack
      <4>1. k - 1 \in DOMAIN stack /\ stack[k] \in Blocks \ {s}
        BY <1>4, <1>5, <2>3, <3>1
      <4> QED
        BY <1>2, <1>3, <1>5, <2>3, <3>1, <4>1 DEF StackInv, Visits
    <3>2. CASE k = Len(stack) + 1
      BY <1>2, <1>5, <3>2 DEF Visits
    <3> QED
      BY <2>2, <3>1, <3>2
  <2>4. ASSUME NEW j \in DOMAIN stack', NEW k \in DOMAIN stack', j <= k
        PROVE  \E a, b : a = stack'[j] /\ b = stack'[k] /\ Over(a, b)'
    <3>1. CASE k \in DOMAIN stack
      <4>1. j \in DOMAIN stack
        BY <1>5, <2>4, <3>1
      <4>2. Over(stack[j], stack[k]) /\ stack[j] \in Reached /\ stack[k] \in Reached
        BY <1>3, <1>5, <2>4, <3>1, <4>1 DEF StackInv
      <4>3. PICK a, b : a = stack[j] /\ b = stack[k]
        OBVIOUS
      <4> QED
        BY <1>5, <1>6, <3>1, <4>1, <4>2, <4>3
    <3>2. CASE k = Len(stack) + 1 /\ j \in DOMAIN stack
      <4>1. PICK a : a = stack[j]
        OBVIOUS
      <4>2. Over(a, t) /\ a \in Blocks
        BY <1>4, <1>5, <1>8, <3>2, <4>1
      <4> QED
        BY <1>5, <1>6, <3>2, <4>1, <4>2
    <3>3. CASE k = Len(stack) + 1 /\ j = k
      BY <1>4, <1>5, <1>6, <3>3
    <3> QED
      BY <2>2, <3>1, <3>2, <3>3
  <2>5. ASSUME NEW k \in DOMAIN stack', NEW b \in Reached'
        PROVE  \E a : a = stack'[k] /\ (dfnum(a)' <= dfnum(b)' => Over(a, b)')
    <3>1. CASE k \in DOMAIN stack
      <4>1. PICK a : a = stack[k] /\ a \in Reached /\ a \in Blocks /\ stack'[k] = a
        BY <1>4, <1>5, <3>1
      <4>2. CASE b = s
        BY <1>6, <1>8, <3>1, <4>1, <4>2
      <4>3. CASE b \in Reached
        BY <1>3, <1>4, <1>6, <3>1, <4>1, <4>3 DEF StackInv
      <4> QED
        BY <1>4, <4>2, <4>3
    <3>2. CASE k = Len(stack) + 1
      <4>1. dfnum(s)' <= dfnum(b)' => b = s
        BY <1>4
      <4> QED
        BY <1>4, <1>5, <1>6, <3>2, <4>1
    <3> QED
      BY <2>2, <3>1, <3>2
  <2>6. ASSUME NEW j \in DOMAIN stack', NEW k \in DOMAIN stack', j <= k
        PROVE  Over(stack[j], stack[k])'
    BY <2>4, <2>6, Zenon DEF Over, GoesUp
  <2>7. ASSUME NEW k \in DOMAIN stack', NEW b \in Reached', dfnum(stack[k])' <= dfnum(b)'
        PROVE  Over(stack[k], b)'
    <3>1. PICK a : a = stack'[k] /\ (dfnum(a)' <= dfnum(b)' => Over(a, b)')
      BY <2>5
    <3>2. dfnum(a)' = dfnum(stack[k])'
      BY <3>1, Zenon DEF dfnum
    <3>3. Over(a, b)'
      BY <2>7, <3>1, <3>2
    <3> QED
      BY <3>1, <3>3, Zenon DEF Over, GoesUp
  <2> QED
    BY <2>1, <2>3, <2>6, <2>7 DEF StackInv
<1> QED
  BY <1>3, <1>6, <1>9, <1>10, <1>11 DEF SemiDominatorInv, ShapeInv

(* A return takes a block off the stack.                                   *)
LEMMA ReturnKeepsShape == ClimbInv /\ SemiDominatorInv /\ DfsReturn => SemiDominatorInv'
<1> SUFFICES ASSUME ClimbInv, SemiDominatorInv, DfsReturn PROVE SemiDominatorInv'
  OBVIOUS
<1>1. /\ pc = "dfs" /\ pc' = "dfs" /\ stack # << >> /\ stack' = Front(stack)
      /\ succ' = succ /\ vertex' = vertex /\ parent' = parent
      /\ ShapeInv /\ StackInv /\ stack \in Seq(Blocks)
  BY DEF DfsReturn, graph, ClimbInv, TypeInv, SemiDominatorInv
<1>2. PICK m : m = Len(stack) - 1
  OBVIOUS
<1>3. /\ DOMAIN stack = 1 .. m + 1 /\ m \in Nat
      /\ DOMAIN stack' = 1 .. m /\ \A k \in 1 .. m : stack'[k] = stack[k]
  <2>1. Len(stack) \in Nat \ {0} /\ DOMAIN stack = 1 .. Len(stack)
    BY <1>1, EmptySeq
  <2>2. m \in Nat /\ m + 1 = Len(stack)
    BY <1>2, <2>1
  <2>3. stack' = SubSeq(stack, 1, m) /\ m <= Len(stack)
    BY <1>1, <1>2, <2>2 DEF Front
  <2>4. DOMAIN stack' = 1 .. m /\ \A k \in 1 .. m : stack'[k] = stack[k]
    BY <1>1, <2>2, <2>3
  <2> QED
    BY <2>1, <2>2, <2>4
<1>4. /\ Reached' = Reached
      /\ \A b : dfnum(b)' = dfnum(b)
      /\ \A a, b : Over(a, b)' <=> Over(a, b)
      /\ ShapeInv'
  BY <1>1, SameTree, SameShape
<1>5. \A k \in DOMAIN stack' : k \in DOMAIN stack /\ stack'[k] = stack[k]
  BY <1>3
<1>6. StackInv'
  <2>1. stack' # << >> => stack'[1] = 1
    <3> SUFFICES ASSUME stack' # << >> PROVE stack'[1] = 1
      OBVIOUS
    <3>1. m # 0
      <4> SUFFICES ASSUME m = 0 PROVE FALSE
        OBVIOUS
      <4>1. stack' = SubSeq(stack, 1, 0)
        BY <1>1, <1>2 DEF Front
      <4> QED
        BY <1>1, <4>1
    <3> QED
      BY <1>1, <1>3, <3>1 DEF StackInv
  <2>2. \A k \in DOMAIN stack' : k > 1 => parent'[stack'[k]] = stack'[k - 1]
    BY <1>1, <1>3 DEF StackInv
  <2>3. ASSUME NEW j \in DOMAIN stack', NEW k \in DOMAIN stack', j <= k
        PROVE  Over(stack[j], stack[k])'
    <3>1. PICK a, b : a = stack[j] /\ b = stack[k] /\ a = stack'[j] /\ b = stack'[k]
      BY <1>5
    <3>2. Over(a, b)'
      BY <1>1, <1>4, <1>5, <2>3, <3>1 DEF StackInv
    <3> QED
      BY <3>1, <3>2, Zenon DEF Over, GoesUp
  <2>4. ASSUME NEW k \in DOMAIN stack', NEW b \in Reached', dfnum(stack[k])' <= dfnum(b)'
        PROVE  Over(stack[k], b)'
    <3>1. PICK a : a = stack[k] /\ a = stack'[k]
      BY <1>5
    <3>2. dfnum(a)' = dfnum(stack[k])'
      BY <3>1, Zenon DEF dfnum
    <3>3. Over(a, b)'
      BY <1>1, <1>4, <1>5, <2>4, <3>1, <3>2 DEF StackInv
    <3> QED
      BY <3>1, <3>3, Zenon DEF Over, GoesUp
  <2> QED
    BY <2>1, <2>2, <2>3, <2>4 DEF StackInv
<1> QED
  BY <1>1, <1>4, <1>6 DEF SemiDominatorInv

(* When the search is over nothing is linked, and nothing looked at.       *)
LEMMA StartIsSemi == ClimbInv /\ SemiDominatorInv /\ StartSemi => SemiDominatorInv'
<1> SUFFICES ASSUME ClimbInv, SemiDominatorInv, StartSemi PROVE SemiDominatorInv'
  OBVIOUS
<1>1. /\ pc = "dfs" /\ pc' = "semi" /\ i' = Len(vertex) /\ p' = p
      /\ UNCHANGED <<succ, vertex, parent, semi, label, ancestor>>
      /\ ShapeInv /\ SearchInv /\ TypeInv
  BY DEF StartSemi, graph, ClimbInv, SemiDominatorInv
<1>2. /\ Blocks' = Blocks /\ Reached' = Reached
      /\ \A b : dfnum(b)' = dfnum(b)
      /\ ShapeInv'
  BY <1>1, SameTree, SameShape
<1>3. /\ Reached \subseteq Blocks /\ Len(vertex) \in DOMAIN vertex /\ Blocks \subseteq Nat \ {0}
      /\ \A b \in Reached : dfnum(b) \in 1 .. Len(vertex) /\ Len(vertex) \in Nat
      /\ \A k \in DOMAIN vertex : vertex[k] \in Reached
  <2>1. succ \in Graphs /\ Numbered
    BY <1>1 DEF TypeInv
  <2>2. Blocks \subseteq Nat \ {0}
    BY <2>1, GraphShape
  <2> QED
    BY <2>1, <2>2, Numbers
<1>4. \A b \in Reached : Open(b)' /\ ancestor'[b] = 0
  BY <1>1, <1>2, <1>3 DEF Open, SearchInv
<1>5. ForestInv'
  BY <1>2, <1>4 DEF ForestInv
<1>6. OfferInv'
  <2>1. PICK w : w = vertex'[i'] /\ w \in Reached
    BY <1>1, <1>3
  <2>2. semi'[w] = w
    BY <1>1, <1>3, <2>1 DEF SearchInv
  <2>3. \A x \in Reached' : ~(x <= p')
    BY <1>1, <1>2, <1>3 DEF SearchInv
  <2> QED
    BY <2>1, <2>2, <2>3 DEF OfferInv
<1> QED
  BY <1>1, <1>2, <1>4, <1>5, <1>6 DEF SemiDominatorInv

-----------------------------------------------------------------------------
(* What is linked above a block is over it, the blocks over it below the   *)
(* root are all linked, and the best label is one of them, with a          *)
(* semi-dominator as low as any of theirs.                                 *)
LEMMA BestIsLowest ==
    ASSUME TypeInv, LinkInv, ShapeInv, ForestInv, NEW v \in Reached, ancestor[v] # 0
    PROVE  /\ Over(Root(v), v)
           /\ \A b \in Linked(v) : Over(b, v)
           /\ Over(BestLabel(v), v)
           /\ dfnum(Root(v)) < dfnum(BestLabel(v))
           /\ \A y \in Reached : Over(y, v) /\ dfnum(Root(v)) < dfnum(y) =>
                /\ ~Open(y) /\ ancestor[y] # 0
                /\ SemiNumber(BestLabel(v)) <= SemiNumber(y)
<1>a. PICK r, U : r = Root(v) /\ U = Upward(ancestor, v)
  OBVIOUS
<1>1. /\ Searched /\ Interval /\ succ \in Graphs /\ Numbered /\ Rises(ancestor)
      /\ ancestor \in [Blocks -> Blocks \cup {0}]
  BY DEF TypeInv, LinkInv, ShapeInv, Searched, AncestorInv
<1>2. /\ Reached \subseteq Blocks /\ v \in Blocks /\ 0 \notin Blocks
      /\ \A b \in Reached : dfnum(b) \in Nat
  BY <1>1, Numbers, GraphShape
<1>3. /\ r \in Reached /\ r \in Blocks /\ ancestor[r] = 0 /\ r \in U /\ dfnum(r) < dfnum(v)
      /\ \A b \in Linked(v) : b \in Reached /\ ancestor[b] # 0 /\ IsAbove(r, b)
      /\ \A x \in U : ancestor[x] # 0 => ancestor[x] \in U
      /\ v \in U
  <2>1. /\ Root(v) \in Reached /\ ancestor[Root(v)] = 0 /\ IsAbove(Root(v), v)
        /\ \A b \in Linked(v) : b \in Reached /\ ancestor[b] # 0 /\ IsAbove(Root(v), b)
    BY RootFound
  <2>2. /\ \E q \in Upward(ancestor, v) : ancestor[q] = 0
        /\ \A x \in Upward(ancestor, v) : ancestor[x] # 0 => ancestor[x] \in Upward(ancestor, v)
        /\ v \in Upward(ancestor, v)
    BY <1>1, <1>2, UpwardRises
  <2>3. Root(v) \in Upward(ancestor, v)
    BY <2>2 DEF Root
  <2> QED
    BY <1>2, <1>a, <2>1, <2>2, <2>3 DEF IsAbove
<1>4. Linked(v) = {b \in U : ancestor[b] # 0}
  BY <1>a DEF Linked
<1>5. U \subseteq {x \in Reached : Over(x, v)}
  <2> DEFINE S == {x \in Reached : Over(x, v)}
  <2>1. 0 \notin S /\ v \in S
    BY <1>2, OverOrders
  <2>2. ASSUME NEW x \in S, ancestor[x] # 0 PROVE ancestor[x] \in S
    <3>1. x \in Reached /\ x \in Blocks /\ ancestor[x] \in Reached /\ ancestor[x] \in Blocks
      BY <1>1, <1>2, <2>2 DEF Rises, IsAbove
    <3>2. Over(ancestor[x], x) /\ Over(x, v)
      BY <2>2, <3>1 DEF ForestInv, Compressed
    <3>3. Over(ancestor[x], v)
      BY <1>2, <3>1, <3>2, OverOrders
    <3> QED
      BY <3>1, <3>3
  <2> HIDE DEF S
  <2>3. Upward(ancestor, v) \subseteq S
    BY <1>1, <2>1, <2>2, UpwardStays
  <2> QED
    BY <1>a, <2>3 DEF S
<1>6. ASSUME NEW y \in Reached, Over(y, v), dfnum(r) < dfnum(y)
      PROVE  \E b \in Linked(v) : Over(y, b) /\ dfnum(ancestor[b]) < dfnum(y)
  <2> DEFINE S == {x \in U : dfnum(y) <= dfnum(x)}
  <2>1. 0 \notin S /\ v \in S
    BY <1>1, <1>2, <1>3, <1>5, <1>6, OverNumbers
  <2>2. \E x \in S : ancestor[x] # 0 /\ ancestor[x] \notin S
    <3> SUFFICES ASSUME \A x \in S : ancestor[x] # 0 => ancestor[x] \in S PROVE FALSE
      OBVIOUS
    <3> HIDE DEF S
    <3>1. Upward(ancestor, v) \subseteq S
      BY <1>1, <2>1, UpwardStays
    <3>2. dfnum(y) <= dfnum(r)
      BY <1>3, <1>a, <3>1 DEF S
    <3> QED
      BY <1>2, <1>3, <1>6, <3>2
  <2>3. PICK b \in S : ancestor[b] # 0 /\ ancestor[b] \notin S
    BY <2>2
  <2>4. b \in U /\ b \in Linked(v) /\ b \in Reached /\ Over(b, v) /\ dfnum(y) <= dfnum(b)
    BY <1>4, <1>5, <2>3
  <2>5. dfnum(ancestor[b]) < dfnum(y)
    <3>1. ancestor[b] \in U /\ ancestor[b] \in Reached
      BY <1>3, <1>5, <2>3, <2>4
    <3>2. ~(dfnum(y) <= dfnum(ancestor[b]))
      BY <2>3, <3>1
    <3> QED
      BY <1>2, <3>1, <3>2
  <2>6. dfnum(b) <= dfnum(v)
    BY <1>1, <2>4, OverNumbers
  <2>7. Over(y, b)
    BY <1>1, <1>6, <2>4, <2>6 DEF Interval
  <2> QED
    BY <2>4, <2>5, <2>7
<1>7. /\ \E b \in Linked(v) : BestLabel(v) = label[b]
      /\ \A c \in Linked(v) : SemiNumber(BestLabel(v)) <= SemiNumber(label[c])
      /\ BestLabel(v) \in Reached
  BY BestLabelFound
<1>8. \A b \in Reached : SemiNumber(b) \in Nat
  BY <1>2 DEF SemiNumber, LinkInv, SemiInv, IsAbove
<1>9. ASSUME NEW y \in Reached, Over(y, v), dfnum(r) < dfnum(y)
      PROVE  ~Open(y) /\ ancestor[y] # 0 /\ SemiNumber(BestLabel(v)) <= SemiNumber(y)
  <2>1. PICK b \in Linked(v) : Over(y, b) /\ dfnum(ancestor[b]) < dfnum(y)
    BY <1>6, <1>9
  <2>2. Compressed(b) /\ b \in Reached
    BY <1>3, <2>1 DEF ForestInv
  <2>3. ~Open(y) /\ SemiNumber(label[b]) <= SemiNumber(y) /\ label[b] \in Reached
    BY <2>1, <2>2 DEF Compressed, LinkInv, LabelInv
  <2>4. ancestor[y] # 0
    BY <2>3 DEF ForestInv
  <2>5. SemiNumber(BestLabel(v)) <= SemiNumber(label[b])
    BY <1>7, <2>1
  <2>6. SemiNumber(BestLabel(v)) <= SemiNumber(y)
    <3>1. PICK m, n, k : m = SemiNumber(BestLabel(v)) /\ n = SemiNumber(label[b]) /\ k = SemiNumber(y)
      OBVIOUS
    <3>2. m \in Nat /\ n \in Nat /\ k \in Nat /\ m <= n /\ n <= k
      BY <1>7, <1>8, <2>3, <2>5, <3>1
    <3>3. m <= k
      BY <3>2
    <3> QED
      BY <3>1, <3>3
  <2> QED
    BY <2>3, <2>4, <2>6
<1>10. Over(r, v)
  BY <1>3, <1>5
<1>11. \A b \in Linked(v) : b \in Reached /\ Over(b, v)
  BY <1>4, <1>5
<1>12. Over(BestLabel(v), v) /\ dfnum(r) < dfnum(BestLabel(v))
  <2>1. PICK b \in Linked(v) : BestLabel(v) = label[b]
    BY <1>7
  <2>2. b \in Reached /\ b \in Blocks /\ Over(b, v) /\ Compressed(b) /\ ancestor[b] # 0
    BY <1>2, <1>3, <1>11 DEF ForestInv
  <2>3. Over(BestLabel(v), v)
    BY <1>2, <1>7, <2>1, <2>2, OverOrders DEF Compressed
  <2>4. ancestor[b] \in Reached
    BY <1>1, <2>2 DEF Rises, IsAbove
  <2>5. dfnum(r) <= dfnum(ancestor[b])
    <3> SUFFICES ASSUME dfnum(ancestor[b]) < dfnum(r) PROVE FALSE
      BY <1>2, <1>3, <2>4
    <3>1. dfnum(r) <= dfnum(b) /\ dfnum(b) <= dfnum(v)
      <4>1. dfnum(r) < dfnum(b)
        BY <1>3, <2>1 DEF IsAbove
      <4> QED
        BY <1>1, <1>2, <1>3, <2>2, <4>1, OverNumbers
    <3>2. Over(r, b)
      BY <1>1, <1>3, <1>10, <2>2, <3>1 DEF Interval
    <3>3. ~Open(r)
      BY <1>3, <2>2, <3>2 DEF Compressed
    <3> QED
      BY <1>3, <3>3 DEF ForestInv
  <2>6. dfnum(ancestor[b]) < dfnum(BestLabel(v))
    BY <2>1, <2>2 DEF Compressed
  <2>7. dfnum(r) < dfnum(BestLabel(v))
    <3>1. PICK m, n, k : m = dfnum(r) /\ n = dfnum(ancestor[b]) /\ k = dfnum(BestLabel(v))
      OBVIOUS
    <3>2. m \in Nat /\ n \in Nat /\ k \in Nat /\ m <= n /\ n < k
      BY <1>2, <1>3, <1>7, <2>4, <2>5, <2>6, <3>1
    <3>3. m < k
      BY <3>2
    <3> QED
      BY <3>1, <3>3
  <2> QED
    BY <2>3, <2>7
<1> QED
  BY <1>9, <1>10, <1>11, <1>12, <1>a

(* A block linked between has the same root.                               *)
LEMMA SameRoot ==
    ASSUME TypeInv, LinkInv, ShapeInv, ForestInv, NEW v \in Reached, ancestor[v] # 0,
           NEW b \in Linked(v)
    PROVE  b \in Reached /\ ancestor[b] # 0 /\ Root(b) = Root(v)
<1>a. PICK r, q : r = Root(v) /\ q = Root(b)
  OBVIOUS
<1>1. /\ Searched /\ Interval /\ succ \in Graphs /\ Numbered
  BY DEF TypeInv, LinkInv, ShapeInv, Searched
<1>2. /\ Reached \subseteq Blocks
      /\ \A x \in Reached : dfnum(x) \in Nat /\ vertex[dfnum(x)] = x
  BY <1>1, Numbers
<1>3. /\ r \in Reached /\ ancestor[r] = 0 /\ b \in Reached /\ ancestor[b] # 0
      /\ dfnum(r) < dfnum(b)
  BY <1>a, RootFound DEF IsAbove
<1>4. q \in Reached /\ ancestor[q] = 0
  BY <1>3, <1>a, RootFound
<1>5. /\ Over(r, v) /\ Over(b, v)
      /\ \A y \in Reached : Over(y, v) /\ dfnum(r) < dfnum(y) => ancestor[y] # 0
  BY <1>a, BestIsLowest
<1>6. /\ Over(q, b)
      /\ \A y \in Reached : Over(y, b) /\ dfnum(q) < dfnum(y) => ancestor[y] # 0
  BY <1>3, <1>a, BestIsLowest
<1>7. Over(q, v)
  BY <1>2, <1>3, <1>4, <1>5, <1>6, OverOrders
<1>8. Over(r, b)
  <2>1. dfnum(b) <= dfnum(v)
    BY <1>1, <1>5, OverNumbers
  <2>2. dfnum(r) <= dfnum(b)
    BY <1>2, <1>3
  <2> QED
    BY <1>1, <1>3, <1>5, <2>1, <2>2 DEF Interval
<1>9. ~(dfnum(r) < dfnum(q)) /\ ~(dfnum(q) < dfnum(r))
  BY <1>3, <1>4, <1>5, <1>6, <1>7, <1>8
<1>10. dfnum(r) = dfnum(q)
  BY <1>2, <1>3, <1>4, <1>9
<1>11. r = q
  BY <1>2, <1>3, <1>4, <1>10
<1> QED
  BY <1>3, <1>11, <1>a

(* So compression leaves links and labels like those it finds.             *)
LEMMA EvalKeepsForest ==
    ASSUME TypeInv, LinkInv, ShapeInv, ForestInv, NEW v \in Reached,
           NEW b \in Reached, Eval(v).ancestor[b] # 0
    PROVE  /\ Over(Eval(v).ancestor[b], b)
           /\ Over(Eval(v).label[b], b)
           /\ dfnum(Eval(v).ancestor[b]) < dfnum(Eval(v).label[b])
           /\ \A x \in Reached :
                Over(x, b) /\ dfnum(Eval(v).ancestor[b]) < dfnum(x) =>
                  ~Open(x) /\ SemiNumber(Eval(v).label[b]) <= SemiNumber(x)
<1>1. b \in Blocks
  BY Numbers DEF TypeInv
<1>2. CASE ancestor[v] # 0 /\ b \in Linked(v)
  <2>1. Eval(v).ancestor[b] = Root(v) /\ Eval(v).label[b] = BestLabel(b)
    BY <1>1, <1>2 DEF Eval
  <2>2. b \in Reached /\ ancestor[b] # 0 /\ Root(b) = Root(v)
    BY <1>2, SameRoot
  <2>3. /\ Over(Root(b), b) /\ Over(BestLabel(b), b)
        /\ dfnum(Root(b)) < dfnum(BestLabel(b))
        /\ \A y \in Reached : Over(y, b) /\ dfnum(Root(b)) < dfnum(y) =>
             ~Open(y) /\ SemiNumber(BestLabel(b)) <= SemiNumber(y)
    BY <2>2, BestIsLowest
  <2> QED
    BY <2>1, <2>2, <2>3
<1>3. CASE ~(ancestor[v] # 0 /\ b \in Linked(v))
  <2>1. Eval(v).ancestor[b] = ancestor[b] /\ Eval(v).label[b] = label[b]
    BY <1>1, <1>3 DEF Eval
  <2>2. Compressed(b)
    BY <2>1 DEF ForestInv
  <2> QED
    BY <2>1, <2>2 DEF Compressed
<1> QED
  BY <1>2, <1>3

-----------------------------------------------------------------------------
(* Compressed in the next state, with the link and the label named.        *)
LEMMA CompressedNext ==
    ASSUME NEW b, NEW a, NEW n, a = ancestor'[b], n = label'[b],
           Over(a, b)', Over(n, b)', dfnum(a)' < dfnum(n)',
           \A x \in Reached' : Over(x, b)' /\ dfnum(a)' < dfnum(x)' =>
             ~Open(x)' /\ SemiNumber(n)' <= SemiNumber(x)'
    PROVE  Compressed(b)'
<1>1. dfnum(a)' = dfnum(ancestor[b])' /\ dfnum(n)' = dfnum(label[b])'
  BY Zenon DEF dfnum
<1>2. SemiNumber(n)' = SemiNumber(label[b])'
  BY Zenon DEF SemiNumber, dfnum
<1>3. (Over(a, b)' <=> Over(ancestor[b], b)') /\ (Over(n, b)' <=> Over(label[b], b)')
  BY Zenon DEF Over, GoesUp
<1> QED
  BY <1>1, <1>2, <1>3 DEF Compressed

(* ForestInv and what is linked are carried over to the next state where   *)
(* the forest is compressed: only an open block may get another value in   *)
(* semi.                                                                   *)
LEMMA ForestCarries ==
    ASSUME TypeInv, LinkInv, ShapeInv, ForestInv, NEW v \in Reached,
           label' = Eval(v).label, ancestor' = Eval(v).ancestor,
           succ' = succ, vertex' = vertex, parent' = parent, i' = i, pc' = pc,
           \A b \in Reached : ~Open(b) => semi'[b] = semi[b]
    PROVE  ForestInv'
<1>1. PICK N, A, S : N = label' /\ A = ancestor' /\ S = semi'
  OBVIOUS
<1>2. /\ Reached' = Reached /\ Reached \subseteq Blocks
      /\ \A b : dfnum(b)' = dfnum(b)
      /\ \A b : Open(b)' <=> Open(b)
      /\ \A a, b : Over(a, b)' <=> Over(a, b)
  BY SameTree, SameOpen, SameShape, Numbers DEF TypeInv
<1>3. N = Eval(v).label /\ A = Eval(v).ancestor
  BY <1>1
<1>4. /\ \A b \in Blocks : A[b] = 0 <=> ancestor[b] = 0
      /\ \A b \in Reached : /\ N[b] \in Reached
                            /\ ancestor[b] # 0 => ancestor[N[b]] # 0
  BY <1>3, EvalCompresses
<1>5. \A b \in Reached : A[b] # 0 =>
        /\ Over(A[b], b) /\ Over(N[b], b) /\ dfnum(A[b]) < dfnum(N[b])
        /\ \A x \in Reached : Over(x, b) /\ dfnum(A[b]) < dfnum(x) =>
             ~Open(x) /\ SemiNumber(N[b]) <= SemiNumber(x)
  BY <1>3, EvalKeepsForest
<1>6. ASSUME NEW b \in Reached, ~Open(b)
      PROVE  \E n : n = S[b] /\ SemiNumber(b) = dfnum(n) /\ SemiNumber(b)' = dfnum(n)'
  <2>1. PICK n : n = S[b] /\ n = semi[b]
    BY <1>1, <1>6
  <2>2. SemiNumber(b) = dfnum(n)
    BY <2>1 DEF SemiNumber
  <2>3. SemiNumber(b)' = dfnum(n)'
    BY <1>1, <2>1, Zenon DEF SemiNumber, dfnum
  <2> QED
    BY <2>1, <2>2, <2>3
<1>7. \A b \in Reached : ~Open(b) => SemiNumber(b)' = SemiNumber(b)
  BY <1>2, <1>6
<1>8. \A b \in Reached' : ~Open(b)' => ancestor'[b] # 0
  BY <1>1, <1>2, <1>4 DEF ForestInv
<1>9. ASSUME NEW b \in Reached', ancestor'[b] # 0 PROVE Compressed(b)'
  <2>1. PICK a, n : a = A[b] /\ n = N[b]
    OBVIOUS
  <2>2. /\ b \in Reached /\ a # 0 /\ n \in Reached
        /\ Over(a, b) /\ Over(n, b) /\ dfnum(a) < dfnum(n)
        /\ \A x \in Reached : Over(x, b) /\ dfnum(a) < dfnum(x) =>
             ~Open(x) /\ SemiNumber(n) <= SemiNumber(x)
    BY <1>1, <1>2, <1>4, <1>5, <1>9, <2>1
  <2>3. ~Open(n)
    <3>1. ancestor[n] # 0
      BY <1>1, <1>2, <1>4, <1>9, <2>1, <2>2
    <3> QED
      BY <2>2, <3>1 DEF LinkInv, AncestorInv
  <2>4. /\ Over(a, b)' /\ Over(n, b)' /\ dfnum(a)' < dfnum(n)'
        /\ \A x \in Reached' : Over(x, b)' /\ dfnum(a)' < dfnum(x)' =>
             ~Open(x)' /\ SemiNumber(n)' <= SemiNumber(x)'
    BY <1>2, <1>7, <2>2, <2>3
  <2>5. a = ancestor'[b] /\ n = label'[b]
    BY <1>1, <2>1
  <2> QED
    BY <2>4, <2>5, CompressedNext
<1> QED
  BY <1>8, <1>9 DEF ForestInv

(* A block keeps its semi-dominator.                                       *)
LEMMA SemiCarries ==
    ASSUME succ' = succ, vertex' = vertex, parent' = parent,
           NEW b \in Reached, semi'[b] = semi[b], IsSemi(b)
    PROVE  IsSemi(b)'
<1>1. /\ Reached' = Reached
      /\ \A x : dfnum(x)' = dfnum(x)
  BY SameTree
<1>2. \A x : Later(x)' = Later(x)
  BY <1>1 DEF Later
<1>3. \A x, y : Precedes(x, y)' <=> Precedes(x, y)
  BY <1>1, <1>2 DEF Precedes, Reaches, Inside
<1>4. PICK n : n = semi'[b] /\ n = semi[b]
  OBVIOUS
<1>5. n \in Reached /\ Precedes(n, b) /\ \A v \in Reached : Precedes(v, b) => dfnum(n) <= dfnum(v)
  BY <1>4 DEF IsSemi
<1>6. n \in Reached' /\ Precedes(n, b)' /\ \A v \in Reached' : Precedes(v, b)' => dfnum(n)' <= dfnum(v)'
  BY <1>1, <1>3, <1>5
<1>7. dfnum(n)' = dfnum(semi[b])'
  BY <1>4, Zenon DEF dfnum
<1>8. Precedes(n, b)' => Precedes(semi[b], b)'
  BY <1>4, Zenon DEF Precedes
<1> QED
  BY <1>4, <1>6, <1>7, <1>8 DEF IsSemi

(* What Eval finds from a predecessor: a semi-dominator the definition     *)
(* allows the vertex, no lower block being offered by that predecessor.    *)
LEMMA EvalOffers ==
    ASSUME TypeInv, LinkInv, ShapeInv, ForestInv, pc = "semi",
           \A b \in Reached : ~Open(b) => IsSemi(b),
           NEW w, w = vertex[i], NEW v \in Reached, w \in Range(succ[v]),
           NEW x, x = semi[Eval(v).u]
    PROVE  /\ x \in Reached
           /\ dfnum(x) < SemiNumber(w) => Precedes(x, w)
           /\ dfnum(v) < i => dfnum(x) <= dfnum(v)
           /\ \A y \in Reached : i < dfnum(y) /\ Over(y, v) => dfnum(x) <= SemiNumber(y)
<1>1. /\ Searched /\ Interval /\ Forward /\ succ \in Graphs /\ Numbered
  BY DEF TypeInv, LinkInv, ShapeInv, Searched
<1>2. /\ Reached \subseteq Blocks /\ i \in Nat /\ w \in Reached /\ dfnum(w) = i
      /\ \A b \in Reached : dfnum(b) \in Nat /\ vertex[dfnum(b)] = b
      /\ \A b \in Reached : Open(b) <=> dfnum(b) <= i
  <2>1. i \in DOMAIN vertex /\ i \in Nat
    BY DEF LinkInv, TypeInv
  <2>2. \A b \in Reached : dfnum(b) \in Nat
    BY <1>1, Numbers
  <2>3. \A b \in Reached : Open(b) <=> dfnum(b) <= i
    BY <2>1, <2>2 DEF Open
  <2> QED
    BY <1>1, <2>1, <2>3, Numbers
<1>3. x \in Reached
  BY EvalSemi
<1>4. CASE ancestor[v] = 0
  <2>1. dfnum(v) <= i
    BY <1>2, <1>4 DEF ForestInv
  <2>2. x = semi[v]
    BY <1>4, EvalFinds
  <2>3. \A y \in Reached : ~(i < dfnum(y) /\ Over(y, v))
    <3> SUFFICES ASSUME NEW y \in Reached, i < dfnum(y), Over(y, v) PROVE FALSE
      OBVIOUS
    <3>1. dfnum(y) <= dfnum(v)
      BY <1>1, OverNumbers
    <3> QED
      BY <1>2, <2>1, <3>1
  <2>4. CASE v = w
    BY <1>2, <1>3, <2>2, <2>3, <2>4 DEF SemiNumber
  <2>5. CASE v # w
    <3>1. dfnum(v) # i
      BY <1>2, <2>5
    <3>2. dfnum(v) < i
      BY <1>2, <2>1, <3>1
    <3>3. x = v
      BY <2>2, <3>2 DEF LinkInv, SemiInv
    <3>4. Precedes(x, w)
      BY <3>3, EdgePrecedes
    <3> QED
      BY <1>2, <1>3, <2>3, <3>3, <3>4
  <2> QED
    BY <2>4, <2>5
<1>5. CASE ancestor[v] # 0
  <2>a. PICK r, m, u : r = Root(v) /\ m = BestLabel(v) /\ u = Eval(v).u
    OBVIOUS
  <2>1. /\ Over(r, v) /\ Over(m, v) /\ dfnum(r) < dfnum(m)
        /\ \A y \in Reached : Over(y, v) /\ dfnum(r) < dfnum(y) =>
             ~Open(y) /\ SemiNumber(m) <= SemiNumber(y)
    BY <1>5, <2>a, BestIsLowest
  <2>2. r \in Reached /\ ancestor[r] = 0 /\ r # v /\ label[r] = r
    BY <1>5, <2>a, RootFound DEF LinkInv, LabelInv
  <2>3. m \in Reached
    BY <1>5, <2>a, BestLabelFound
  <2>4. dfnum(r) <= i
    BY <1>2, <2>2 DEF ForestInv
  <2>5. i < dfnum(m) /\ i < dfnum(v)
    <3>1. ~Open(m)
      BY <2>1, <2>3
    <3>2. ~Open(v)
      BY <1>5 DEF LinkInv, AncestorInv
    <3> QED
      BY <1>2, <2>3, <3>1, <3>2
  <2>6. u = IF SemiNumber(r) < SemiNumber(m) THEN r ELSE m
    BY <1>5, <2>2, <2>a DEF Eval
  <2>7. SemiNumber(r) \in Nat /\ SemiNumber(m) \in Nat /\ SemiNumber(u) = dfnum(x)
    <3>1. \A b \in Reached : semi[b] \in Reached
      BY DEF LinkInv, SemiInv, IsAbove
    <3> QED
      BY <1>2, <2>2, <2>3, <2>a, <3>1 DEF SemiNumber
  <2>8. dfnum(x) <= SemiNumber(m)
    <3>1. CASE SemiNumber(r) < SemiNumber(m)
      BY <2>6, <2>7, <3>1
    <3>2. CASE ~(SemiNumber(r) < SemiNumber(m))
      BY <2>6, <2>7, <3>2
    <3> QED
      BY <3>1, <3>2
  <2>9. ASSUME NEW y \in Reached, i < dfnum(y), Over(y, v) PROVE dfnum(x) <= SemiNumber(y)
    <3>1. dfnum(r) < dfnum(y)
      BY <1>2, <2>2, <2>4, <2>9
    <3>2. SemiNumber(m) <= SemiNumber(y)
      BY <2>1, <2>9, <3>1
    <3>3. SemiNumber(y) \in Nat
      BY <1>2, <2>9 DEF SemiNumber, LinkInv, SemiInv, IsAbove
    <3>4. PICK e, f, g : e = dfnum(x) /\ f = SemiNumber(m) /\ g = SemiNumber(y)
      OBVIOUS
    <3>5. e \in Nat /\ f \in Nat /\ g \in Nat /\ e <= f /\ f <= g
      BY <1>2, <1>3, <2>7, <2>8, <3>2, <3>3, <3>4
    <3>6. e <= g
      BY <3>5
    <3> QED
      BY <3>4, <3>6
  <2>10. ASSUME dfnum(x) < SemiNumber(w) PROVE Precedes(x, w)
    <3>1. CASE u = m
      <4>1. IsSemi(m) /\ x = semi[m]
        BY <2>1, <2>3, <2>a, <3>1
      <4>2. Precedes(x, m)
        BY <4>1 DEF IsSemi
      <4> QED
        BY <1>1, <1>2, <2>1, <2>3, <2>5, <4>2, PrecedesThrough
    <3>2. CASE u = r
      <4>1. x = semi[r]
        BY <2>a, <3>2
      <4>2. r # w
        BY <2>10, <4>1, <1>2, <1>3 DEF SemiNumber
      <4>3. dfnum(r) # i
        BY <1>2, <2>2, <4>2
      <4>4. dfnum(r) < i
        BY <1>2, <2>2, <2>4, <4>3
      <4>5. x = r
        BY <2>2, <4>1, <4>4 DEF LinkInv, SemiInv
      <4>6. PICK c \in Reached : parent[c] = r /\ Over(c, v)
        BY <1>1, <2>1, <2>2, ChildOver
      <4>7. dfnum(r) < dfnum(c) /\ c \in Range(succ[r])
        <5>1. parent[c] # 0 /\ c \in Blocks
          BY <1>1, <1>2, <2>2, <4>6, GraphShape
        <5> QED
          BY <1>1, <4>6, <5>1, ParentAbove
      <4>8. i < dfnum(c)
        BY <1>2, <2>1, <4>6, <4>7
      <4>9. Precedes(r, c)
        BY <2>2, <4>7, EdgePrecedes
      <4> QED
        BY <1>1, <1>2, <4>5, <4>6, <4>8, <4>9, PrecedesThrough
    <3> QED
      BY <2>6, <3>1, <3>2
  <2>11. ~(dfnum(v) < i)
    BY <1>2, <2>5
  <2> QED
    BY <1>3, <2>9, <2>10, <2>11
<1> QED
  BY <1>4, <1>5

(* A predecessor is looked at: what it offers is no lower than semi then.  *)
LEMMA PredecessorIsSemi == ClimbInv /\ SemiDominatorInv /\ EvalPredecessor => SemiDominatorInv'
<1> SUFFICES ASSUME ClimbInv, SemiDominatorInv, EvalPredecessor PROVE SemiDominatorInv'
  OBVIOUS
<1>a. PICK w, v, x : w = vertex[i] /\ v = Min(LeftPreds) /\ x = semi[Eval(v).u]
  OBVIOUS
<1>b. PICK S, s, n : S = semi' /\ s = semi[w] /\ n = S[w]
  OBVIOUS
<1>1. /\ TypeInv /\ LinkInv /\ ShapeInv /\ ForestInv /\ OfferInv
      /\ Numbered /\ succ \in Graphs /\ i \in DOMAIN vertex
      /\ \A b \in Reached : ~Open(b) => IsSemi(b)
  BY DEF ClimbInv, SemiDominatorInv, EvalPredecessor, TypeInv, LinkInv
<1>2. /\ pc = "semi" /\ pc' = "semi" /\ i > 1 /\ LeftPreds # {}
      /\ IF v \in Reached
         THEN /\ S = IF SemiNumber(Eval(v).u) < SemiNumber(w)
                     THEN [semi EXCEPT ![w] = x] ELSE semi
              /\ label' = Eval(v).label
              /\ ancestor' = Eval(v).ancestor
         ELSE S = semi /\ label' = label /\ ancestor' = ancestor
      /\ p' = v
      /\ UNCHANGED <<succ, vertex, parent, i>>
  BY <1>a, <1>b DEF EvalPredecessor, graph
<1>3. /\ Reached \subseteq Blocks /\ w \in Reached /\ dfnum(w) = i /\ i \in Nat /\ p \in Nat
      /\ \A b \in Reached : dfnum(b) \in Nat
      /\ Blocks \subseteq Nat
      /\ \A b \in Reached : semi[b] \in Reached
  <2>1. /\ Reached \subseteq Blocks
        /\ \A k \in DOMAIN vertex : vertex[k] \in Reached /\ dfnum(vertex[k]) = k
        /\ \A b \in Reached : dfnum(b) \in 1 .. Len(vertex)
    BY <1>1, Numbers
  <2>2. Blocks \subseteq Nat
    BY <1>1, GraphShape
  <2>3. \A b \in Reached : semi[b] \in Reached
    BY <1>1 DEF LinkInv, SemiInv, IsAbove
  <2> QED
    BY <1>1, <1>a, <2>1, <2>2, <2>3 DEF TypeInv
<1>4. v \in Preds(w) /\ \A y \in Preds(w) : y <= v => y <= p \/ y = v
  <2>1. LeftPreds \subseteq Nat /\ LeftPreds = {y \in Preds(w) : y > p}
    BY <1>3, <1>a DEF LeftPreds, Preds
  <2>2. v \in LeftPreds /\ \A y \in LeftPreds : v <= y
    BY <1>2, <1>a, <2>1, MinTaken
  <2>3. ASSUME NEW y \in Preds(w), y <= v PROVE y <= p \/ y = v
    <3>1. y \in Nat /\ v \in Nat
      BY <1>3, <2>1, <2>2 DEF Preds
    <3>2. CASE y > p
      <4>1. v <= y
        BY <2>1, <2>2, <3>2
      <4> QED
        BY <2>3, <3>1, <4>1
    <3> QED
      BY <1>3, <3>1, <3>2
  <2> QED
    BY <2>1, <2>2, <2>3
<1>5. v \in Blocks /\ w \in Range(succ[v]) /\ w \in Blocks
  BY <1>3, <1>4 DEF Preds
<1>6. /\ Reached' = Reached
      /\ \A b : dfnum(b)' = dfnum(b)
      /\ \A b : Open(b)' <=> Open(b)
      /\ \A a, b : Over(a, b)' <=> Over(a, b)
      /\ ShapeInv'
  BY <1>1, <1>2, SameTree, SameOpen, SameShape
<1>7. /\ SemiNumber(w) = dfnum(s) /\ s \in Reached
      /\ SemiNumber(Eval(v).u) = dfnum(x)
  BY <1>3, <1>a, <1>b DEF SemiNumber
<1>8. /\ \A b \in Blocks : b # w => S[b] = semi[b]
      /\ n \in Reached /\ dfnum(n) <= dfnum(s)
      /\ n = s \/ Precedes(n, w)
      /\ v \in Reached => /\ dfnum(v) < i => dfnum(n) <= dfnum(v)
                          /\ \A y \in Reached : i < dfnum(y) /\ Over(y, v) => dfnum(n) <= SemiNumber(y)
  <2>1. CASE v \notin Reached
    BY <1>2, <1>3, <1>7, <1>b, <2>1
  <2>2. CASE v \in Reached
    <3>1. /\ x \in Reached
          /\ dfnum(x) < SemiNumber(w) => Precedes(x, w)
          /\ dfnum(v) < i => dfnum(x) <= dfnum(v)
          /\ \A y \in Reached : i < dfnum(y) /\ Over(y, v) => dfnum(x) <= SemiNumber(y)
      BY <1>1, <1>2, <1>5, <1>a, <2>2, EvalOffers
    <3>2. CASE dfnum(x) < dfnum(s)
      <4>1. S = [semi EXCEPT ![w] = x] /\ semi \in [Blocks -> Blocks]
        BY <1>1, <1>2, <1>7, <2>2, <3>2 DEF TypeInv
      <4>2. n = x /\ \A b \in Blocks : b # w => S[b] = semi[b]
        BY <1>5, <1>b, <4>1
      <4>3. dfnum(x) <= dfnum(s)
        BY <1>3, <1>7, <3>1, <3>2
      <4> QED
        BY <1>7, <3>1, <3>2, <4>2, <4>3
    <3>3. CASE ~(dfnum(x) < dfnum(s))
      <4>1. S = semi /\ n = s
        BY <1>2, <1>7, <1>b, <2>2, <3>3
      <4>2. dfnum(n) <= dfnum(x) /\ dfnum(n) \in Nat /\ dfnum(x) \in Nat
        BY <1>3, <1>7, <3>1, <3>3, <4>1
      <4>3. \A k \in Nat : dfnum(x) <= k => dfnum(n) <= k
        BY <4>2
      <4>4. \A y \in Reached : SemiNumber(y) \in Nat
        BY <1>3 DEF SemiNumber
      <4> QED
        BY <1>3, <1>7, <2>2, <3>1, <4>1, <4>3, <4>4
    <3> QED
      BY <3>2, <3>3
  <2> QED
    BY <2>1, <2>2
<1>9. \A b \in Reached : ~Open(b) => b # w /\ S[b] = semi[b]
  <2>1. Open(w)
    BY <1>2, <1>3 DEF Open
  <2> QED
    BY <1>3, <1>8, <2>1
<1>10. ForestInv'
  <2>1. CASE v \in Reached
    BY <1>1, <1>2, <1>9, <1>b, <2>1, ForestCarries
  <2>2. CASE v \notin Reached
    <3>1. semi' = semi
      BY <1>2, <1>b, <2>2
    <3>2. \A b : Compressed(b)' <=> Compressed(b)
      BY <1>2, <1>6, <2>2, <3>1 DEF Compressed, Over, GoesUp, SemiNumber, dfnum, Reached, Blocks, Open
    <3> QED
      BY <1>1, <1>2, <1>6, <2>2, <3>2 DEF ForestInv
  <2> QED
    BY <2>1, <2>2
<1>11. \A b \in Reached' : ~Open(b)' => IsSemi(b)'
  BY <1>1, <1>2, <1>6, <1>9, <1>b, SemiCarries
<1>12. OfferInv'
  <2>1. n = w \/ Precedes(n, w)
    BY <1>1, <1>8, <1>a, <1>b DEF OfferInv
  <2>2. ASSUME NEW y \in Reached, w \in Range(succ[y]), y <= v
        PROVE  /\ dfnum(y) < i => dfnum(n) <= dfnum(y)
               /\ \A z \in Reached : i < dfnum(z) /\ Over(z, y) => dfnum(n) <= SemiNumber(z)
    <3>1. y \in Preds(w)
      BY <1>3, <2>2 DEF Preds
    <3>2. CASE y = v
      BY <1>8, <2>2, <3>2
    <3>3. CASE y <= p
      <4>1. /\ dfnum(y) < i => SemiNumber(w) <= dfnum(y)
            /\ \A z \in Reached : i < dfnum(z) /\ Over(z, y) => SemiNumber(w) <= SemiNumber(z)
        BY <1>1, <1>a, <2>2, <3>3 DEF OfferInv
      <4>2. dfnum(n) \in Nat /\ dfnum(s) \in Nat /\ dfnum(n) <= dfnum(s) /\ SemiNumber(w) = dfnum(s)
        BY <1>3, <1>7, <1>8
      <4>3. \A k \in Nat : dfnum(s) <= k => dfnum(n) <= k
        BY <4>2
      <4>4. \A z \in Reached : SemiNumber(z) \in Nat
        BY <1>3 DEF SemiNumber
      <4> QED
        BY <1>3, <2>2, <4>1, <4>2, <4>3, <4>4
    <3> QED
      BY <1>4, <2>2, <3>1, <3>2, <3>3
  <2>3. SemiNumber(w)' = dfnum(n)' /\ n = semi'[w]
    BY <1>b, Zenon DEF SemiNumber, dfnum
  <2>4. \A z \in Reached : i < dfnum(z) => SemiNumber(z)' = SemiNumber(z)
    <3> SUFFICES ASSUME NEW z \in Reached, i < dfnum(z) PROVE SemiNumber(z)' = SemiNumber(z)
      OBVIOUS
    <3>1. ~Open(z)
      BY <1>3 DEF Open
    <3>2. PICK m : m = semi[z] /\ m = semi'[z]
      BY <1>9, <1>b, <3>1
    <3>3. SemiNumber(z)' = dfnum(m)' /\ SemiNumber(z) = dfnum(m)
      BY <3>2, Zenon DEF SemiNumber, dfnum
    <3> QED
      BY <1>6, <3>3
  <2>5. Precedes(n, w)' <=> Precedes(n, w)
    <3>1. \A y : Later(y)' = Later(y)
      BY <1>6 DEF Later
    <3> QED
      BY <1>2, <1>6, <3>1 DEF Precedes, Reaches, Inside
  <2>6. semi'[w] = w \/ Precedes(semi[w], w)'
    <3>1. Precedes(n, w)' => Precedes(semi[w], w)'
      BY <2>3, Zenon DEF Precedes
    <3> QED
      BY <2>1, <2>3, <2>5, <3>1
  <2>7. ASSUME NEW y \in Reached', w \in Range(succ'[y]), y <= p'
        PROVE  /\ dfnum(y)' < i' => SemiNumber(w)' <= dfnum(y)'
               /\ \A z \in Reached' : i' < dfnum(z)' /\ Over(z, y)' => SemiNumber(w)' <= SemiNumber(z)'
    <3>1. /\ dfnum(y) < i => dfnum(n) <= dfnum(y)
          /\ \A z \in Reached : i < dfnum(z) /\ Over(z, y) => dfnum(n) <= SemiNumber(z)
      BY <1>2, <1>6, <2>2, <2>7
    <3> QED
      BY <1>2, <1>6, <2>3, <2>4, <3>1
  <2>8. w = vertex'[i']
    BY <1>2, <1>a
  <2> QED
    BY <2>6, <2>7, <2>8 DEF OfferInv, Precedes, SemiNumber, dfnum
<1> QED
  BY <1>2, <1>6, <1>10, <1>11, <1>12 DEF SemiDominatorInv

(* A vertex is linked: all its predecessors have made their offers, and    *)
(* what precedes it does so by an edge or through a later block.           *)
LEMMA LinkIsSemi == ClimbInv /\ ClimbInv' /\ SemiDominatorInv /\ Link => SemiDominatorInv'
<1> SUFFICES ASSUME ClimbInv, ClimbInv', SemiDominatorInv, Link PROVE SemiDominatorInv'
  OBVIOUS
<1>a. PICK w, a, s, A : w = vertex[i] /\ a = parent[w] /\ s = semi[w] /\ A = ancestor'
  OBVIOUS
<1>1. /\ TypeInv /\ LinkInv /\ ShapeInv /\ ForestInv /\ OfferInv
      /\ Searched /\ Interval /\ Forward
      /\ Numbered /\ succ \in Graphs /\ i \in DOMAIN vertex
      /\ \A b \in Reached : ~Open(b) => IsSemi(b)
  BY DEF ClimbInv, SemiDominatorInv, Link, TypeInv, LinkInv, ShapeInv, Searched
<1>2. /\ pc = "semi" /\ pc' = "bucket" /\ i > 1 /\ LeftPreds = {}
      /\ A = [ancestor EXCEPT ![w] = a]
      /\ UNCHANGED <<succ, vertex, parent, semi, label, i, p>>
  BY <1>a DEF Link, graph
<1>3. /\ Reached \subseteq Blocks /\ w \in Reached /\ w \in Blocks /\ dfnum(w) = i
      /\ i \in Nat /\ p \in Nat
      /\ \A b \in Reached : dfnum(b) \in Nat /\ (dfnum(b) = i => b = w)
      /\ Blocks \subseteq Nat /\ 0 \notin Blocks
      /\ \A b \in Reached : semi[b] \in Reached
  <2>1. /\ Reached \subseteq Blocks
        /\ \A k \in DOMAIN vertex : vertex[k] \in Reached /\ dfnum(vertex[k]) = k
        /\ \A b \in Reached : dfnum(b) \in 1 .. Len(vertex) /\ vertex[dfnum(b)] = b
    BY <1>1, Numbers
  <2>2. Blocks \subseteq Nat /\ 0 \notin Blocks
    BY <1>1, GraphShape
  <2>3. \A b \in Reached : semi[b] \in Reached
    BY <1>1 DEF LinkInv, SemiInv, IsAbove
  <2>4. w \in Reached /\ dfnum(w) = i
    BY <1>1, <1>a, <2>1
  <2> QED
    BY <1>1, <1>a, <2>1, <2>2, <2>3, <2>4 DEF TypeInv
<1>4. /\ Reached' = Reached
      /\ \A b : dfnum(b)' = dfnum(b)
      /\ \A y, b : Over(y, b)' <=> Over(y, b)
      /\ ShapeInv'
  BY <1>1, <1>2, SameTree, SameShape
<1>5. \A b \in Reached : /\ Open(b)' <=> dfnum(b) < i
                         /\ Open(b) <=> b = w \/ dfnum(b) < i
  BY <1>2, <1>3, <1>4 DEF Open
<1>6. SemiNumber(w) = dfnum(s) /\ s \in Reached /\ s # w /\ dfnum(s) < i
  <2>1. s # w
    <3>1. ~Open(w)' /\ w \in Reached'
      BY <1>3, <1>4, <1>5
    <3>2. LinkInv'
      BY <1>2 DEF ClimbInv
    <3>3. semi'[w] # w
      BY <3>1, <3>2 DEF LinkInv, SemiInv
    <3> QED
      BY <1>2, <1>a, <3>3
  <2>2. IsAbove(s, w)
    BY <1>1, <1>3, <1>a, <2>1 DEF LinkInv, SemiInv
  <2> QED
    BY <1>3, <1>a, <2>1, <2>2 DEF SemiNumber, IsAbove
<1>7. \A y \in Reached : w \in Range(succ[y]) => y <= p
  <2> SUFFICES ASSUME NEW y \in Reached, w \in Range(succ[y]) PROVE y <= p
    OBVIOUS
  <2>1. y \in Preds(w) /\ y \in Nat
    BY <1>3 DEF Preds
  <2>2. ~(y > p)
    BY <1>2, <1>a, <2>1 DEF LeftPreds
  <2> QED
    BY <1>3, <2>1, <2>2
<1>8. IsSemi(w)
  <2>1. Precedes(s, w)
    BY <1>1, <1>6, <1>a DEF OfferInv
  <2>2. ASSUME NEW v \in Reached, Precedes(v, w) PROVE dfnum(s) <= dfnum(v)
    <3>1. CASE w \in Range(succ[v])
      <4>1. dfnum(v) < i => dfnum(s) <= dfnum(v)
        BY <1>1, <1>6, <1>7, <1>a, <3>1 DEF OfferInv
      <4> QED
        BY <1>3, <1>6, <4>1
    <3>2. CASE \E u, x \in Reached : /\ dfnum(w) < dfnum(u)
                                     /\ Precedes(v, u) /\ Over(u, x) /\ w \in Range(succ[x])
      <4>1. PICK u \in Reached, x \in Reached :
              i < dfnum(u) /\ Precedes(v, u) /\ Over(u, x) /\ w \in Range(succ[x])
        BY <1>3, <3>2
      <4>2. dfnum(s) <= SemiNumber(u)
        BY <1>1, <1>6, <1>7, <1>a, <4>1 DEF OfferInv
      <4>3. IsSemi(u)
        <5>1. ~Open(u)
          BY <1>3, <4>1 DEF Open
        <5> QED
          BY <1>1, <5>1
      <4>4. SemiNumber(u) <= dfnum(v)
        BY <2>2, <4>1, <4>3 DEF IsSemi, SemiNumber
      <4>5. PICK e, f, g : e = dfnum(s) /\ f = SemiNumber(u) /\ g = dfnum(v)
        OBVIOUS
      <4>6. e \in Nat /\ f \in Nat /\ g \in Nat /\ e <= f /\ f <= g
        BY <1>3, <1>6, <4>2, <4>4, <4>5 DEF SemiNumber
      <4>7. e <= g
        BY <4>6
      <4> QED
        BY <4>5, <4>7
    <3> QED
      BY <1>1, <1>3, <2>2, <3>1, <3>2, PrecedesSplit
  <2> QED
    BY <1>6, <1>a, <2>1, <2>2 DEF IsSemi
<1>9. \A b \in Reached' : ~Open(b)' => IsSemi(b)'
  <2> SUFFICES ASSUME NEW b \in Reached, ~Open(b)' PROVE IsSemi(b)'
    BY <1>4
  <2>1. IsSemi(b)
    BY <1>1, <1>5, <1>8
  <2> QED
    BY <1>2, <2>1, SemiCarries
<1>10. /\ a \in Reached /\ a \in Blocks /\ dfnum(a) < i /\ Over(a, w) /\ Over(w, w)
       /\ label[w] = w
  <2>1. a # 0
    BY <1>1, <1>2, <1>3, <1>a DEF ShapeInv, RootedInv, LinkInv, TreeInv
  <2>2. a \in Reached /\ a \in Blocks /\ dfnum(a) < i
    BY <1>1, <1>3, <1>a, <2>1, ParentAbove
  <2>3. Over(a, w) /\ Over(w, w)
    BY <1>3, <1>a, <2>1, <2>2, OverOrders
  <2>4. label[w] = w
    BY <1>1, <1>3, <1>5 DEF LinkInv, AncestorInv, LabelInv
  <2> QED
    BY <2>2, <2>3, <2>4
<1>11. \A b : SemiNumber(b)' = SemiNumber(b)
  BY <1>2 DEF SemiNumber, dfnum
<1>12. /\ A[w] = a /\ \A b \in Blocks : b # w => A[b] = ancestor[b]
  BY <1>1, <1>2, <1>3 DEF TypeInv
<1>13. ASSUME NEW b \in Reached, A[b] # 0
       PROVE  /\ Over(A[b], b) /\ Over(label[b], b) /\ dfnum(A[b]) < dfnum(label[b])
              /\ \A x \in Reached : Over(x, b) /\ dfnum(A[b]) < dfnum(x) =>
                   ~Open(x)' /\ SemiNumber(label[b]) <= SemiNumber(x)
  <2>1. CASE b = w
    <3>1. ASSUME NEW x \in Reached, Over(x, w), dfnum(a) < dfnum(x) PROVE x = w
      <4> SUFFICES ASSUME x # w PROVE FALSE
        OBVIOUS
      <4>1. Over(x, a)
        BY <1>3, <1>a, <3>1, OverParent
      <4>2. dfnum(x) <= dfnum(a)
        BY <1>1, <1>10, <4>1, OverNumbers
      <4> QED
        BY <1>3, <1>10, <3>1, <4>2
    <3>2. ~Open(w)' /\ SemiNumber(w) <= SemiNumber(w)
      BY <1>3, <1>5, <1>6
    <3> QED
      BY <1>3, <1>10, <1>12, <2>1, <3>1, <3>2
  <2>2. CASE b # w
    <3>1. A[b] = ancestor[b]
      BY <1>3, <1>12, <2>2
    <3>2. Compressed(b)
      BY <1>1, <1>13, <3>1 DEF ForestInv
    <3> QED
      BY <1>5, <3>1, <3>2 DEF Compressed
  <2> QED
    BY <2>1, <2>2
<1>14. ForestInv'
  <2>1. \A b \in Reached' : ~Open(b)' => ancestor'[b] # 0
    <3> SUFFICES ASSUME NEW b \in Reached, ~Open(b)' PROVE A[b] # 0
      BY <1>4, <1>a
    <3>1. CASE b = w
      BY <1>3, <1>10, <1>12, <3>1
    <3>2. CASE b # w
      <4>1. ~Open(b)
        BY <1>5, <3>2
      <4> QED
        BY <1>1, <1>3, <1>12, <3>2, <4>1 DEF ForestInv
    <3> QED
      BY <3>1, <3>2
  <2>2. ASSUME NEW b \in Reached', ancestor'[b] # 0 PROVE Compressed(b)'
    <3>1. PICK e, l : e = A[b] /\ l = label[b]
      OBVIOUS
    <3>2. /\ Over(e, b) /\ Over(l, b) /\ dfnum(e) < dfnum(l)
          /\ \A x \in Reached : Over(x, b) /\ dfnum(e) < dfnum(x) =>
               ~Open(x)' /\ SemiNumber(l) <= SemiNumber(x)
      BY <1>4, <1>13, <1>a, <2>2, <3>1
    <3>3. /\ Over(e, b)' /\ Over(l, b)' /\ dfnum(e)' < dfnum(l)'
          /\ \A x \in Reached' : Over(x, b)' /\ dfnum(e)' < dfnum(x)' =>
               ~Open(x)' /\ SemiNumber(l)' <= SemiNumber(x)'
      BY <1>4, <1>11, <3>2
    <3>4. e = ancestor'[b] /\ l = label'[b]
      BY <1>2, <1>a, <3>1
    <3> QED
      BY <3>3, <3>4, CompressedNext
  <2> QED
    BY <2>1, <2>2 DEF ForestInv
<1> QED
  BY <1>2, <1>4, <1>9, <1>14 DEF SemiDominatorInv

(* Emptying the bucket only compresses.                                    *)
LEMMA BucketIsSemi == ClimbInv /\ SemiDominatorInv /\ EmptyBucket => SemiDominatorInv'
<1> SUFFICES ASSUME ClimbInv, SemiDominatorInv, EmptyBucket PROVE SemiDominatorInv'
  OBVIOUS
<1>a. PICK e, v : e = parent[vertex[i]] /\ v = Head(bucket[e])
  OBVIOUS
<1>1. /\ TypeInv /\ LinkInv /\ ShapeInv /\ ForestInv /\ i \in DOMAIN vertex /\ i > 1
      /\ \A b \in Reached : ~Open(b) => IsSemi(b)
      /\ pc = "bucket" /\ pc' = "bucket" /\ bucket[e] # << >>
      /\ label' = Eval(v).label /\ ancestor' = Eval(v).ancestor
      /\ UNCHANGED <<succ, vertex, parent, semi, i>>
  BY <1>a DEF ClimbInv, SemiDominatorInv, EmptyBucket, LinkInv, graph
<1>2. v \in Reached
  <2>1. e \in Reached /\ e \in Blocks
    BY <1>1, <1>a, Numbers DEF LinkInv, TreeInv, TypeInv
  <2>2. bucket[e] \in Seq(Blocks)
    BY <1>1, <2>1 DEF TypeInv
  <2>3. 1 \in DOMAIN bucket[e] /\ v = bucket[e][1]
    BY <1>1, <1>a, <2>2, EmptySeq
  <2>4. v \in Range(bucket[e])
    BY <2>3 DEF Range
  <2> QED
    BY <1>1, <2>1, <2>4 DEF LinkInv, BucketInv
<1>3. Reached' = Reached /\ ShapeInv' /\ \A b : Open(b)' <=> Open(b)
  BY <1>1, SameTree, SameOpen, SameShape
<1>4. ForestInv'
  BY <1>1, <1>2, ForestCarries
<1>5. \A b \in Reached' : ~Open(b)' => IsSemi(b)'
  BY <1>1, <1>3, SemiCarries
<1> QED
  BY <1>1, <1>3, <1>4, <1>5 DEF SemiDominatorInv

(* The next vertex has not been looked at yet.                             *)
LEMMA NextIsSemi == ClimbInv /\ ClimbInv' /\ SemiDominatorInv /\ NextVertex => SemiDominatorInv'
<1> SUFFICES ASSUME ClimbInv, ClimbInv', SemiDominatorInv, NextVertex PROVE SemiDominatorInv'
  OBVIOUS
<1>1. /\ TypeInv /\ LinkInv /\ ShapeInv /\ ForestInv /\ i \in DOMAIN vertex /\ i > 1
      /\ \A b \in Reached : ~Open(b) => IsSemi(b)
      /\ pc = "bucket" /\ pc' = "semi" /\ i' = i - 1 /\ p' = 0
      /\ UNCHANGED <<succ, vertex, parent, semi, label, ancestor>>
      /\ LinkInv' /\ TypeInv'
  BY DEF ClimbInv, SemiDominatorInv, NextVertex, LinkInv, graph
<1>2. /\ Reached' = Reached /\ ShapeInv'
      /\ \A b : dfnum(b)' = dfnum(b)
      /\ \A a, b : Over(a, b)' <=> Over(a, b)
  BY <1>1, SameTree, SameShape
<1>3. /\ Reached \subseteq Blocks /\ Blocks \subseteq Nat \ {0} /\ i \in Nat
      /\ \A b \in Reached : dfnum(b) \in Nat
      /\ \A k \in DOMAIN vertex : vertex[k] \in Reached /\ dfnum(vertex[k]) = k
      /\ DOMAIN vertex = 1 .. Len(vertex) /\ Len(vertex) \in Nat
  <2>1. succ \in Graphs /\ Numbered /\ i \in Nat
    BY <1>1 DEF TypeInv
  <2>2. Blocks \subseteq Nat \ {0}
    BY <2>1, GraphShape
  <2> QED
    BY <2>1, <2>2, Numbers
<1>4. \A b \in Reached : Open(b)' <=> Open(b)
  BY <1>1, <1>2, <1>3 DEF Open
<1>5. ForestInv'
  <2>1. \A b : SemiNumber(b)' = SemiNumber(b)
    BY <1>1 DEF SemiNumber, dfnum
  <2>2. ASSUME NEW b \in Reached, ancestor'[b] # 0 PROVE Compressed(b)'
    <3>1. PICK e, l : e = ancestor[b] /\ l = label[b] /\ e = ancestor'[b] /\ l = label'[b]
      BY <1>1
    <3>2. /\ Over(e, b) /\ Over(l, b) /\ dfnum(e) < dfnum(l)
          /\ \A x \in Reached : Over(x, b) /\ dfnum(e) < dfnum(x) =>
               ~Open(x) /\ SemiNumber(l) <= SemiNumber(x)
      BY <1>1, <2>2, <3>1 DEF ForestInv, Compressed
    <3>3. /\ Over(e, b)' /\ Over(l, b)' /\ dfnum(e)' < dfnum(l)'
          /\ \A x \in Reached' : Over(x, b)' /\ dfnum(e)' < dfnum(x)' =>
               ~Open(x)' /\ SemiNumber(l)' <= SemiNumber(x)'
      BY <1>2, <1>4, <2>1, <3>2
    <3> QED
      BY <3>1, <3>3, CompressedNext
  <2> QED
    BY <1>1, <1>2, <1>4, <2>2 DEF ForestInv
<1>6. \A b \in Reached' : ~Open(b)' => IsSemi(b)'
  BY <1>1, <1>2, <1>4, SemiCarries
<1>7. OfferInv'
  <2>1. i - 1 \in DOMAIN vertex
    BY <1>1, <1>3
  <2>2. PICK w : w = vertex'[i'] /\ w \in Reached /\ dfnum(w) = i - 1
    BY <1>1, <1>3, <2>1
  <2>3. semi'[w] = w
    BY <1>1, <1>3, <2>2 DEF LinkInv, SemiInv
  <2>4. \A x \in Reached' : ~(x <= p')
    BY <1>1, <1>2, <1>3
  <2> QED
    BY <2>2, <2>3, <2>4 DEF OfferInv
<1> QED
  BY <1>1, <1>2, <1>5, <1>6, <1>7 DEF SemiDominatorInv

(* The entry is left: every other vertex has its semi-dominator.           *)
LEMMA StartFinalIsSemi == ClimbInv /\ SemiDominatorInv /\ StartFinal => SemiDominatorInv'
<1> SUFFICES ASSUME ClimbInv, SemiDominatorInv, StartFinal PROVE SemiDominatorInv'
  OBVIOUS
<1>1. /\ Numbered /\ succ \in Graphs /\ ShapeInv
      /\ pc = "semi" /\ pc' = "final" /\ i = 1
      /\ UNCHANGED <<succ, vertex, parent, semi>>
      /\ \A b \in Reached : ~Open(b) => IsSemi(b)
  BY DEF ClimbInv, SemiDominatorInv, StartFinal, TypeInv, graph
<1>2. Reached' = Reached /\ ShapeInv'
  BY <1>1, SameTree, SameShape
<1>3. \A b \in Reached : dfnum(b) \in 1 .. Len(vertex) /\ vertex[dfnum(b)] = b /\ vertex[1] = 1
  BY <1>1, Numbers DEF Numbered
<1>4. \A b \in Reached : b # 1 => IsSemi(b)
  BY <1>1, <1>3 DEF Open
<1>5. \A b \in Reached' : b # 1 => IsSemi(b)'
  BY <1>1, <1>2, <1>4, SemiCarries
<1> QED
  BY <1>1, <1>2, <1>5 DEF SemiDominatorInv

(* The steps after that leave the tree and the semi-dominators alone.      *)
LEMMA LaterIsSemi ==
    ASSUME SemiDominatorInv, UNCHANGED <<succ, vertex, parent, semi>>,
           pc' \in {"final", "loops", "classify", "done"}, pc' = "final" => pc = "final"
    PROVE  SemiDominatorInv'
<1>1. Reached' = Reached /\ ShapeInv'
  BY SameTree, SameShape DEF SemiDominatorInv
<1>2. pc' = "final" => \A b \in Reached' : b # 1 => IsSemi(b)'
  BY <1>1, SemiCarries DEF SemiDominatorInv
<1> QED
  BY <1>1, <1>2 DEF SemiDominatorInv

(* A step keeps the invariant.                                             *)
LEMMA StepIsSemi ==
    ASSUME ClimbInv, ClimbInv', SemiDominatorInv, [Next]_vars
    PROVE  SemiDominatorInv'
<1>1. CASE DfsVisit
  BY <1>1, VisitKeepsShape
<1>2. CASE DfsReturn
  BY <1>2, ReturnKeepsShape
<1>3. CASE StartSemi
  BY <1>3, StartIsSemi
<1>4. CASE EvalPredecessor
  BY <1>4, PredecessorIsSemi
<1>5. CASE Link
  BY <1>5, LinkIsSemi
<1>6. CASE EmptyBucket
  BY <1>6, BucketIsSemi
<1>7. CASE NextVertex
  BY <1>7, NextIsSemi
<1>8. CASE StartFinal
  BY <1>8, StartFinalIsSemi
<1>9. CASE FinalPass
  BY <1>9, LaterIsSemi DEF FinalPass, graph
<1>10. CASE PostDominators
  BY <1>10, LaterIsSemi DEF PostDominators, graph
<1>11. CASE IdentifyLoop
  BY <1>11, LaterIsSemi DEF IdentifyLoop, graph
<1>12. CASE NextBlock
  BY <1>12, LaterIsSemi DEF NextBlock, graph
<1>13. CASE StartClassify
  BY <1>13, LaterIsSemi DEF StartClassify, graph
<1>14. CASE ClassifyBlock
  BY <1>14, LaterIsSemi DEF ClassifyBlock, graph
<1>15. CASE Return
  BY <1>15, LaterIsSemi DEF Return, graph
<1>16. CASE UNCHANGED vars
  <2>1. UNCHANGED <<succ, vertex, parent, semi, label, ancestor, stack, i, p, pc>>
    BY <1>16 DEF vars
  <2>2. ShapeInv' <=> ShapeInv
    BY <2>1, SameShape
  <2>3. StackInv' <=> StackInv
    BY <2>1 DEF StackInv, Over, GoesUp, Reached, dfnum, Blocks
  <2>4. ForestInv' <=> ForestInv
    BY <2>1 DEF ForestInv, Compressed, Over, GoesUp, Open, SemiNumber, Reached, dfnum, Blocks
  <2>5. OfferInv' <=> OfferInv
    BY <2>1 DEF OfferInv, Precedes, Reaches, Inside, Later, Over, GoesUp, SemiNumber, Reached,
                dfnum, Blocks
  <2>6. \A b \in Reached : IsSemi(b) => IsSemi(b)'
    BY <2>1, SemiCarries
  <2>7. Reached' = Reached /\ \A b : Open(b)' <=> Open(b)
    BY <2>1, SameTree, SameOpen
  <2> QED
    BY <2>1, <2>2, <2>3, <2>4, <2>5, <2>6, <2>7 DEF SemiDominatorInv
<1> QED
  BY <1>1, <1>2, <1>3, <1>4, <1>5, <1>6, <1>7, <1>8, <1>9, <1>10, <1>11, <1>12, <1>13,
     <1>14, <1>15, <1>16 DEF Next, Returned

(* What the invariant says of a linked vertex is what the property does.   *)
LEMMA SemiDominatorsFollow ==
    ASSUME ClimbInv, SemiDominatorInv
    PROVE  SemiDominatorsRight
<1> SUFFICES ASSUME pc \in {"semi", "bucket", "final"}, NEW k \in 2 .. Len(vertex),
                    pc = "final" \/ k > i
             PROVE  semi[vertex[k]] = SemiDominator(vertex[k])
  BY DEF SemiDominatorsRight
<1>1. Numbered /\ succ \in Graphs /\ i \in Nat
  BY DEF ClimbInv, TypeInv
<1>2. PICK w : w = vertex[k]
  OBVIOUS
<1>3. w \in Reached /\ dfnum(w) = k /\ k \in Nat /\ w # 1
  <2>1. DOMAIN vertex = 1 .. Len(vertex) /\ Len(vertex) \in Nat
    BY <1>1, Numbers
  <2>2. k \in DOMAIN vertex /\ k \in Nat /\ k # 1
    BY <2>1
  <2>3. w \in Reached /\ dfnum(w) = k
    BY <1>1, <1>2, <2>2, Numbers
  <2>4. dfnum(1) = 1
    BY <1>1, Numbers
  <2> QED
    BY <2>2, <2>3, <2>4
<1>4. IsSemi(w)
  <2>1. CASE pc = "final"
    BY <1>3, <2>1 DEF SemiDominatorInv
  <2>2. CASE pc \in {"semi", "bucket"}
    <3>1. ~Open(w)
      BY <1>1, <1>3, <2>2 DEF Open
    <3> QED
      BY <1>3, <2>2, <3>1 DEF SemiDominatorInv
  <2> QED
    BY <2>1, <2>2
<1> QED
  BY <1>1, <1>2, <1>3, <1>4, SemiIsSemiDominator

(* Lengauer and Tarjan's first half is right in every control flow graph:  *)
(* once computeDominators has linked a vertex, semi holds the vertex the   *)
(* definition of the semi-dominator names, whatever the graph.             *)
THEOREM SemiDominatorsAreRight == Spec => []SemiDominatorsRight
<1>1. Init => SemiDominatorInv
  BY InitIsSemi
<1>2. ClimbInv /\ ClimbInv' /\ SemiDominatorInv /\ [Next]_vars => SemiDominatorInv'
  BY StepIsSemi
<1>3. ClimbInv /\ SemiDominatorInv => SemiDominatorsRight
  BY SemiDominatorsFollow
<1> QED
  BY <1>1, <1>2, <1>3, Climbing, PTL DEF Spec
=============================================================================
