------------------------- MODULE FunctionBodyProofs -------------------------
(***************************************************************************)
(* Proofs about BasicBlocks and FunctionBody, for every function, every    *)
(* set of matches that do not overlap and every limit of a simple block.   *)
(***************************************************************************)
EXTENDS FunctionBody, FiniteSetTheorems, SequenceTheorems, WellFoundedInduction, TLAPS

(* Sets of numbers have a least element, which gives induction over sets of  *)
(* numbers, and InOrder lists a finite set in ascending order.               *)

(* A set of natural numbers that is not empty has a least one.               *)
LEMMA LeastOf ==
    ASSUME NEW U, U \subseteq Nat, U # {}
    PROVE  \E u \in U : \A v \in U : u <= v
<1> DEFINE R == {ss \in Nat \X Nat : ss[1] < ss[2]}
<1>1. IsWellFoundedOn(R, Nat)
  BY NatLessThanWellFounded DEF OpToRel
<1>2. \E u \in U : \A v \in U : ~(<<v, u>> \in R)
  <2> HIDE DEF R
  <2> QED
    BY <1>1, WFMin, Zenon
<1>3. PICK u \in U : \A v \in U : ~(<<v, u>> \in R)
  BY <1>2
<1>4. \A v \in U : ~(v < u)
  <2> SUFFICES ASSUME NEW v \in U, v < u PROVE FALSE
    OBVIOUS
  <2>1. v \in Nat /\ u \in Nat
    OBVIOUS
  <2>2. <<v, u>> \in R
    BY <2>1
  <2> QED
    BY <1>3, <2>2
<1> QED
  BY <1>4

(* A set that has 0, and with a number the next, has every number: the way   *)
(* the proofs below do induction.                                            *)
LEMMA SetInduction ==
    ASSUME NEW U, 0 \in U, \A n \in Nat : n \in U => n + 1 \in U
    PROVE  Nat \subseteq U
<1> SUFFICES ASSUME Nat \ U # {} PROVE FALSE
  OBVIOUS
<1>1. PICK u \in Nat \ U : \A v \in Nat \ U : u <= v
  BY LeastOf
<1>2. u # 0 /\ u - 1 \in Nat /\ u - 1 \in U
  BY <1>1
<1> QED
  BY <1>1, <1>2

(* A finite set of numbers that is not empty has a greatest one.             *)
LEMMA GreatestOf ==
    ASSUME NEW S \in SUBSET Nat, IsFiniteSet(S), S # {}
    PROVE  \E x \in S : \A y \in S : y <= x
<1> DEFINE Good(n) == \A T \in SUBSET Nat :
                         IsFiniteSet(T) /\ Cardinality(T) = n + 1
                            => \E x \in T : \A y \in T : y <= x
           U == {n \in Nat : Good(n)}
<1>1. 0 \in U
  <2> SUFFICES ASSUME NEW T \in SUBSET Nat, IsFiniteSet(T), Cardinality(T) = 1
               PROVE  \E x \in T : \A y \in T : y <= x
    OBVIOUS
  <2>1. PICK x : T = {x}
    BY FS_Singleton
  <2> QED
    BY <2>1
<1>2. \A n \in Nat : n \in U => n + 1 \in U
  <2> SUFFICES ASSUME NEW n \in Nat, Good(n), NEW T \in SUBSET Nat, IsFiniteSet(T),
                      Cardinality(T) = n + 2
               PROVE  \E x \in T : \A y \in T : y <= x
    OBVIOUS
  <2>1. T # {}
    BY FS_EmptySet
  <2>2. PICK z \in T : TRUE
    BY <2>1
  <2>3. IsFiniteSet(T \ {z}) /\ Cardinality(T \ {z}) = n + 1
    BY FS_RemoveElement
  <2>4. PICK x \in T \ {z} : \A y \in T \ {z} : y <= x
    BY <2>3
  <2>5. x \in Nat /\ z \in Nat /\ \A y \in T : y \in Nat
    OBVIOUS
  <2>6. CASE z <= x
    BY <2>4, <2>5, <2>6
  <2>7. CASE x <= z
    BY <2>4, <2>5, <2>7
  <2> QED
    BY <2>5, <2>6, <2>7
<1>3. Nat \subseteq U
  <2> HIDE DEF U
  <2> QED
    BY <1>1, <1>2, SetInduction
<1>4. Cardinality(S) \in Nat /\ Cardinality(S) # 0
  BY FS_CardinalityType, FS_EmptySet
<1>5. Cardinality(S) - 1 \in Nat
  BY <1>4
<1>6. Good(Cardinality(S) - 1)
  BY <1>3, <1>5
<1> QED
  BY <1>4, <1>6

(* What a function makes of the members of a finite set is finite.           *)
LEMMA ImageIsFinite ==
    ASSUME NEW S, IsFiniteSet(S), NEW f
    PROVE  IsFiniteSet({f[x] : x \in S})
<1> DEFINE T == {f[x] : x \in S}
           g == [x \in S |-> f[x]]
<1>1. g \in Surjection(S, T)
  BY DEF Surjection
<1> QED
  BY <1>1, FS_Surjection

(* The numbers of S that are below x.                                        *)
Below(S, x) == {y \in S : y < x}

(* The numbers below a greater one are more.                                 *)
LEMMA BelowIsMonotone ==
    ASSUME NEW S \in SUBSET Nat, IsFiniteSet(S), NEW x \in S, NEW y \in S
    PROVE  /\ Cardinality(Below(S, x)) \in Nat
           /\ Cardinality(Below(S, x)) < Cardinality(S)
           /\ x < y => Cardinality(Below(S, x)) < Cardinality(Below(S, y))
           /\ x <= y => Cardinality(Below(S, x)) <= Cardinality(Below(S, y))
<1>0. x \in Nat /\ y \in Nat /\ \A z \in S : z \in Nat
  OBVIOUS
<1>1. \A z \in S : IsFiniteSet(Below(S, z)) /\ Cardinality(Below(S, z)) \in Nat
  BY FS_Subset, FS_CardinalityType DEF Below
<1>2. Cardinality(Below(S, x)) < Cardinality(S)
  <2>1. Below(S, x) \subseteq S /\ x \notin Below(S, x)
    BY <1>0 DEF Below
  <2> QED
    BY <2>1, FS_Subset, FS_CardinalityType
<1>3. ASSUME x < y PROVE Cardinality(Below(S, x)) < Cardinality(Below(S, y))
  <2>0. \A z \in S : z < x => z < y
    BY <1>0, <1>3
  <2>1. Below(S, x) \subseteq Below(S, y)
    BY <2>0 DEF Below
  <2>2. x \in Below(S, y) /\ x \notin Below(S, x)
    BY <1>0, <1>3 DEF Below
  <2> QED
    BY <2>1, <2>2, <1>1, FS_Subset, FS_CardinalityType
<1>4. x <= y => Cardinality(Below(S, x)) <= Cardinality(Below(S, y))
  BY <1>0, <1>1, <1>3
<1> QED
  BY <1>1, <1>2, <1>3, <1>4

(* Every rank below the size of a set is that of one of its numbers.         *)
LEMMA RankIsTaken ==
    ASSUME NEW S \in SUBSET Nat, IsFiniteSet(S), NEW k \in Nat, k < Cardinality(S)
    PROVE  \E x \in S : Cardinality(Below(S, x)) = k
<1> DEFINE Good(n) == \A T \in SUBSET Nat :
                         IsFiniteSet(T) /\ Cardinality(T) = n
                            => \A j \in Nat : j < n => \E x \in T : Cardinality(Below(T, x)) = j
           U == {n \in Nat : Good(n)}
<1>1. 0 \in U
  OBVIOUS
<1>2. \A n \in Nat : n \in U => n + 1 \in U
  <2> SUFFICES ASSUME NEW n \in Nat, Good(n), NEW T \in SUBSET Nat, IsFiniteSet(T),
                      Cardinality(T) = n + 1, NEW j \in Nat, j < n + 1
               PROVE  \E x \in T : Cardinality(Below(T, x)) = j
    OBVIOUS
  <2>1. T # {}
    BY FS_EmptySet
  <2>2. PICK g \in T : \A y \in T : y <= g
    BY <2>1, GreatestOf
  <2>3. IsFiniteSet(T \ {g}) /\ Cardinality(T \ {g}) = n
    <3>1. IsFiniteSet(T \ {g}) /\ Cardinality(T \ {g}) = Cardinality(T) - 1
      BY FS_RemoveElement
    <3> QED
      BY <3>1
  <2>4. \A y \in T : y \in Nat
    OBVIOUS
  <2>5. CASE j = n
    <3>1. Below(T, g) = T \ {g}
      <4>1. \A y \in T : y < g <=> y # g
        BY <2>2, <2>4
      <4> QED
        BY <4>1 DEF Below
    <3> QED
      BY <3>1, <2>3, <2>5
  <2>6. CASE j < n
    <3>1. PICK x \in T \ {g} : Cardinality(Below(T \ {g}, x)) = j
      BY <2>3, <2>6
    <3>2. Below(T, x) = Below(T \ {g}, x)
      BY <2>2, <2>4 DEF Below
    <3> QED
      BY <3>1, <3>2
  <2> QED
    BY <2>5, <2>6
<1>3. Nat \subseteq U
  <2> HIDE DEF U
  <2> QED
    BY <1>1, <1>2, SetInduction
<1>4. Cardinality(S) \in Nat
  BY FS_CardinalityType
<1> QED
  BY <1>3, <1>4

(* InOrder lists a finite set of numbers, each one once, from the least to   *)
(* the greatest.                                                             *)
LEMMA InOrderLists ==
    ASSUME NEW S \in SUBSET Nat, IsFiniteSet(S)
    PROVE  /\ InOrder(S) \in Seq(S)
           /\ Len(InOrder(S)) = Cardinality(S)
           /\ \A j, k \in DOMAIN InOrder(S) : j < k => InOrder(S)[j] < InOrder(S)[k]
           /\ \A x \in S : \E k \in DOMAIN InOrder(S) : InOrder(S)[k] = x
<1> DEFINE f == InOrder(S)
           n == Cardinality(S)
<1>1. n \in Nat
  BY FS_CardinalityType
<1>2. \A k \in 1..n : f[k] \in S /\ Cardinality(Below(S, f[k])) = k - 1
  <2> SUFFICES ASSUME NEW k \in 1..n
               PROVE  f[k] \in S /\ Cardinality(Below(S, f[k])) = k - 1
    OBVIOUS
  <2>1. k - 1 \in Nat /\ k - 1 < n
    BY <1>1
  <2>2. \E x \in S : Cardinality({y \in S : y < x}) = k - 1
    BY <2>1, RankIsTaken DEF Below
  <2>3. f[k] = CHOOSE x \in S : Cardinality({y \in S : y < x}) = k - 1
    BY <1>1 DEF InOrder
  <2> QED
    BY <2>2, <2>3 DEF Below
<1>3. f = [k \in 1..n |-> f[k]]
  <2> DEFINE e(k) == CHOOSE x \in S : Cardinality({y \in S : y < x}) = k - 1
  <2>1. f = [k \in 1..n |-> e(k)]
    BY DEF InOrder
  <2> HIDE DEF e, f, n
  <2> QED
    BY <2>1
<1> HIDE DEF f, n
<1>4. f \in Seq(S) /\ Len(f) = n /\ DOMAIN f = 1..n
  <2>1. f \in [1..n -> S]
    BY <1>2, <1>3
  <2> QED
    BY <2>1, <1>1, SeqDef, LenProperties
<1>5. \A j, k \in 1..n : j < k => f[j] < f[k]
  <2> SUFFICES ASSUME NEW j \in 1..n, NEW k \in 1..n, j < k, ~(f[j] < f[k]) PROVE FALSE
    OBVIOUS
  <2>1. f[j] \in Nat /\ f[k] \in Nat /\ f[k] <= f[j]
    <3>1. f[j] \in S /\ f[k] \in S
      BY <1>2
    <3>2. f[j] \in Nat /\ f[k] \in Nat
      BY <3>1
    <3> QED
      BY <3>2
  <2>2. Cardinality(Below(S, f[k])) <= Cardinality(Below(S, f[j]))
    BY <1>2, <2>1, BelowIsMonotone
  <2> QED
    BY <1>1, <1>2, <2>2
<1>6. \A x \in S : \E k \in 1..n : f[k] = x
  <2> SUFFICES ASSUME NEW x \in S PROVE \E k \in 1..n : f[k] = x
    OBVIOUS
  <2> DEFINE k == Cardinality(Below(S, x)) + 1
  <2>1. k \in 1..n
    BY <1>1, BelowIsMonotone DEF n
  <2>2. f[k] \in S /\ Cardinality(Below(S, f[k])) = Cardinality(Below(S, x))
    <3>1. Cardinality(Below(S, x)) \in Nat
      BY BelowIsMonotone
    <3> QED
      BY <1>2, <2>1, <3>1
  <2>3. f[k] \in Nat /\ x \in Nat /\ ~(f[k] < x) /\ ~(x < f[k])
    <3>1. f[k] \in S /\ x \in S
      BY <2>2
    <3>2. f[k] \in Nat /\ x \in Nat
      BY <3>1
    <3>3. /\ Cardinality(Below(S, x)) \in Nat
          /\ f[k] < x => Cardinality(Below(S, f[k])) < Cardinality(Below(S, x))
          /\ x < f[k] => Cardinality(Below(S, x)) < Cardinality(Below(S, f[k]))
      BY <3>1, BelowIsMonotone
    <3> QED
      BY <2>2, <3>2, <3>3
  <2> QED
    BY <2>1, <2>3
<1> QED
  BY <1>4, <1>5, <1>6 DEF f, n

-----------------------------------------------------------------------------
(* The instructions of a stream, one by one.                               *)
LEMMA StreamFacts ==
    ASSUME NEW s, IsStream(s)
    PROVE  /\ Len(s) \in Nat /\ Len(s) >= 1 /\ DOMAIN s = 1..Len(s)
           /\ \A k \in DOMAIN s :
                /\ s[k].addr \in Nat /\ s[k].size \in Nat /\ s[k].addr # 0
                /\ After(s[k]) \in Nat /\ s[k].addr < After(s[k])
                /\ s[k].op \in Operations /\ s[k].target \in Nat
           /\ \A j, k \in DOMAIN s :
                /\ j < k => s[j].addr < s[k].addr
                /\ s[j].addr = s[k].addr => j = k
                /\ s[j].addr <= s[k].addr => j <= k
                /\ s[j].addr < s[k].addr => j < k
<1>1. s \in Seq([addr : Nat \ {0}, size : Nat \ {0}, op : Operations, target : Nat])
  BY DEF IsStream
<1>2. Len(s) \in Nat /\ Len(s) >= 1 /\ DOMAIN s = 1..Len(s)
  BY <1>1, LenProperties, EmptySeq DEF IsStream
<1>3. \A k \in DOMAIN s :
        /\ s[k].addr \in Nat /\ s[k].size \in Nat /\ s[k].addr # 0
        /\ After(s[k]) \in Nat /\ s[k].addr < After(s[k])
        /\ s[k].op \in Operations /\ s[k].target \in Nat
  <2> SUFFICES ASSUME NEW k \in DOMAIN s
               PROVE  /\ s[k].addr \in Nat /\ s[k].size \in Nat /\ s[k].addr # 0
                      /\ After(s[k]) \in Nat /\ s[k].addr < After(s[k])
                      /\ s[k].op \in Operations /\ s[k].target \in Nat
    OBVIOUS
  <2>1. s[k] \in [addr : Nat \ {0}, size : Nat \ {0}, op : Operations, target : Nat]
    BY <1>1, <1>2, ElementOfSeq
  <2> QED
    BY <2>1 DEF After
<1>4. \A j, k \in DOMAIN s : j < k => s[j].addr < s[k].addr
  <2> SUFFICES ASSUME NEW j \in DOMAIN s, NEW k \in DOMAIN s, j < k
               PROVE  s[j].addr < s[k].addr
    OBVIOUS
  <2>1. After(s[j]) <= s[k].addr
    BY DEF IsStream
  <2> QED
    BY <2>1, <1>3
<1>5. \A j, k \in DOMAIN s : /\ s[j].addr = s[k].addr => j = k
                             /\ s[j].addr <= s[k].addr => j <= k
                             /\ s[j].addr < s[k].addr => j < k
  <2> SUFFICES ASSUME NEW j \in DOMAIN s, NEW k \in DOMAIN s
               PROVE  /\ s[j].addr = s[k].addr => j = k
                      /\ s[j].addr <= s[k].addr => j <= k
                      /\ s[j].addr < s[k].addr => j < k
    OBVIOUS
  <2>1. j \in Nat /\ k \in Nat /\ s[j].addr \in Nat /\ s[k].addr \in Nat
    BY <1>2, <1>3
  <2> QED
    BY <2>1, <1>4
<1> QED
  BY <1>2, <1>3, <1>4, <1>5

(* addrToIndex finds an instruction by its address, and answers the first  *)
(* instruction for an address that none has.                               *)
LEMMA IndexOfAddress ==
    ASSUME NEW s, IsStream(s)
    PROVE  /\ \A k \in DOMAIN s : IndexOf(s, s[k].addr) = k
           /\ \A a : a \notin Addresses(s) => IndexOf(s, a) = 1
<1>1. DOMAIN s = 1..Len(s) /\ Len(s) \in Nat
  BY StreamFacts
<1>2. \A j, k \in DOMAIN s : s[j].addr = s[k].addr => j = k
  BY StreamFacts
<1>3. \A k \in Nat : k >= 1 => Max({1, k}) = k
  BY DEF Max
<1>4. ASSUME NEW k \in DOMAIN s PROVE IndexOf(s, s[k].addr) = k
  <2>1. {j \in DOMAIN s : s[j].addr = s[k].addr} = {k}
    BY <1>2
  <2>2. {1} \cup {k} = {1, k} /\ k \in Nat /\ k >= 1
    BY <1>1
  <2> QED
    BY <2>1, <2>2, <1>3 DEF IndexOf
<1>5. ASSUME NEW a, a \notin Addresses(s) PROVE IndexOf(s, a) = 1
  <2>1. {1} \cup {j \in DOMAIN s : s[j].addr = a} = {1, 1}
    BY <1>5 DEF Addresses
  <2> QED
    BY <2>1, <1>3 DEF IndexOf
<1> QED
  BY <1>4, <1>5

(* The leaders are finitely many addresses; all but the entry point are    *)
(* those of instructions.                                                  *)
LEMMA LeaderFacts ==
    ASSUME NEW s, IsStream(s), NEW e \in Nat
    PROVE  /\ Leaders(s, e) \in SUBSET Nat /\ IsFiniteSet(Leaders(s, e))
           /\ e \in Leaders(s, e) /\ s[1].addr \in Leaders(s, e)
           /\ s[1].addr \in Addresses(s)
           /\ Leaders(s, e) \subseteq Addresses(s) \cup {e}
           /\ Targets(s) \cap Addresses(s) \subseteq Leaders(s, e)
<1>1. Len(s) \in Nat /\ Len(s) >= 1 /\ DOMAIN s = 1..Len(s)
      /\ \A k \in DOMAIN s : s[k].addr \in Nat
  BY StreamFacts
<1>2. IsFiniteSet(Addresses(s)) /\ Addresses(s) \subseteq Nat
  <2>1. \A k \in DOMAIN s : s[k].addr <= s[Len(s)].addr
    <3>1. \A k \in DOMAIN s : k < Len(s) => s[k].addr < s[Len(s)].addr
      BY <1>1, StreamFacts
    <3> QED
      BY <1>1, <3>1
  <2>2. Addresses(s) \subseteq Nat /\ \A a \in Addresses(s) : a <= s[Len(s)].addr
    BY <2>1, <1>1 DEF Addresses
  <2>3. s[Len(s)].addr \in Nat
    BY <1>1
  <2> QED
    BY <2>2, <2>3, FS_BoundedSetOfNaturals
<1>3. s[1].addr \in Addresses(s)
  BY <1>1 DEF Addresses
<1>4. Leaders(s, e) \subseteq Addresses(s) \cup {e}
  BY <1>3 DEF Leaders
<1>5. IsFiniteSet(Addresses(s) \cup {e})
  BY <1>2, FS_AddElement
<1>6. IsFiniteSet(Leaders(s, e))
  BY <1>4, <1>5, FS_Subset
<1> QED
  BY <1>2, <1>3, <1>4, <1>6 DEF Leaders

(* The sorted leaders, for an entry point that is no further on than the   *)
(* first instruction.                                                      *)
LEMMA SortedLeaderFacts ==
    ASSUME NEW s, IsStream(s), NEW e \in Nat
    PROVE  /\ SortedLeaders(s, e) \in Seq(Leaders(s, e))
           /\ Len(SortedLeaders(s, e)) \in Nat
           /\ DOMAIN SortedLeaders(s, e) = 1..Len(SortedLeaders(s, e))
           /\ \A b \in DOMAIN SortedLeaders(s, e) :
                SortedLeaders(s, e)[b] \in Leaders(s, e) /\ SortedLeaders(s, e)[b] \in Nat
           /\ \A b, c \in DOMAIN SortedLeaders(s, e) :
                b < c => SortedLeaders(s, e)[b] < SortedLeaders(s, e)[c]
           /\ \A a \in Leaders(s, e) :
                \E b \in DOMAIN SortedLeaders(s, e) : SortedLeaders(s, e)[b] = a
<1>1. Leaders(s, e) \in SUBSET Nat /\ IsFiniteSet(Leaders(s, e))
  BY LeaderFacts
<1>2. /\ InOrder(Leaders(s, e)) \in Seq(Leaders(s, e))
      /\ \A b, c \in DOMAIN InOrder(Leaders(s, e)) :
           b < c => InOrder(Leaders(s, e))[b] < InOrder(Leaders(s, e))[c]
      /\ \A a \in Leaders(s, e) :
           \E b \in DOMAIN InOrder(Leaders(s, e)) : InOrder(Leaders(s, e))[b] = a
  BY <1>1, InOrderLists
<1>3. SortedLeaders(s, e) = InOrder(Leaders(s, e))
  BY DEF SortedLeaders
<1> HIDE DEF SortedLeaders
<1>4. /\ Len(SortedLeaders(s, e)) \in Nat
      /\ DOMAIN SortedLeaders(s, e) = 1..Len(SortedLeaders(s, e))
  BY <1>2, <1>3, LenProperties
<1>5. \A b \in DOMAIN SortedLeaders(s, e) : SortedLeaders(s, e)[b] \in Leaders(s, e)
  BY <1>2, <1>3, <1>4, ElementOfSeq
<1> QED
  BY <1>1, <1>2, <1>3, <1>4, <1>5

(* What the blocks of a function are, when its entry point is an address   *)
(* of its stream: they tile the stream, in its order, and every leader     *)
(* begins one.                                                             *)
Tiled(s, e, bs) ==
  /\ Len(bs) \in Nat /\ Len(bs) >= 1 /\ DOMAIN bs = 1..Len(bs)
  /\ \A b \in DOMAIN bs :
       /\ bs[b].first \in DOMAIN s /\ bs[b].last \in DOMAIN s
       /\ bs[b].first <= bs[b].last
       /\ bs[b].addr = s[bs[b].first].addr
  /\ bs[1].first = 1
  /\ bs[Len(bs)].last = Len(s)
  /\ \A b \in 1 .. Len(bs) - 1 : bs[b + 1].first = bs[b].last + 1
  /\ \A b, c \in DOMAIN bs : b < c => bs[b].last < bs[c].first
  /\ \A a \in Leaders(s, e) : \E b \in DOMAIN bs : bs[b].addr = a

(* BuildControlFlowGraph makes such blocks.                                *)
LEMMA BlocksAreTiled ==
    ASSUME NEW s, IsStream(s), NEW e \in Nat, e <= s[1].addr, e \in Addresses(s)
    PROVE  Tiled(s, e, BlocksOf(s, e))
<1> DEFINE L  == SortedLeaders(s, e)
           bs == BlocksOf(s, e)
<1>1. /\ Len(s) \in Nat /\ Len(s) >= 1 /\ DOMAIN s = 1..Len(s)
      /\ \A k \in DOMAIN s : s[k].addr \in Nat
      /\ \A j, k \in DOMAIN s :
           /\ j < k => s[j].addr < s[k].addr
           /\ s[j].addr = s[k].addr => j = k
           /\ s[j].addr <= s[k].addr => j <= k
           /\ s[j].addr < s[k].addr => j < k
  BY StreamFacts
<1>2. \A k \in DOMAIN s : IndexOf(s, s[k].addr) = k
  BY IndexOfAddress
<1>3. e = s[1].addr
  <2>1. PICK k \in DOMAIN s : e = s[k].addr
    BY DEF Addresses
  <2>2. k <= 1
    <3>1. s[k].addr <= s[1].addr /\ 1 \in DOMAIN s
      BY <2>1, <1>1
    <3> QED
      BY <3>1, <1>1
  <2> QED
    BY <2>1, <2>2, <1>1
<1>4. /\ Leaders(s, e) \subseteq Addresses(s)
      /\ s[1].addr \in Leaders(s, e)
  BY LeaderFacts
<1>5. /\ Len(L) \in Nat /\ DOMAIN L = 1..Len(L)
      /\ \A b \in DOMAIN L : L[b] \in Leaders(s, e) /\ L[b] \in Nat
      /\ \A b, c \in DOMAIN L : b < c => L[b] < L[c]
      /\ \A a \in Leaders(s, e) : \E b \in DOMAIN L : L[b] = a
  BY SortedLeaderFacts
<1>6. bs = [b \in DOMAIN L |-> Cut(s, L, b)]
  BY DEF BlocksOf, IsStream
<1> DEFINE I(b) == IndexOf(s, L[b])
<1>7. \A b \in DOMAIN L : I(b) \in DOMAIN s /\ L[b] = s[I(b)].addr /\ L[b] \in Addresses(s)
  BY <1>2, <1>4, <1>5 DEF Addresses
<1>8. \A b \in DOMAIN L :
        /\ bs[b].addr = L[b]
        /\ bs[b].first = I(b)
        /\ bs[b].last = IF b < Len(L) THEN I(b + 1) - 1 ELSE Len(s)
  <2> SUFFICES ASSUME NEW b \in DOMAIN L
               PROVE  /\ bs[b].addr = L[b]
                      /\ bs[b].first = I(b)
                      /\ bs[b].last = IF b < Len(L) THEN I(b + 1) - 1 ELSE Len(s)
    OBVIOUS
  <2>1. bs[b] = Cut(s, L, b)
    BY <1>6
  <2>2. b < Len(L) => L[b + 1] \in Addresses(s)
    BY <1>5, <1>7
  <2> HIDE DEF bs, L
  <2> QED
    BY <2>1, <2>2 DEF Cut
<1>9. Len(L) >= 1 /\ L[1] = s[1].addr
  <2>1. PICK m \in DOMAIN L : L[m] = s[1].addr
    BY <1>4, <1>5
  <2>2. 1 \in DOMAIN L
    BY <2>1, <1>5
  <2>3. s[1].addr <= L[1]
    <3>1. I(1) \in DOMAIN s /\ L[1] = s[I(1)].addr /\ 1 \in DOMAIN s
      BY <2>2, <1>7, <1>1
    <3> HIDE DEF I
    <3>2. 1 < I(1) => s[1].addr < s[I(1)].addr
      BY <3>1, <1>1
    <3> QED
      BY <3>1, <3>2, <1>1
  <2> QED
    BY <2>1, <2>2, <2>3, <1>5
<1>10. \A b, c \in DOMAIN L : b < c => I(b) < I(c)
  <2> SUFFICES ASSUME NEW b \in DOMAIN L, NEW c \in DOMAIN L, b < c PROVE I(b) < I(c)
    OBVIOUS
  <2>1. L[b] < L[c] /\ I(b) \in DOMAIN s /\ I(c) \in DOMAIN s
        /\ L[b] = s[I(b)].addr /\ L[c] = s[I(c)].addr
    BY <1>5, <1>7
  <2> HIDE DEF I
  <2>2. I(b) \in Nat /\ I(c) \in Nat /\ s[I(b)].addr \in Nat /\ s[I(c)].addr \in Nat
    BY <2>1, <1>1
  <2>3. s[I(b)].addr < s[I(c)].addr
    BY <2>1
  <2> QED
    BY <2>1, <2>3, <1>1
<1>11. DOMAIN bs = 1..Len(L) /\ Len(bs) = Len(L)
  <2>1. DOMAIN bs = 1..Len(L)
    BY <1>5, <1>6
  <2>2. bs \in Seq({bs[b] : b \in 1..Len(L)})
    <3>1. bs \in [1..Len(L) -> {bs[b] : b \in 1..Len(L)}]
      BY <1>5, <1>6
    <3> HIDE DEF bs, L
    <3> QED
      BY <3>1, <1>5, SeqDef
  <2> HIDE DEF bs, L
  <2>3. Len(bs) \in Nat /\ DOMAIN bs = 1..Len(bs)
    BY <2>2, LenProperties
  <2> QED
    BY <2>1, <2>3, <1>5
<1> HIDE DEF bs, L, I
<1>12. \A b \in DOMAIN bs :
        /\ bs[b].first \in DOMAIN s /\ bs[b].last \in DOMAIN s
        /\ bs[b].first <= bs[b].last
        /\ bs[b].addr = s[bs[b].first].addr
  <2> SUFFICES ASSUME NEW b \in 1..Len(L)
               PROVE  /\ bs[b].first \in DOMAIN s /\ bs[b].last \in DOMAIN s
                      /\ bs[b].first <= bs[b].last
                      /\ bs[b].addr = s[bs[b].first].addr
    BY <1>11
  <2>1. I(b) \in DOMAIN s /\ bs[b].first = I(b) /\ bs[b].addr = s[I(b)].addr
    BY <1>5, <1>7, <1>8
  <2>2. CASE b < Len(L)
    <3>1. b + 1 \in DOMAIN L /\ I(b + 1) \in DOMAIN s /\ I(b) < I(b + 1)
      BY <2>2, <1>5, <1>7, <1>10
    <3>2. bs[b].last = I(b + 1) - 1
      BY <2>2, <1>5, <1>8
    <3> QED
      BY <2>1, <3>1, <3>2, <1>1
  <2>3. CASE ~(b < Len(L))
    <3>1. bs[b].last = Len(s)
      BY <2>3, <1>5, <1>8
    <3> QED
      BY <2>1, <3>1, <1>1
  <2> QED
    BY <2>2, <2>3
<1>13. \A b, c \in DOMAIN bs : b < c => bs[b].last < bs[c].first
  <2> SUFFICES ASSUME NEW b \in 1..Len(L), NEW c \in 1..Len(L), b < c
               PROVE  bs[b].last < bs[c].first
    BY <1>11
  <2>1. b < Len(L) /\ b + 1 \in DOMAIN L /\ b + 1 <= c
    BY <1>5
  <2>2. I(b + 1) \in Nat /\ I(c) \in Nat /\ I(b + 1) <= I(c)
    <3>1. c \in DOMAIN L /\ I(b + 1) \in Nat /\ I(c) \in Nat
      BY <2>1, <1>1, <1>5, <1>7
    <3>2. b + 1 < c => I(b + 1) < I(c)
      BY <2>1, <3>1, <1>10
    <3> QED
      BY <2>1, <3>1, <3>2, <1>5
  <2>3. bs[b].last = I(b + 1) - 1 /\ bs[c].first = I(c)
    BY <2>1, <1>5, <1>8
  <2> QED
    BY <2>2, <2>3
<1>14. bs[1].first = 1
  BY <1>2, <1>1, <1>5, <1>8, <1>9 DEF I
<1>15. bs[Len(bs)].last = Len(s)
  BY <1>5, <1>8, <1>9, <1>11
<1>16. \A b \in 1 .. Len(bs) - 1 : bs[b + 1].first = bs[b].last + 1
  <2> SUFFICES ASSUME NEW b \in 1 .. Len(L) - 1 PROVE bs[b + 1].first = bs[b].last + 1
    BY <1>11
  <2>1. b \in DOMAIN L /\ b + 1 \in DOMAIN L /\ b < Len(L)
    BY <1>5
  <2>2. bs[b].last = I(b + 1) - 1 /\ bs[b + 1].first = I(b + 1) /\ I(b + 1) \in Nat
    BY <2>1, <1>1, <1>7, <1>8
  <2> QED
    BY <2>2
<1>17. \A a \in Leaders(s, e) : \E b \in DOMAIN bs : bs[b].addr = a
  BY <1>5, <1>8, <1>11
<1>18. Len(bs) \in Nat /\ Len(bs) >= 1 /\ DOMAIN bs = 1..Len(bs)
  BY <1>5, <1>9, <1>11
<1> QED
  BY <1>12, <1>13, <1>14, <1>15, <1>16, <1>17, <1>18 DEF Tiled, bs

(* An entry point the sweep decoded across leaves the first block empty.   *)
LEMMA PanicsOffStream ==
    ASSUME NEW s, IsStream(s), NEW e \in Nat, e <= s[1].addr
    PROVE  Panics(s, e) <=> e \notin Addresses(s)
<1>1. ASSUME e \in Addresses(s) PROVE ~Panics(s, e)
  <2>1. Tiled(s, e, BlocksOf(s, e))
    BY <1>1, BlocksAreTiled
  <2>2. Len(s) \in Nat /\ DOMAIN s = 1..Len(s)
    BY StreamFacts
  <2>3. \A b \in DOMAIN BlocksOf(s, e) :
          /\ BlocksOf(s, e)[b].first \in Nat /\ BlocksOf(s, e)[b].last \in Nat
          /\ BlocksOf(s, e)[b].first <= BlocksOf(s, e)[b].last
    BY <2>1, <2>2 DEF Tiled
  <2> QED
    BY <2>3 DEF Panics
<1>2. ASSUME e \notin Addresses(s) PROVE Panics(s, e)
  <2> DEFINE L == SortedLeaders(s, e)
  <2>1. /\ Len(L) \in Nat /\ DOMAIN L = 1..Len(L)
        /\ \A b \in DOMAIN L : L[b] \in Leaders(s, e) /\ L[b] \in Nat
        /\ \A b, c \in DOMAIN L : b < c => L[b] < L[c]
        /\ \A a \in Leaders(s, e) : \E b \in DOMAIN L : L[b] = a
    BY SortedLeaderFacts
  <2>2. /\ e \in Leaders(s, e) /\ s[1].addr \in Leaders(s, e)
        /\ s[1].addr \in Addresses(s)
        /\ Leaders(s, e) \subseteq Addresses(s) \cup {e}
    BY LeaderFacts
  <2>3. /\ Len(s) \in Nat /\ Len(s) >= 1 /\ DOMAIN s = 1..Len(s)
        /\ \A k \in DOMAIN s : s[k].addr \in Nat
        /\ \A k \in DOMAIN s : 1 < k => s[1].addr < s[k].addr
    BY StreamFacts
  <2>4. BlocksOf(s, e) = [b \in DOMAIN L |-> Cut(s, L, b)]
    BY DEF BlocksOf, IsStream
  <2>5. PICK b \in DOMAIN L : L[b] = e
    BY <2>1, <2>2
  <2>6. PICK c \in DOMAIN L : L[c] = s[1].addr
    BY <2>1, <2>2
  <2> HIDE DEF L
  <2>7. b < c
    <3>1. e < s[1].addr
      BY <1>2, <2>2, <2>3
    <3> QED
      BY <2>1, <2>5, <2>6, <3>1
  <2>8. b + 1 \in DOMAIN L /\ b < Len(L) /\ b < b + 1
    BY <2>1, <2>7
  <2>9. L[b + 1] \in Addresses(s)
    BY <1>2, <2>1, <2>2, <2>5, <2>8
  <2>10. L[b + 1] = s[1].addr
    <3>1. L[b + 1] <= L[c]
      <4>1. CASE b + 1 = c
        BY <4>1, <2>1
      <4>2. CASE b + 1 < c
        BY <4>2, <2>1, <2>8
      <4> QED
        BY <4>1, <4>2, <2>1, <2>7
    <3>2. PICK k \in DOMAIN s : L[b + 1] = s[k].addr
      BY <2>9 DEF Addresses
    <3>3. s[k].addr >= s[1].addr
      BY <2>3, <3>2
    <3> QED
      BY <2>1, <2>3, <2>6, <2>8, <3>1, <3>2, <3>3
  <2>11. IndexOf(s, e) = 1 /\ IndexOf(s, s[1].addr) = 1
    BY <1>2, <2>3, IndexOfAddress
  <2>12. Cut(s, L, b).first = 1 /\ Cut(s, L, b).last = 0
    BY <2>5, <2>8, <2>9, <2>10, <2>11 DEF Cut
  <2>13. b \in DOMAIN BlocksOf(s, e) /\ BlocksOf(s, e)[b] = Cut(s, L, b)
    BY <2>4
  <2> QED
    BY <2>12, <2>13 DEF Panics
<1> QED
  BY <1>1, <1>2

-----------------------------------------------------------------------------
(* A block is found by its address.                                        *)
LEMMA BlocksByAddress ==
    ASSUME NEW s, IsStream(s), NEW e, NEW bs, Tiled(s, e, bs)
    PROVE  /\ \A b \in DOMAIN bs : IsBlock(bs, bs[b].addr) /\ BlockAt(bs, bs[b].addr) = b
           /\ \A a : IsBlock(bs, a) => BlockAt(bs, a) \in DOMAIN bs /\ bs[BlockAt(bs, a)].addr = a
<1>1. Len(s) \in Nat /\ DOMAIN s = 1..Len(s)
      /\ \A j, k \in DOMAIN s : s[j].addr = s[k].addr => j = k
  BY StreamFacts
<1>2. \A b, c \in DOMAIN bs : bs[b].addr = bs[c].addr => b = c
  <2> SUFFICES ASSUME NEW b \in DOMAIN bs, NEW c \in DOMAIN bs, bs[b].addr = bs[c].addr
               PROVE  b = c
    OBVIOUS
  <2>1. bs[b].first = bs[c].first
    BY <1>1 DEF Tiled
  <2>2. \A d \in DOMAIN bs : bs[d].first \in Nat /\ bs[d].last \in Nat
                             /\ bs[d].first <= bs[d].last
    BY <1>1 DEF Tiled
  <2>3. ~(b < c) /\ ~(c < b)
    BY <2>1, <2>2 DEF Tiled
  <2>4. b \in Nat /\ c \in Nat
    BY DEF Tiled
  <2> QED
    BY <2>3, <2>4
<1> QED
  BY <1>2 DEF IsBlock, BlockAt

(* The successors of a block are the blocks its instructions jump to or    *)
(* call, and the one behind it unless the last instruction goes away.      *)
LEMMA SuccessorFacts ==
    ASSUME NEW s, IsStream(s), NEW e, NEW bs, Tiled(s, e, bs), NEW b \in DOMAIN bs
    PROVE  /\ Successors(s, bs, b) \in Seq(DOMAIN bs)
           /\ \A c \in DOMAIN bs :
                c \in Range(Successors(s, bs, b))
                  <=> \/ \E k \in bs[b].first .. bs[b].last :
                           s[k].op # "other" /\ s[k].target # 0 /\ s[k].target = bs[c].addr
                      \/ /\ s[bs[b].last].op \notin {"RET", "JMP"}
                         /\ After(s[bs[b].last]) = bs[c].addr
<1> DEFINE jumps == {k \in bs[b].first .. bs[b].last :
                       /\ s[k].op # "other" /\ s[k].target # 0
                       /\ IsBlock(bs, s[k].target)}
           taken == InOrder(jumps)
           last  == s[bs[b].last]
           next  == IF last.op \in {"RET", "JMP"} \/ ~IsBlock(bs, After(last))
                    THEN << >> ELSE <<BlockAt(bs, After(last))>>
           along == [k \in DOMAIN taken |-> BlockAt(bs, s[taken[k]].target)]
<1>1. Successors(s, bs, b) = along \o next
  BY DEF Successors
<1>2. bs[b].first \in Nat /\ bs[b].last \in Nat
  BY StreamFacts DEF Tiled
<1>3. jumps \in SUBSET Nat /\ IsFiniteSet(jumps)
  <2>1. IsFiniteSet(bs[b].first .. bs[b].last) /\ bs[b].first .. bs[b].last \subseteq Nat
    <3>1. bs[b].first \in Int /\ bs[b].last \in Int
      BY <1>2
    <3>2. IsFiniteSet(bs[b].first .. bs[b].last)
      BY <3>1, FS_Interval
    <3> QED
      BY <1>2, <3>2
  <2>2. jumps \subseteq bs[b].first .. bs[b].last
    OBVIOUS
  <2> HIDE DEF jumps
  <2> QED
    BY <2>1, <2>2, FS_Subset
<1>4. /\ taken \in Seq(jumps) /\ DOMAIN taken = 1..Len(taken) /\ Len(taken) \in Nat
      /\ \A k \in jumps : \E j \in DOMAIN taken : taken[j] = k
      /\ \A j \in DOMAIN taken : taken[j] \in jumps
  <2> HIDE DEF jumps
  <2>1. /\ taken \in Seq(jumps)
        /\ \A k \in jumps : \E j \in DOMAIN taken : taken[j] = k
    BY <1>3, InOrderLists
  <2> HIDE DEF taken
  <2>2. DOMAIN taken = 1..Len(taken) /\ Len(taken) \in Nat
    BY <2>1, LenProperties
  <2> QED
    BY <2>1, <2>2, ElementOfSeq
<1>5. \A a : IsBlock(bs, a) => BlockAt(bs, a) \in DOMAIN bs /\ bs[BlockAt(bs, a)].addr = a
  BY BlocksByAddress
<1>6. \A k \in jumps : BlockAt(bs, s[k].target) \in DOMAIN bs
  BY <1>5
<1> HIDE DEF jumps, taken
<1>7. along \in Seq(DOMAIN bs)
  <2>1. along \in [1..Len(taken) -> DOMAIN bs]
    BY <1>4, <1>6
  <2> HIDE DEF along
  <2> QED
    BY <2>1, <1>4, SeqDef
<1>8. next \in Seq(DOMAIN bs)
  <2>1. << >> \in Seq(DOMAIN bs) /\ \A d \in DOMAIN bs : <<d>> \in Seq(DOMAIN bs)
    BY EmptySeq
  <2> QED
    BY <2>1, <1>5
<1>9. Range(along) = {BlockAt(bs, s[k].target) : k \in jumps}
  <2>1. Range(along) = {BlockAt(bs, s[taken[k]].target) : k \in DOMAIN taken}
    BY DEF Range
  <2>2. {BlockAt(bs, s[taken[k]].target) : k \in DOMAIN taken}
          = {BlockAt(bs, s[k].target) : k \in jumps}
    BY <1>4
  <2> QED
    BY <2>1, <2>2
<1>10. Range(next) = IF last.op \in {"RET", "JMP"} \/ ~IsBlock(bs, After(last))
                     THEN {} ELSE {BlockAt(bs, After(last))}
  <2>1. Range(<< >>) = {} /\ \A d : Range(<<d>>) = {d}
    BY DEF Range
  <2> QED
    BY <2>1
<1> HIDE DEF along, next
<1>11. Range(Successors(s, bs, b)) = Range(along) \cup Range(next)
  BY <1>1, <1>7, <1>8, RangeConcatenation
<1>12. Successors(s, bs, b) \in Seq(DOMAIN bs)
  BY <1>1, <1>7, <1>8, ConcatProperties
<1>13. \A c \in DOMAIN bs : IsBlock(bs, bs[c].addr) /\ BlockAt(bs, bs[c].addr) = c
  BY BlocksByAddress
<1>14. ASSUME NEW c \in DOMAIN bs
       PROVE  c \in Range(along) <=> \E k \in bs[b].first .. bs[b].last :
                s[k].op # "other" /\ s[k].target # 0 /\ s[k].target = bs[c].addr
  BY <1>5, <1>9, <1>13 DEF jumps
<1>15. ASSUME NEW c \in DOMAIN bs
       PROVE  c \in Range(next) <=> /\ last.op \notin {"RET", "JMP"}
                                    /\ After(last) = bs[c].addr
  <2> HIDE DEF last
  <2> QED
    BY <1>5, <1>10, <1>13
<1> QED
  BY <1>11, <1>12, <1>14, <1>15

(* Where control goes from the instructions of a block, unless to the next *)
(* instruction of the same block.                                          *)
Away(bs, b) ==
  LET inside == bs[b].first .. bs[b].last
      flow   == UNION {{<<k, j>> : j \in FlowsTo(k)} : k \in inside}
  IN  {x \in flow : x[2] # x[1] + 1 \/ x[2] \notin inside}

(* They are what the successors of the block begin with.                   *)
LEMMA EdgesFollowControl ==
    ASSUME IsStream(insts), NEW e, NEW bs, Tiled(insts, e, bs), NEW b \in DOMAIN bs,
           NEW sq, sq = Successors(insts, bs, b)
    PROVE  {bs[c].first : c \in Range(sq)} = {x[2] : x \in Away(bs, b)}
<1> DEFINE inside == bs[b].first .. bs[b].last
           flow   == UNION {{<<k, j>> : j \in FlowsTo(k)} : k \in inside}
           away   == {x \in flow : x[2] # x[1] + 1 \/ x[2] \notin inside}
           last   == bs[b].last
<1>1. /\ Len(insts) \in Nat /\ DOMAIN insts = 1..Len(insts)
      /\ \A k \in DOMAIN insts :
           /\ insts[k].addr \in Nat /\ insts[k].addr # 0
           /\ After(insts[k]) \in Nat /\ insts[k].addr < After(insts[k])
           /\ insts[k].op \in Operations /\ insts[k].target \in Nat
      /\ \A j, k \in DOMAIN insts :
           /\ insts[j].addr = insts[k].addr => j = k
           /\ insts[j].addr < insts[k].addr => j < k
  BY StreamFacts
<1>2. \A j, k \in DOMAIN insts : j < k => After(insts[j]) <= insts[k].addr
  BY DEF IsStream
<1>3. /\ Len(bs) \in Nat /\ DOMAIN bs = 1..Len(bs)
      /\ \A c \in DOMAIN bs :
           /\ bs[c].first \in DOMAIN insts /\ bs[c].last \in DOMAIN insts
           /\ bs[c].first <= bs[c].last
           /\ bs[c].first \in Nat /\ bs[c].last \in Nat
           /\ bs[c].addr = insts[bs[c].first].addr
      /\ bs[Len(bs)].last = Len(insts)
      /\ \A c \in 1 .. Len(bs) - 1 : bs[c + 1].first = bs[c].last + 1
      /\ \A c, d \in DOMAIN bs : c < d => bs[c].last < bs[d].first
  BY <1>1 DEF Tiled
<1>4. \A a \in Leaders(insts, e) : \E c \in DOMAIN bs : bs[c].addr = a
  BY DEF Tiled
<1>5. /\ sq \in Seq(DOMAIN bs)
      /\ \A c \in DOMAIN bs :
           c \in Range(sq)
             <=> \/ \E k \in inside :
                      insts[k].op # "other" /\ insts[k].target # 0 /\ insts[k].target = bs[c].addr
                 \/ /\ insts[last].op \notin {"RET", "JMP"}
                    /\ After(insts[last]) = bs[c].addr
  BY SuccessorFacts
<1>6. Range(sq) \subseteq DOMAIN bs
  BY <1>5, RangeOfSeq
<1>7. inside \subseteq DOMAIN insts /\ last \in inside /\ last \in Nat
  BY <1>1, <1>3
<1>8. \A c \in DOMAIN bs : bs[c].first \in inside => c = b
  <2> SUFFICES ASSUME NEW c \in DOMAIN bs, bs[c].first \in inside, c # b PROVE FALSE
    OBVIOUS
  <2>1. c \in Nat /\ b \in Nat
    BY <1>3
  <2>2. CASE c < b
    BY <2>2, <1>3
  <2>3. CASE b < c
    BY <2>3, <1>3
  <2> QED
    BY <2>1, <2>2, <2>3
<1>9. \A x \in away : x[1] \in inside /\ x[2] \in FlowsTo(x[1])
  OBVIOUS
<1>10. \A k \in inside : \A j \in FlowsTo(k) :
         j # k + 1 \/ j \notin inside => <<k, j>> \in away /\ <<k, j>>[2] = j
  OBVIOUS
<1> HIDE DEF away, flow
<1>11. ASSUME NEW c \in Range(sq) PROVE bs[c].first \in {x[2] : x \in away}
  <2> DEFINE j == bs[c].first
  <2>1. c \in DOMAIN bs /\ j \in DOMAIN insts /\ insts[j].addr = bs[c].addr /\ j \in Nat
    BY <1>3, <1>6
  <2>2. CASE \E k \in inside : insts[k].op # "other" /\ insts[k].target # 0
                              /\ insts[k].target = bs[c].addr
    <3>1. PICK k \in inside : insts[k].op # "other" /\ insts[k].target = bs[c].addr
      BY <2>2
    <3>2. j \in FlowsTo(k)
      BY <2>1, <3>1 DEF FlowsTo
    <3>3. j # k + 1 \/ j \notin inside
      <4> SUFFICES ASSUME j = k + 1, j \in inside PROVE FALSE
        OBVIOUS
      <4>1. c = b
        BY <1>8, <2>1
      <4>2. k >= bs[b].first /\ k \in Nat /\ bs[b].first \in Nat
        BY <1>1, <1>3
      <4> QED
        BY <4>1, <4>2
    <3>4. <<k, j>> \in away /\ <<k, j>>[2] = j
      BY <1>10, <3>2, <3>3
    <3> HIDE DEF j
    <3>5. j \in {x[2] : x \in away}
      BY <3>4
    <3> QED
      BY <3>5 DEF j
  <2>3. CASE /\ insts[last].op \notin {"RET", "JMP"}
             /\ After(insts[last]) = bs[c].addr
    <3>1. j \in FlowsTo(last)
      BY <2>1, <2>3 DEF FlowsTo
    <3>2. j \notin inside
      <4>1. insts[last].addr < insts[j].addr
        BY <1>1, <1>7, <2>1, <2>3
      <4>2. last < j
        BY <4>1, <1>1, <1>7, <2>1
      <4> QED
        BY <4>2, <1>3, <2>1
    <3>3. <<last, j>> \in away /\ <<last, j>>[2] = j
      BY <1>7, <1>10, <3>1, <3>2
    <3> HIDE DEF j
    <3>4. j \in {x[2] : x \in away}
      BY <3>3
    <3> QED
      BY <3>4 DEF j
  <2> QED
    BY <1>5, <2>1, <2>2, <2>3
<1>12. ASSUME NEW x \in away PROVE x[2] \in {bs[c].first : c \in Range(sq)}
  <2> DEFINE k == x[1]
             j == x[2]
  <2>1. k \in inside /\ j \in FlowsTo(k) /\ (j # k + 1 \/ j \notin inside)
    BY <1>9 DEF away
  <2> HIDE DEF k, j
  <2>2. /\ j \in DOMAIN insts /\ k \in DOMAIN insts /\ j \in Nat /\ k \in Nat
        /\ \/ insts[k].op \notin {"RET", "JMP"} /\ insts[j].addr = After(insts[k])
           \/ insts[k].op # "other" /\ insts[j].addr = insts[k].target
    BY <1>1, <1>7, <2>1 DEF FlowsTo
  <2>3. CASE insts[k].op # "other" /\ insts[j].addr = insts[k].target
    <3>1. insts[k].target # 0 /\ insts[k].target \in Targets(insts)
          /\ insts[k].target \in Addresses(insts)
      BY <1>1, <2>2, <2>3 DEF Targets, Addresses
    <3>2. insts[k].target \in Leaders(insts, e)
      BY <3>1 DEF Leaders
    <3>3. PICK c \in DOMAIN bs : bs[c].addr = insts[k].target
      BY <1>4, <3>2
    <3>4. c \in Range(sq)
      BY <1>5, <2>1, <2>3, <3>1, <3>3
    <3>5. bs[c].first = j
      BY <1>1, <1>3, <2>2, <2>3, <3>3
    <3> QED
      BY <3>4, <3>5 DEF j
  <2>4. CASE insts[k].op \notin {"RET", "JMP"} /\ insts[j].addr = After(insts[k])
    <3>1. insts[k].addr < insts[j].addr
      BY <1>1, <2>2, <2>4
    <3>2. k < j
      BY <1>1, <2>2, <3>1
    <3>3. j = k + 1
      <4> SUFFICES ASSUME k + 1 < j PROVE FALSE
        BY <2>2, <3>2
      <4>1. k + 1 \in DOMAIN insts
        BY <1>1, <2>2
      <4>2. After(insts[k]) <= insts[k + 1].addr
        BY <1>2, <2>2, <4>1
      <4>3. insts[k + 1].addr < After(insts[k + 1]) /\ After(insts[k + 1]) <= insts[j].addr
        BY <1>1, <1>2, <2>2, <4>1
      <4> QED
        BY <1>1, <2>2, <2>4, <4>1, <4>2, <4>3
    <3>4. k = last
      BY <1>3, <2>1, <2>2, <3>3
    <3>5. b < Len(bs)
      <4>1. b \in 1..Len(bs) /\ last < Len(insts)
        BY <1>1, <1>3, <2>2, <3>3, <3>4
      <4> QED
        BY <1>1, <1>3, <4>1
    <3>6. b + 1 \in DOMAIN bs /\ bs[b + 1].first = j
      BY <1>3, <3>3, <3>4, <3>5
    <3>7. After(insts[last]) = bs[b + 1].addr
      BY <1>3, <2>4, <3>4, <3>6
    <3>8. b + 1 \in Range(sq)
      BY <1>5, <2>4, <3>4, <3>6, <3>7
    <3> QED
      BY <3>6, <3>8 DEF j
  <2> QED
    BY <2>2, <2>3, <2>4
<1>13. {bs[c].first : c \in Range(sq)} = {x[2] : x \in away}
  BY <1>11, <1>12
<1> QED
  BY <1>13 DEF away, flow, Away

-----------------------------------------------------------------------------
(* Counting the items of two lists one after the other.                    *)
LEMMA CountOfConcat ==
    ASSUME NEW X, NEW s \in Seq(X), NEW t \in Seq(X), NEW w, NEW a
    PROVE  /\ CountIn(s, w, a) \in Nat
           /\ CountIn(s \o t, w, a) = CountIn(s, w, a) + CountIn(t, w, a)
<1> DEFINE Of(q) == {k \in DOMAIN q : q[k].what \in w /\ q[k].at = a}
           n == Len(s)
           behind == {k \in Of(s \o t) : k > n}
           f == [k \in Of(t) |-> k + n]
<1>1. /\ n \in Nat /\ DOMAIN s = 1..n
      /\ Len(t) \in Nat /\ DOMAIN t = 1..Len(t)
      /\ DOMAIN (s \o t) = 1..(n + Len(t))
      /\ \A k \in 1..(n + Len(t)) : (s \o t)[k] = IF k <= n THEN s[k] ELSE t[k - n]
  <2>1. s \o t \in Seq(X) /\ Len(s \o t) = n + Len(t)
        /\ \A k \in 1..(n + Len(t)) : (s \o t)[k] = IF k <= n THEN s[k] ELSE t[k - n]
    BY ConcatProperties
  <2> QED
    BY <2>1, LenProperties
<1> HIDE DEF n
<1>2. IsFiniteSet(Of(s)) /\ IsFiniteSet(Of(t))
  <2>1. \A m \in Nat : IsFiniteSet(1..m)
    BY FS_Interval
  <2>2. Of(s) \subseteq 1..n /\ Of(t) \subseteq 1..Len(t)
    BY <1>1
  <2> HIDE DEF Of
  <2> QED
    BY <1>1, <2>1, <2>2, FS_Subset
<1>3. Of(s) = {k \in Of(s \o t) : k <= n}
  BY <1>1
<1>4. f \in Bijection(Of(t), behind)
  <2>1. \A k \in Of(t) : k + n \in behind
    BY <1>1
  <2>2. \A k \in behind : k - n \in Of(t) /\ (k - n) + n = k
    BY <1>1
  <2>3. \A j, k \in Of(t) : j + n = k + n => j = k
    BY <1>1
  <2> HIDE DEF Of, behind
  <2> QED
    <3>1. f \in [Of(t) -> behind]
      BY <2>1
    <3>2. \A j, k \in Of(t) : f[j] = f[k] => j = k
      BY <2>3
    <3>3. \A k \in behind : \E j \in Of(t) : f[j] = k
      BY <2>2
    <3> HIDE DEF f
    <3> QED
      BY <3>1, <3>2, <3>3 DEF Bijection, Injection, Surjection, IsInjective
<1>5. IsFiniteSet(behind) /\ Cardinality(behind) = Cardinality(Of(t))
  <2> HIDE DEF Of, behind, f
  <2> QED
    BY <1>2, <1>4, FS_Bijection DEF ExistsBijection
<1>6. Of(s \o t) = Of(s) \cup behind /\ Of(s) \cap behind = {}
  <2>1. \A k \in Of(s \o t) : k \in Nat
    BY <1>1
  <2>2. \A k \in Of(s \o t) : k <= n \/ k > n
    BY <1>1, <2>1
  <2>3. \A k \in Of(s \o t) : ~(k <= n /\ k > n)
    BY <1>1, <2>1
  <2> HIDE DEF Of
  <2> QED
    BY <1>3, <2>2, <2>3
<1>7. Cardinality(Of(s \o t)) = Cardinality(Of(s)) + Cardinality(Of(t))
  <2> HIDE DEF Of, behind
  <2>1. Cardinality(Of(s) \cup behind)
          = Cardinality(Of(s)) + Cardinality(behind) - Cardinality(Of(s) \cap behind)
    BY <1>2, <1>5, FS_Union
  <2>2. Cardinality(Of(s) \cap behind) = 0
    BY <1>6, FS_EmptySet
  <2>3. Cardinality(Of(s)) \in Nat /\ Cardinality(Of(t)) \in Nat
    BY <1>2, FS_CardinalityType
  <2> QED
    BY <2>1, <2>2, <2>3, <1>5, <1>6
<1>8. Cardinality(Of(s)) \in Nat
  BY <1>2, FS_CardinalityType
<1> QED
  BY <1>7, <1>8 DEF CountIn

(* Counting in a list of at most one item.                                 *)
LEMMA CountOfOne ==
    ASSUME NEW w, NEW a
    PROVE  /\ CountIn(<< >>, w, a) = 0
           /\ \A x : CountIn(<<x>>, w, a) = IF x.what \in w /\ x.at = a THEN 1 ELSE 0
<1>1. CountIn(<< >>, w, a) = 0
  <2>1. {k \in DOMAIN << >> : << >>[k].what \in w /\ << >>[k].at = a} = {}
    OBVIOUS
  <2> QED
    BY <2>1, FS_EmptySet DEF CountIn
<1>2. ASSUME NEW x
      PROVE  CountIn(<<x>>, w, a) = IF x.what \in w /\ x.at = a THEN 1 ELSE 0
  <2> DEFINE D == {k \in DOMAIN <<x>> : <<x>>[k].what \in w /\ <<x>>[k].at = a}
  <2>1. DOMAIN <<x>> = {1} /\ <<x>>[1] = x
    OBVIOUS
  <2>2. D = IF x.what \in w /\ x.at = a THEN {1} ELSE {}
    BY <2>1
  <2>3. CountIn(<<x>>, w, a) = Cardinality(D)
    BY DEF CountIn
  <2> HIDE DEF D
  <2> QED
    BY <2>2, <2>3, FS_EmptySet, FS_Singleton
<1> QED
  BY <1>1, <1>2

(* The same for an item of the body.                                       *)
LEMMA CountOfItem ==
    ASSUME NEW how, NEW b, NEW w, NEW a
    PROVE  CountIn(<<Item(how, b)>>, w, a) = IF how \in w /\ a = b THEN 1 ELSE 0
<1> DEFINE x == Item(how, b)
<1>1. x.what = how /\ x.at = b
  BY DEF Item
<1> HIDE DEF x
<1>2. CountIn(<<x>>, w, a) = IF x.what \in w /\ x.at = a THEN 1 ELSE 0
  BY CountOfOne
<1>3. CountIn(<<x>>, w, a) = IF how \in w /\ a = b THEN 1 ELSE 0
  BY <1>1, <1>2
<1> QED
  BY <1>3 DEF x

(* A list of matches expanded has each of them once, if the list does, and *)
(* items of no other kind.                                                 *)
LEMMA CountOfExpand ==
    ASSUME NEW Y, NEW q \in Seq(Y), \A j, k \in DOMAIN q : q[j] = q[k] => j = k,
           NEW w, NEW a
    PROVE  /\ Expand(q) \in Seq([what : {"expand"}, at : Y])
           /\ CountIn(Expand(q), w, a) = IF "expand" \in w /\ a \in Range(q) THEN 1 ELSE 0
<1> DEFINE D == {k \in DOMAIN Expand(q) : Expand(q)[k].what \in w /\ Expand(q)[k].at = a}
<1>1. Len(q) \in Nat /\ DOMAIN q = 1..Len(q) /\ \A k \in 1..Len(q) : q[k] \in Y
  BY LenProperties, ElementOfSeq
<1>2. DOMAIN Expand(q) = 1..Len(q)
      /\ \A k \in 1..Len(q) : /\ Expand(q)[k] = Item("expand", q[k])
                              /\ Expand(q)[k].what = "expand" /\ Expand(q)[k].at = q[k]
  BY <1>1 DEF Expand, Item
<1>3. Expand(q) \in Seq([what : {"expand"}, at : Y])
  <2> DEFINE Z == [what : {"expand"}, at : Y]
  <2>1. Expand(q) \in [1..Len(q) -> Z]
    BY <1>1 DEF Expand, Item
  <2> HIDE DEF Z
  <2>2. Expand(q) \in Seq(Z)
    BY <2>1, <1>1, SeqDef
  <2> QED
    BY <2>2 DEF Z
<1>4. CASE "expand" \in w /\ a \in Range(q)
  <2>1. PICK k \in DOMAIN q : q[k] = a
    BY <1>4 DEF Range
  <2>2. D = {k}
    BY <1>1, <1>2, <1>4, <2>1
  <2> HIDE DEF D
  <2>3. Cardinality(D) = 1
    BY <2>2, FS_Singleton
  <2> QED
    BY <1>3, <1>4, <2>3 DEF CountIn, D
<1>5. CASE ~("expand" \in w /\ a \in Range(q))
  <2>1. D = {}
    BY <1>1, <1>2, <1>5 DEF Range
  <2> HIDE DEF D
  <2>2. Cardinality(D) = 0
    BY <2>1, FS_EmptySet
  <2> QED
    BY <1>3, <1>5, <2>2 DEF CountIn, D
<1> QED
  BY <1>4, <1>5

(* Matches that do not begin at the same address, by where they begin.     *)
LEMMA ByAddressLists ==
    ASSUME NEW ms, ms \subseteq [start : Nat, end : Nat], IsFiniteSet(ms),
           \A m, n \in ms : m.start = n.start => m = n
    PROVE  /\ ByAddress(ms) \in Seq(ms)
           /\ \A j, k \in DOMAIN ByAddress(ms) : ByAddress(ms)[j] = ByAddress(ms)[k] => j = k
           /\ Range(ByAddress(ms)) = ms
           /\ ms # {} => Len(ByAddress(ms)) >= 1
<1> DEFINE begins == {m.start : m \in ms}
           starts == InOrder(begins)
           q == ByAddress(ms)
<1>1. begins \in SUBSET Nat /\ IsFiniteSet(begins)
  <2> DEFINE f == [m \in ms |-> m.start]
  <2>1. begins = {f[m] : m \in ms}
    OBVIOUS
  <2>2. begins \in SUBSET Nat
    OBVIOUS
  <2> HIDE DEF f, begins
  <2>3. IsFiniteSet({f[m] : m \in ms})
    BY ImageIsFinite
  <2> QED
    BY <2>1, <2>2, <2>3
<1>2. /\ starts \in Seq(begins)
      /\ \A j, k \in DOMAIN starts : j < k => starts[j] < starts[k]
      /\ \A x \in begins : \E k \in DOMAIN starts : starts[k] = x
  <2> HIDE DEF begins
  <2> QED
    BY <1>1, InOrderLists
<1>3. q = [k \in DOMAIN starts |-> CHOOSE m \in ms : m.start = starts[k]]
  BY DEF ByAddress
<1> HIDE DEF starts
<1>4. /\ Len(starts) \in Nat /\ DOMAIN starts = 1..Len(starts)
      /\ \A k \in 1..Len(starts) : starts[k] \in begins /\ starts[k] \in Nat
  <2> HIDE DEF begins
  <2>1. Len(starts) \in Nat /\ DOMAIN starts = 1..Len(starts)
    BY <1>2, LenProperties
  <2>2. \A k \in 1..Len(starts) : starts[k] \in begins
    BY <1>2, <2>1, ElementOfSeq
  <2> QED
    BY <1>1, <2>1, <2>2
<1> HIDE DEF q
<1>5. \A k \in DOMAIN starts : q[k] \in ms /\ q[k].start = starts[k]
  BY <1>3, <1>4
<1>6. DOMAIN q = 1..Len(starts) /\ q \in Seq(ms)
  <2>1. q \in [1..Len(starts) -> ms]
    BY <1>3, <1>4, <1>5
  <2> QED
    BY <2>1, <1>4, SeqDef
<1>7. \A j, k \in DOMAIN q : q[j] = q[k] => j = k
  <2> SUFFICES ASSUME NEW j \in 1..Len(starts), NEW k \in 1..Len(starts), q[j] = q[k]
               PROVE  j = k
    BY <1>6
  <2>1. starts[j] = starts[k]
    BY <1>4, <1>5
  <2>2. starts[j] \in Nat /\ j \in DOMAIN starts /\ k \in DOMAIN starts
    BY <1>4
  <2>3. /\ j < k => starts[j] < starts[k]
        /\ k < j => starts[k] < starts[j]
    BY <1>2, <2>2
  <2>4. ~(j < k) /\ ~(k < j)
    BY <2>1, <2>2, <2>3
  <2> QED
    BY <2>4, <1>4
<1>8. Range(q) = ms
  <2>1. ASSUME NEW m \in ms PROVE m \in Range(q)
    <3>1. PICK k \in DOMAIN starts : starts[k] = m.start
      BY <1>2
    <3>2. q[k] = m
      BY <3>1, <1>5
    <3> QED
      BY <3>1, <3>2, <1>4, <1>6 DEF Range
  <2> QED
    BY <2>1, <1>4, <1>5, <1>6 DEF Range
<1>9. Len(q) = Len(starts)
  BY <1>4, <1>6, LenProperties
<1>10. ms # {} => Len(q) >= 1
  <2> SUFFICES ASSUME NEW m \in ms PROVE Len(q) >= 1
    OBVIOUS
  <2>1. PICK k \in DOMAIN starts : starts[k] = m.start
    BY <1>2
  <2> QED
    BY <2>1, <1>4, <1>9
<1> QED
  BY <1>6, <1>7, <1>8, <1>10 DEF q

-----------------------------------------------------------------------------
(* The inductive invariant. First, what is built when: nothing before the  *)
(* body, and the blocks and their successors, as the code computes them,   *)
(* from then on.                                                           *)
BuiltInv ==
  /\ func \in Functions /\ matches \in Layouts
  /\ pc \in {"recover", "build", "body", "done", "panicked"}
  /\ ~Built => blocks = << >> /\ succ = << >> /\ i = 1 /\ emitted = {} /\ body = << >>
  /\ pc = "panicked" => Panics(insts, func.entry)
  /\ pc \notin {"recover", "panicked"} => ~Panics(insts, func.entry)
  /\ Built => /\ blocks = BlocksOf(insts, func.entry)
              /\ succ = [b \in DOMAIN blocks |-> Successors(insts, blocks, b)]

(* The loop has emitted the blocks it has passed, and of those ahead of it *)
(* only ones simple enough to be inlined.                                  *)
LoopInv ==
  /\ i \in 1 .. Len(blocks) + 1
  /\ emitted \subseteq DOMAIN blocks
  /\ \A b \in DOMAIN blocks : b < i => b \in emitted
  /\ \A b \in emitted : b >= i => isSimpleBlockContent(b)
  /\ pc = "done" => i = Len(blocks) + 1

BodyItem ==
  [what : {"label", "block", "else", "goto"}, at : DOMAIN blocks]
    \cup [what : {"expand", "if"}, at : matches]

(* What the body holds of a block: the block once it is emitted, with its  *)
(* label if it has one, and the jumps of the conditional blocks the loop   *)
(* has passed.                                                             *)
BlocksInv ==
  \A b \in DOMAIN blocks :
    /\ Count({"block", "else"}, b) = IF b \in emitted THEN 1 ELSE 0
    /\ Count({"label"}, b) = IF b \in emitted \cap UsedLabels THEN 1 ELSE 0
    /\ Count({"goto"}, b) > 0 => b \in UsedLabels
    /\ \A c \in DOMAIN blocks :
         b \in UsedLabels /\ IsCond(c) /\ ElseTarget(c) = b /\ c < i /\ c < b
           => Count({"goto"}, b) > 0

(* What it holds of a match: nothing unless the block the match lies in is *)
(* emitted.                                                                *)
MatchesInv ==
  \A m \in matches :
    /\ Count({"expand", "if"}, m) <= 1
    /\ Count({"expand", "if"}, m) > 0 => \E b \in emitted : m \in BlockMatches(b)

BodyInv == BuiltInv /\ LoopInv /\ body \in Seq(BodyItem) /\ BlocksInv /\ MatchesInv

(* What the assumptions say of the function and the matches at hand.       *)
LEMMA InputFacts ==
    ASSUME BuiltInv
    PROVE  /\ IsStream(insts)
           /\ func.entry \in Nat /\ func.entry <= insts[1].addr
           /\ matches \subseteq [start : Nat, end : Nat] /\ IsFiniteSet(matches)
           /\ \A m \in matches :
                /\ m.start \in Nat /\ m.end \in Nat /\ m.start < m.end
                /\ \A n \in matches : m.start = n.start => m = n
<1>1. func \in Functions /\ matches \in Layouts
  BY DEF BuiltInv
<1>2. IsStream(insts) /\ func.entry \in Nat /\ func.entry <= insts[1].addr
  BY <1>1, FunctionsAssumption DEF insts
<1>3. /\ matches \subseteq [start : Nat, end : Nat] /\ IsFiniteSet(matches)
      /\ \A m \in matches :
           /\ m.start < m.end
           /\ \A n \in matches : m # n => m.end <= n.start \/ n.end <= m.start
  BY <1>1, LayoutsAssumption
<1>4. \A m \in matches : m.start \in Nat /\ m.end \in Nat
  BY <1>3
<1>5. ASSUME NEW m \in matches, NEW n \in matches, m.start = n.start PROVE m = n
  BY <1>3, <1>4, <1>5
<1> QED
  BY <1>2, <1>3, <1>4, <1>5

(* What the blocks and their successors are once they are built.           *)
LEMMA BuiltFacts ==
    ASSUME BuiltInv, Built
    PROVE  /\ func.entry \in Addresses(insts)
           /\ Tiled(insts, func.entry, blocks)
           /\ Len(blocks) \in Nat /\ DOMAIN blocks = 1..Len(blocks)
           /\ succ \in [DOMAIN blocks -> Seq(DOMAIN blocks)]
           /\ \A b \in DOMAIN blocks : IsCond(b) => ElseTarget(b) \in DOMAIN blocks
<1>1. /\ IsStream(insts) /\ func.entry \in Nat /\ func.entry <= insts[1].addr
      /\ ~Panics(insts, func.entry)
      /\ blocks = BlocksOf(insts, func.entry)
      /\ succ = [b \in DOMAIN blocks |-> Successors(insts, blocks, b)]
  BY InputFacts DEF BuiltInv, Built
<1>2. func.entry \in Addresses(insts)
  BY <1>1, PanicsOffStream
<1>3. Tiled(insts, func.entry, blocks)
  BY <1>1, <1>2, BlocksAreTiled
<1>4. \A b \in DOMAIN blocks : succ[b] = Successors(insts, blocks, b)
                              /\ Successors(insts, blocks, b) \in Seq(DOMAIN blocks)
  BY <1>1, <1>3, SuccessorFacts
<1>5. succ \in [DOMAIN blocks -> Seq(DOMAIN blocks)]
  BY <1>1, <1>4
<1>6. ASSUME NEW b \in DOMAIN blocks, IsCond(b) PROVE ElseTarget(b) \in DOMAIN blocks
  <2>1. Len(succ[b]) > 1 /\ succ[b] \in Seq(DOMAIN blocks)
    BY <1>5, <1>6 DEF IsCond
  <2>2. 2 \in 1..Len(succ[b])
    BY <2>1, LenProperties
  <2> QED
    BY <2>1, <2>2, ElementOfSeq DEF ElseTarget
<1> QED
  BY <1>2, <1>3, <1>5, <1>6 DEF Tiled

(* The matches of a block, and that no match belongs to two.               *)
LEMMA BlockMatchesFacts ==
    ASSUME BuiltInv, Built
    PROVE  /\ \A b : BlockMatches(b) \subseteq matches
           /\ \A b, c \in DOMAIN blocks :
                b # c => BlockMatches(b) \cap BlockMatches(c) = {}
<1>1. \A b : BlockMatches(b) \subseteq matches
  BY DEF BlockMatches, FuncMatches
<1>2. /\ Tiled(insts, func.entry, blocks)
      /\ DOMAIN blocks = 1..Len(blocks)
  BY BuiltFacts
<1>3. /\ \A k \in DOMAIN insts : insts[k].addr \in Nat /\ After(insts[k]) \in Nat
      /\ \A j, k \in DOMAIN insts : j < k => After(insts[j]) <= insts[k].addr
  BY InputFacts, StreamFacts DEF IsStream
<1>4. ASSUME NEW b \in DOMAIN blocks, NEW c \in DOMAIN blocks, b < c,
             NEW m \in BlockMatches(b), m \in BlockMatches(c)
      PROVE  FALSE
  <2>1. m.end <= EndAddr(insts, blocks[b]) /\ m.start >= blocks[c].addr
    BY <1>4 DEF BlockMatches
  <2>2. blocks[b].last < blocks[c].first /\ blocks[b].last \in DOMAIN insts
        /\ blocks[c].first \in DOMAIN insts /\ blocks[c].addr = insts[blocks[c].first].addr
    BY <1>2, <1>4 DEF Tiled
  <2>3. EndAddr(insts, blocks[b]) \in Nat /\ blocks[c].addr \in Nat
        /\ EndAddr(insts, blocks[b]) <= blocks[c].addr
    BY <1>3, <2>2 DEF EndAddr
  <2>4. m.start \in Nat /\ m.end \in Nat /\ m.start < m.end
    BY <1>1, InputFacts
  <2> QED
    BY <2>1, <2>3, <2>4
<1>5. ASSUME NEW b \in DOMAIN blocks, NEW c \in DOMAIN blocks, b # c
      PROVE  BlockMatches(b) \cap BlockMatches(c) = {}
  <2>1. b \in Int /\ c \in Int
    BY <1>2
  <2>2. b < c \/ c < b
    BY <1>5, <2>1
  <2> QED
    BY <1>4, <2>2
<1> QED
  BY <1>1, <1>5

-----------------------------------------------------------------------------
(* What the parts of the body are made of, and how often each item occurs. *)
LEMMA ExpandedMatches ==
    ASSUME BuiltInv, NEW ms, ms \subseteq matches
    PROVE  /\ Expand(ByAddress(ms)) \in Seq(BodyItem)
           /\ \A w, a : CountIn(Expand(ByAddress(ms)), w, a)
                          = IF "expand" \in w /\ a \in ms THEN 1 ELSE 0
<1>1. /\ matches \subseteq [start : Nat, end : Nat] /\ IsFiniteSet(matches)
      /\ \A m, n \in matches : m.start = n.start => m = n
  BY InputFacts
<1>2. IsFiniteSet(ms) /\ ms \subseteq [start : Nat, end : Nat]
  BY <1>1, FS_Subset
<1>3. /\ ByAddress(ms) \in Seq(ms)
      /\ \A j, k \in DOMAIN ByAddress(ms) : ByAddress(ms)[j] = ByAddress(ms)[k] => j = k
      /\ Range(ByAddress(ms)) = ms
  BY <1>1, <1>2, ByAddressLists
<1>4. /\ Expand(ByAddress(ms)) \in Seq([what : {"expand"}, at : ms])
      /\ \A w, a : CountIn(Expand(ByAddress(ms)), w, a)
                     = IF "expand" \in w /\ a \in ms THEN 1 ELSE 0
  BY <1>3, CountOfExpand
<1>5. [what : {"expand"}, at : ms] \subseteq BodyItem
  BY DEF BodyItem
<1> QED
  BY <1>4, <1>5, SeqMonotonic, ZenonT(30)

(* buildPlainBlock expands matches of its block only, none of them twice.  *)
LEMMA PlainBlockItems ==
    ASSUME BuiltInv, Built, NEW b
    PROVE  /\ PlainBlock(b) \in Seq(BodyItem)
           /\ \A w, a : /\ CountIn(PlainBlock(b), w, a) \in {0, 1}
                        /\ CountIn(PlainBlock(b), w, a) > 0
                             => "expand" \in w /\ a \in BlockMatches(b)
<1> DEFINE ms == {m \in BlockMatches(b) :
                    m.start < LastOf(b).addr \/ m.start > After(LastOf(b))}
<1>1. ms \subseteq matches /\ ms \subseteq BlockMatches(b)
  BY BlockMatchesFacts
<1>2. PlainBlock(b) = Expand(ByAddress(ms))
  BY DEF PlainBlock
<1> HIDE DEF ms
<1>3. /\ Expand(ByAddress(ms)) \in Seq(BodyItem)
      /\ \A w, a : CountIn(Expand(ByAddress(ms)), w, a)
                     = IF "expand" \in w /\ a \in ms THEN 1 ELSE 0
  BY <1>1, ExpandedMatches
<1> QED
  BY <1>1, <1>2, <1>3

(* A conditional block uses its matches, each as the condition or in the  *)
(* branch.                                                                 *)
LEMMA TestAndBranchItems ==
    ASSUME BuiltInv, Built, NEW b
    PROVE  /\ Test(b) \in Seq(BodyItem) /\ Branch(b) \in Seq(BodyItem)
           /\ \A w, a : CountIn(Test(b) \o Branch(b), w, a) > 0
                         => ("expand" \in w \/ "if" \in w) /\ a \in BlockMatches(b)
           /\ \A a : CountIn(Test(b) \o Branch(b), {"expand", "if"}, a) <= 1
<1> DEFINE ms == BlockMatches(b)
           q  == ByAddress(ms)
           n  == Len(q)
           front == Front(q)
<1>1. ms \subseteq matches
  BY BlockMatchesFacts
<1>2. CASE ms = {}
  <2>1. Test(b) = << >> /\ Branch(b) = << >>
    BY <1>2 DEF Test, Branch
  <2>2. << >> \in Seq(BodyItem) /\ << >> \o << >> = << >>
    BY EmptySeq, ConcatEmptySeq
  <2>3. \A w, a : CountIn(<< >>, w, a) = 0
    BY CountOfOne
  <2> QED
    BY <2>1, <2>2, <2>3
<1>3. CASE ms # {}
  <2>1. /\ matches \subseteq [start : Nat, end : Nat] /\ IsFiniteSet(matches)
        /\ \A m, k \in matches : m.start = k.start => m = k
    BY InputFacts
  <2> HIDE DEF ms
  <2>2. IsFiniteSet(ms) /\ ms \subseteq [start : Nat, end : Nat]
    BY <1>1, <2>1, FS_Subset
  <2>3. /\ q \in Seq(ms)
        /\ \A j, k \in DOMAIN q : q[j] = q[k] => j = k
        /\ Range(q) = ms
        /\ n >= 1
    BY <1>1, <1>3, <2>1, <2>2, ByAddressLists
  <2> HIDE DEF q
  <2>4. n \in Nat /\ DOMAIN q = 1..n
    BY <2>3, LenProperties
  <2>5. /\ front \in Seq(ms) /\ Len(front) = n - 1
        /\ \A k \in 1..(n - 1) : front[k] = q[k]
    <3>1. \A k \in 1..(n - 1) : q[k] \in ms
      BY <2>3, <2>4, ElementOfSeq
    <3>2. /\ SubSeq(q, 1, n - 1) \in Seq(ms)
          /\ Len(SubSeq(q, 1, n - 1)) = IF 1 <= n - 1 THEN n - 1 - 1 + 1 ELSE 0
          /\ \A k \in 1 .. n - 1 - 1 + 1 : SubSeq(q, 1, n - 1)[k] = q[1 + k - 1]
      <4>1. 1 \in Int /\ n - 1 \in Int
        BY <2>4
      <4> HIDE DEF n
      <4> QED
        BY <3>1, <4>1, SubSeqProperties
    <3>3. front = SubSeq(q, 1, n - 1)
      BY DEF Front
    <3> HIDE DEF front, n
    <3> QED
      BY <2>3, <2>4, <3>2, <3>3
  <2>6. Last(q) = q[n] /\ q[n] \in ms
    BY <2>3, <2>4, ElementOfSeq DEF Last
  <2> HIDE DEF front
  <2>7. DOMAIN front = 1..(n - 1)
    BY <2>4, <2>5, LenProperties
  <2>8. \A j, k \in DOMAIN front : front[j] = front[k] => j = k
    BY <2>3, <2>4, <2>5, <2>7
  <2>9. Range(front) \subseteq ms /\ Last(q) \notin Range(front)
    <3>1. \A k \in 1..n : q[k] \in ms
      BY <2>3, <2>4, ElementOfSeq
    <3> HIDE DEF n
    <3>2. \A k \in 1..(n - 1) : front[k] = q[k] /\ k \in 1..n /\ n \in 1..n /\ k # n
      BY <2>3, <2>4, <2>5
    <3>3. \A k \in 1..(n - 1) : front[k] \in ms /\ front[k] # q[n]
      BY <2>3, <2>4, <3>1, <3>2
    <3> QED
      BY <2>6, <2>7, <3>3 DEF Range
  <2>10. /\ Expand(front) \in Seq([what : {"expand"}, at : ms])
         /\ \A w, a : CountIn(Expand(front), w, a)
                        = IF "expand" \in w /\ a \in Range(front) THEN 1 ELSE 0
    BY <2>5, <2>8, CountOfExpand
  <2>11. Test(b) = <<Item("if", Last(q))>> /\ Branch(b) = Expand(front)
    BY <1>3 DEF Test, Branch, ms, q, front
  <2>12. Branch(b) \in Seq(BodyItem)
    <3>1. [what : {"expand"}, at : ms] \subseteq BodyItem
      BY <1>1 DEF BodyItem
    <3> QED
      BY <2>10, <2>11, <3>1, SeqMonotonic
  <2>13. Test(b) \in Seq(BodyItem)
    <3>1. Item("if", Last(q)) \in BodyItem
      BY <1>1, <2>6 DEF BodyItem, Item
    <3> QED
      BY <2>11, <3>1
  <2>14. \A w, a : CountIn(Test(b), w, a) = IF "if" \in w /\ a = Last(q) THEN 1 ELSE 0
    <3> HIDE DEF q
    <3>1. \A w, a : CountIn(<<Item("if", Last(q))>>, w, a)
                     = IF "if" \in w /\ a = Last(q) THEN 1 ELSE 0
      BY CountOfItem, Zenon
    <3> QED
      BY <2>11, <3>1
  <2>15. \A w, a : CountIn(Test(b) \o Branch(b), w, a)
                     = CountIn(Test(b), w, a) + CountIn(Branch(b), w, a)
    BY <2>12, <2>13, CountOfConcat
  <2>16. ASSUME NEW w, NEW a, CountIn(Test(b) \o Branch(b), w, a) > 0
         PROVE  ("expand" \in w \/ "if" \in w) /\ a \in BlockMatches(b)
    BY <2>6, <2>9, <2>10, <2>11, <2>14, <2>15, <2>16 DEF ms
  <2>17. ASSUME NEW a
         PROVE  CountIn(Test(b) \o Branch(b), {"expand", "if"}, a) <= 1
    BY <2>9, <2>10, <2>11, <2>14, <2>15
  <2> QED
    BY <2>12, <2>13, <2>16, <2>17
<1> QED
  BY <1>2, <1>3

(* The label of a block is there if some goto may need it.                 *)
LEMMA LabelItems ==
    ASSUME NEW b \in DOMAIN blocks
    PROVE  /\ LabelOf(b) \in Seq(BodyItem)
           /\ \A w, a : CountIn(LabelOf(b), w, a)
                         = IF b \in UsedLabels /\ "label" \in w /\ a = b THEN 1 ELSE 0
<1>1. << >> \in Seq(BodyItem)
  BY EmptySeq
<1>2. <<Item("label", b)>> \in Seq(BodyItem)
  BY DEF Item, BodyItem
<1>3. \A w, a : /\ CountIn(<< >>, w, a) = 0
                /\ CountIn(<<Item("label", b)>>, w, a)
                     = IF "label" \in w /\ a = b THEN 1 ELSE 0
  BY CountOfOne DEF Item
<1> QED
  BY <1>1, <1>2, <1>3 DEF LabelOf

(* An item that names a block counts once, for that block.                 *)
LEMMA BeginItems ==
    ASSUME NEW b \in DOMAIN blocks, NEW how \in {"block", "else", "goto"}
    PROVE  /\ <<Item(how, b)>> \in Seq(BodyItem)
           /\ \A w, a : CountIn(<<Item(how, b)>>, w, a)
                         = IF how \in w /\ a = b THEN 1 ELSE 0
<1>1. <<Item(how, b)>> \in Seq(BodyItem)
  BY DEF Item, BodyItem
<1> QED
  BY <1>1, CountOfItem

(* The else branch: the block jumped to with its matches, or a goto to it, *)
(* or nothing.                                                             *)
LEMMA ElseItems ==
    ASSUME BuiltInv, Built, NEW b \in DOMAIN blocks, IsCond(b)
    PROVE  /\ Else(b) \in Seq(BodyItem)
           /\ \A a :
                /\ CountIn(Else(b), {"block", "else"}, a)
                     = IF Inlines(b) /\ a = ElseTarget(b) THEN 1 ELSE 0
                /\ CountIn(Else(b), {"label"}, a) = 0
                /\ CountIn(Else(b), {"goto"}, a)
                     = IF JumpsElse(b) /\ a = ElseTarget(b) THEN 1 ELSE 0
                /\ CountIn(Else(b), {"expand", "if"}, a) \in {0, 1}
                /\ CountIn(Else(b), {"expand", "if"}, a) > 0
                     => Inlines(b) /\ a \in BlockMatches(ElseTarget(b))
<1> DEFINE t == ElseTarget(b)
<1>1. t \in DOMAIN blocks
  BY BuiltFacts
<1>2. /\ Inlines(b) \in BOOLEAN /\ JumpsElse(b) \in BOOLEAN
      /\ ~(Inlines(b) /\ JumpsElse(b))
  BY DEF Inlines, JumpsElse
<1> HIDE DEF t
<1>3. CASE Inlines(b)
  <2>1. Else(b) = <<Item("else", t)>> \o PlainBlock(t)
    BY <1>3 DEF Else, t
  <2>2. /\ <<Item("else", t)>> \in Seq(BodyItem)
        /\ \A w, a : CountIn(<<Item("else", t)>>, w, a) = IF "else" \in w /\ a = t THEN 1 ELSE 0
    BY <1>1, BeginItems
  <2>3. /\ PlainBlock(t) \in Seq(BodyItem)
        /\ \A w, a : /\ CountIn(PlainBlock(t), w, a) \in {0, 1}
                     /\ CountIn(PlainBlock(t), w, a) > 0 => "expand" \in w /\ a \in BlockMatches(t)
    BY PlainBlockItems
  <2>4. Else(b) \in Seq(BodyItem)
    BY <2>1, <2>2, <2>3, ConcatProperties
  <2>5. \A w, a : CountIn(Else(b), w, a)
                    = (IF "else" \in w /\ a = t THEN 1 ELSE 0) + CountIn(PlainBlock(t), w, a)
    <3>1. \A w, a : CountIn(<<Item("else", t)>> \o PlainBlock(t), w, a)
                     = CountIn(<<Item("else", t)>>, w, a) + CountIn(PlainBlock(t), w, a)
      <4> DEFINE u == <<Item("else", t)>>
                 v == PlainBlock(t)
      <4>1. u \in Seq(BodyItem) /\ v \in Seq(BodyItem)
        BY <2>2, <2>3
      <4> HIDE DEF u, v
      <4>2. \A w, a : CountIn(u \o v, w, a) = CountIn(u, w, a) + CountIn(v, w, a)
        BY <4>1, CountOfConcat
      <4> QED
        BY <4>2 DEF u, v
    <3> QED
      BY <2>1, <2>2, <3>1
  <2>6. \A w, a : "expand" \notin w => CountIn(PlainBlock(t), w, a) = 0
    BY <2>3
  <2> QED
    <3>1. \A a : CountIn(Else(b), {"block", "else"}, a) = IF a = t THEN 1 ELSE 0
      BY <2>5, <2>6
    <3>2. \A a : CountIn(Else(b), {"label"}, a) = 0 /\ CountIn(Else(b), {"goto"}, a) = 0
      BY <2>5, <2>6
    <3>3. \A a : CountIn(Else(b), {"expand", "if"}, a) = CountIn(PlainBlock(t), {"expand", "if"}, a)
      <4>1. \A w, a : CountIn(PlainBlock(t), w, a) \in Nat
        BY <2>3
      <4> QED
        BY <2>5, <4>1
    <3> QED
      BY <1>2, <1>3, <2>3, <2>4, <3>1, <3>2, <3>3 DEF t
<1>4. CASE ~Inlines(b) /\ JumpsElse(b)
  <2>1. Else(b) = <<Item("goto", t)>>
    BY <1>4 DEF Else, t
  <2>2. /\ <<Item("goto", t)>> \in Seq(BodyItem)
        /\ \A w, a : CountIn(<<Item("goto", t)>>, w, a) = IF "goto" \in w /\ a = t THEN 1 ELSE 0
    BY <1>1, BeginItems
  <2> QED
    BY <1>2, <1>4, <2>1, <2>2 DEF t
<1>5. CASE ~Inlines(b) /\ ~JumpsElse(b)
  <2>1. Else(b) = << >>
    BY <1>5 DEF Else
  <2>2. << >> \in Seq(BodyItem) /\ \A w, a : CountIn(<< >>, w, a) = 0
    BY EmptySeq, CountOfOne
  <2> QED
    BY <1>2, <1>5, <2>1, <2>2
<1> QED
  BY <1>3, <1>4, <1>5

-----------------------------------------------------------------------------
(* The loop changes nothing the blocks, their labels and their matches are *)
(* read off.                                                               *)
LEMMA SameBlocks ==
    ASSUME UNCHANGED <<func, matches, blocks, succ>>
    PROVE  /\ insts' = insts /\ BodyItem' = BodyItem /\ UsedLabels' = UsedLabels
           /\ \A b : /\ isSimpleBlockContent(b)' = isSimpleBlockContent(b)
                     /\ IsCond(b)' = IsCond(b)
                     /\ ElseTarget(b)' = ElseTarget(b)
                     /\ BlockMatches(b)' = BlockMatches(b)
<1>1. insts' = insts /\ BodyItem' = BodyItem
  BY DEF insts, BodyItem
<1>2. \A b : LastOf(b)' = LastOf(b)
  BY <1>1 DEF LastOf
<1>3. \A b : isSimpleBlockContent(b)' = isSimpleBlockContent(b)
  BY <1>2 DEF isSimpleBlockContent
<1>4. \A b : IsCond(b)' = IsCond(b) /\ ElseTarget(b)' = ElseTarget(b)
  BY <1>2 DEF IsCond, ElseTarget
<1>5. Labelled' = Labelled
  BY <1>1 DEF Labelled
<1>6. UsedLabels' = UsedLabels
  BY <1>3, <1>4, <1>5 DEF UsedLabels
<1>7. \A b : BlockMatches(b)' = BlockMatches(b)
  BY <1>1 DEF BlockMatches, FuncMatches
<1> QED
  BY <1>1, <1>3, <1>4, <1>6, <1>7

(* What emitting block i adds keeps the invariant: the label and the block,*)
(* and more, which holds the blocks of also, not emitted yet and simple,   *)
(* matches of these blocks only, and a goto where the condition of block i *)
(* is one that the label of its target is for.                             *)
LEMMA EmittingKeepsBodyInv ==
    ASSUME BodyInv, pc = "body", i \in DOMAIN blocks \ emitted,
           NEW also, also \subseteq DOMAIN blocks \ (emitted \cup {i}),
           \A b \in also : isSimpleBlockContent(b),
           \A b, c \in also : b = c,
           NEW more \in Seq(BodyItem),
           \A b \in DOMAIN blocks :
             /\ CountIn(more, {"block", "else"}, b) = IF b \in also THEN 1 ELSE 0
             /\ CountIn(more, {"label"}, b) = 0
             /\ CountIn(more, {"goto"}, b) > 0 => b \in UsedLabels
             /\ b \in UsedLabels /\ IsCond(i) /\ ElseTarget(i) = b /\ i < b
                  => CountIn(more, {"goto"}, b) > 0,
           \A m \in matches :
             /\ CountIn(more, {"expand", "if"}, m) <= 1
             /\ CountIn(more, {"expand", "if"}, m) > 0
                  => \E b \in {i} \cup also : m \in BlockMatches(b),
           body' = body \o ((LabelOf(i) \o <<Item("block", i)>>) \o more),
           emitted' = emitted \cup {i} \cup also,
           i' = i + 1,
           UNCHANGED <<func, matches, pc, blocks, succ>>
    PROVE  BodyInv'
<1> DEFINE begin == LabelOf(i) \o <<Item("block", i)>>
           added == begin \o more
<1>1. BuiltInv /\ LoopInv /\ body \in Seq(BodyItem) /\ BlocksInv /\ MatchesInv /\ Built
  BY DEF BodyInv, Built
<1>2. Len(blocks) \in Nat /\ DOMAIN blocks = 1..Len(blocks) /\ i \in Nat
  BY <1>1, BuiltFacts
<1>3. /\ insts' = insts /\ BodyItem' = BodyItem /\ UsedLabels' = UsedLabels
      /\ \A b : /\ isSimpleBlockContent(b)' = isSimpleBlockContent(b)
                /\ IsCond(b)' = IsCond(b)
                /\ ElseTarget(b)' = ElseTarget(b)
                /\ BlockMatches(b)' = BlockMatches(b)
  BY SameBlocks
<1>4. BuiltInv'
  BY <1>1, <1>3 DEF BuiltInv, Built
<1>5. LoopInv'
  <2>1. i' \in 1 .. Len(blocks) + 1 /\ emitted' \subseteq DOMAIN blocks
    BY <1>1, <1>2 DEF LoopInv
  <2>2. \A b \in DOMAIN blocks : b < i' => b \in emitted'
    <3> SUFFICES ASSUME NEW b \in DOMAIN blocks, b < i + 1 PROVE b \in emitted \cup {i}
      OBVIOUS
    <3>1. b < i \/ b = i
      BY <1>2
    <3> QED
      BY <1>1, <3>1 DEF LoopInv
  <2>3. \A b \in emitted' : b >= i' => isSimpleBlockContent(b)
    <3> SUFFICES ASSUME NEW b \in emitted \cup {i} \cup also, b >= i + 1
                 PROVE  isSimpleBlockContent(b)
      OBVIOUS
    <3>1. b # i
      BY <1>2
    <3>2. b \in emitted => b >= i
      BY <1>1, <1>2 DEF LoopInv
    <3> QED
      BY <1>1, <3>1, <3>2 DEF LoopInv
  <2> QED
    BY <1>3, <2>1, <2>2, <2>3 DEF LoopInv
<1>6. /\ begin \in Seq(BodyItem)
      /\ \A w, a :
           /\ "label" \notin w /\ "block" \in w
                => CountIn(begin, w, a) = IF a = i THEN 1 ELSE 0
           /\ "label" \in w /\ "block" \notin w
                => CountIn(begin, w, a) = IF i \in UsedLabels /\ a = i THEN 1 ELSE 0
           /\ "label" \notin w /\ "block" \notin w => CountIn(begin, w, a) = 0
  <2> DEFINE u == LabelOf(i)
             v == <<Item("block", i)>>
  <2>1. /\ u \in Seq(BodyItem)
        /\ \A w, a : CountIn(u, w, a) = IF i \in UsedLabels /\ "label" \in w /\ a = i THEN 1 ELSE 0
    BY LabelItems
  <2>2. /\ v \in Seq(BodyItem)
        /\ \A w, a : CountIn(v, w, a) = IF "block" \in w /\ a = i THEN 1 ELSE 0
    BY BeginItems
  <2>3. begin = u \o v
    OBVIOUS
  <2> HIDE DEF begin, u, v
  <2>4. u \o v \in Seq(BodyItem)
    BY <2>1, <2>2, ConcatProperties
  <2>5. \A w, a : CountIn(u \o v, w, a) = CountIn(u, w, a) + CountIn(v, w, a)
    BY <2>1, <2>2, CountOfConcat
  <2>6. ASSUME NEW w, NEW a
        PROVE  /\ "label" \notin w /\ "block" \in w
                    => CountIn(u \o v, w, a) = IF a = i THEN 1 ELSE 0
               /\ "label" \in w /\ "block" \notin w
                    => CountIn(u \o v, w, a) = IF i \in UsedLabels /\ a = i THEN 1 ELSE 0
               /\ "label" \notin w /\ "block" \notin w => CountIn(u \o v, w, a) = 0
    BY <2>1, <2>2, <2>5
  <2> QED
    BY <2>3, <2>4, <2>6
<1>7. body' = body \o added
  OBVIOUS
<1> HIDE DEF begin
<1>8. /\ added \in Seq(BodyItem)
      /\ \A w, a : CountIn(added, w, a) = CountIn(begin, w, a) + CountIn(more, w, a)
  BY <1>6, ConcatProperties, CountOfConcat
<1> HIDE DEF added
<1>9. /\ body' \in Seq(BodyItem)
      /\ \A w, a : CountIn(body', w, a) = CountIn(body, w, a) + CountIn(added, w, a)
  <2>1. body \o added \in Seq(BodyItem)
    BY <1>1, <1>8, ConcatProperties
  <2>2. \A w, a : CountIn(body \o added, w, a) = CountIn(body, w, a) + CountIn(added, w, a)
    BY <1>1, <1>8, CountOfConcat
  <2> QED
    BY <1>7, <2>1, <2>2
<1>10. \A w, a : /\ CountIn(body, w, a) \in Nat /\ CountIn(more, w, a) \in Nat
                 /\ CountIn(begin, w, a) \in Nat
  BY <1>1, <1>6, CountOfConcat
<1>11. \A w, a : CountIn(body', w, a)
                   = CountIn(body, w, a) + CountIn(begin, w, a) + CountIn(more, w, a)
  <2> SUFFICES ASSUME NEW w, NEW a
               PROVE  CountIn(body', w, a)
                        = CountIn(body, w, a) + CountIn(begin, w, a) + CountIn(more, w, a)
    OBVIOUS
  <2>1. /\ CountIn(body', w, a) = CountIn(body, w, a) + CountIn(added, w, a)
        /\ CountIn(added, w, a) = CountIn(begin, w, a) + CountIn(more, w, a)
    BY <1>8, <1>9
  <2>2. CountIn(body, w, a) \in Nat /\ CountIn(more, w, a) \in Nat /\ CountIn(begin, w, a) \in Nat
    BY <1>10
  <2> QED
    BY <2>1, <2>2
<1>12. ASSUME NEW b \in DOMAIN blocks
       PROVE  /\ CountIn(body', {"block", "else"}, b) = IF b \in emitted' THEN 1 ELSE 0
              /\ CountIn(body', {"label"}, b) = IF b \in emitted' \cap UsedLabels THEN 1 ELSE 0
              /\ CountIn(body', {"goto"}, b) > 0 => b \in UsedLabels
  <2>1. /\ CountIn(body, {"block", "else"}, b) = IF b \in emitted THEN 1 ELSE 0
        /\ CountIn(body, {"label"}, b) = IF b \in emitted \cap UsedLabels THEN 1 ELSE 0
        /\ CountIn(body, {"goto"}, b) > 0 => b \in UsedLabels
    BY <1>1 DEF BlocksInv, Count
  <2>2. /\ CountIn(begin, {"block", "else"}, b) = IF b = i THEN 1 ELSE 0
        /\ CountIn(begin, {"label"}, b) = IF i \in UsedLabels /\ b = i THEN 1 ELSE 0
        /\ CountIn(begin, {"goto"}, b) = 0
    <3>1. /\ "label" \notin {"block", "else"} /\ "block" \in {"block", "else"}
          /\ "label" \in {"label"} /\ "block" \notin {"label"}
          /\ "label" \notin {"goto"} /\ "block" \notin {"goto"}
      OBVIOUS
    <3>2. CountIn(begin, {"block", "else"}, b) = IF b = i THEN 1 ELSE 0
      BY <1>6, <3>1
    <3>3. CountIn(begin, {"label"}, b) = IF i \in UsedLabels /\ b = i THEN 1 ELSE 0
      BY <1>6, <3>1
    <3>4. CountIn(begin, {"goto"}, b) = 0
      BY <1>6, <3>1
    <3> QED
      BY <3>2, <3>3, <3>4
  <2>3. also \cap UsedLabels = {}
    BY DEF UsedLabels
  <2>4. CountIn(body', {"block", "else"}, b) = IF b \in emitted' THEN 1 ELSE 0
    BY <1>11, <2>1, <2>2
  <2>5. CountIn(body', {"label"}, b) = IF b \in emitted' \cap UsedLabels THEN 1 ELSE 0
    BY <1>11, <2>1, <2>2, <2>3
  <2>6. CountIn(body', {"goto"}, b) > 0 => b \in UsedLabels
    <3>1. CountIn(body', {"goto"}, b)
            = CountIn(body, {"goto"}, b) + CountIn(begin, {"goto"}, b) + CountIn(more, {"goto"}, b)
      BY <1>11
    <3>2. CountIn(body, {"goto"}, b) \in Nat /\ CountIn(more, {"goto"}, b) \in Nat
      BY <1>10
    <3>3. CountIn(more, {"goto"}, b) > 0 => b \in UsedLabels
      OBVIOUS
    <3> QED
      BY <2>1, <2>2, <3>1, <3>2, <3>3
  <2> QED
    BY <2>4, <2>5, <2>6
<1>13. ASSUME NEW b \in DOMAIN blocks, NEW c \in DOMAIN blocks,
              b \in UsedLabels, IsCond(c), ElseTarget(c) = b, c < i + 1, c < b
       PROVE  CountIn(body', {"goto"}, b) > 0
  <2>0. /\ CountIn(body', {"goto"}, b)
             = CountIn(body, {"goto"}, b) + CountIn(begin, {"goto"}, b) + CountIn(more, {"goto"}, b)
        /\ CountIn(body, {"goto"}, b) \in Nat /\ CountIn(begin, {"goto"}, b) \in Nat
        /\ CountIn(more, {"goto"}, b) \in Nat
    BY <1>10, <1>11
  <2>1. CASE c < i
    <3>1. CountIn(body, {"goto"}, b) > 0
      BY <1>1, <1>13, <2>1 DEF BlocksInv, Count
    <3> QED
      BY <2>0, <3>1
  <2>2. CASE c = i
    <3>1. CountIn(more, {"goto"}, b) > 0
      BY <1>13, <2>2
    <3> QED
      BY <2>0, <3>1
  <2> QED
    BY <1>2, <1>13, <2>1, <2>2
<1>14. BlocksInv'
  BY <1>3, <1>12, <1>13 DEF BlocksInv, Count
<1>15. ASSUME NEW m \in matches
       PROVE  /\ CountIn(body', {"expand", "if"}, m) <= 1
              /\ CountIn(body', {"expand", "if"}, m) > 0
                   => \E b \in emitted' : m \in BlockMatches(b)
  <2> DEFINE old == CountIn(body, {"expand", "if"}, m)
             new == CountIn(more, {"expand", "if"}, m)
  <2>1. CountIn(body', {"expand", "if"}, m) = old + new /\ old \in Nat /\ new \in Nat
    <3>1. /\ CountIn(body', {"expand", "if"}, m) = old + CountIn(begin, {"expand", "if"}, m) + new
          /\ old \in Nat /\ new \in Nat
      BY <1>10, <1>11
    <3>2. CountIn(begin, {"expand", "if"}, m) = 0
      <4>1. "label" \notin {"expand", "if"} /\ "block" \notin {"expand", "if"}
        OBVIOUS
      <4> QED
        BY <1>6, <4>1
    <3> HIDE DEF old, new
    <3> QED
      BY <3>1, <3>2
  <2>2. old <= 1 /\ (old > 0 => \E b \in emitted : m \in BlockMatches(b))
    BY <1>1 DEF MatchesInv, Count
  <2>3. new <= 1 /\ (new > 0 => \E b \in {i} \cup also : m \in BlockMatches(b))
    OBVIOUS
  <2> HIDE DEF old, new
  <2>4. ~(old > 0 /\ new > 0)
    <3> SUFFICES ASSUME old > 0, new > 0 PROVE FALSE
      OBVIOUS
    <3>1. PICK b \in emitted : m \in BlockMatches(b)
      BY <2>2
    <3>2. PICK c \in {i} \cup also : m \in BlockMatches(c)
      BY <2>3
    <3>3. b # c /\ b \in DOMAIN blocks /\ c \in DOMAIN blocks
      BY <1>1 DEF LoopInv
    <3> QED
      BY <1>1, <3>1, <3>2, <3>3, BlockMatchesFacts
  <2>5. old + new <= 1
    BY <2>1, <2>2, <2>3, <2>4
  <2>6. old + new > 0 => \E b \in emitted' : m \in BlockMatches(b)
    BY <2>1, <2>2, <2>3
  <2> QED
    BY <2>1, <2>5, <2>6
<1>16. MatchesInv'
  BY <1>3, <1>15 DEF MatchesInv, Count
<1> QED
  BY <1>3, <1>4, <1>5, <1>9, <1>14, <1>16 DEF BodyInv

(* buildCondBlock keeps the invariant: an else branch it inlines is simple *)
(* and not in the body yet, and one it only jumps to has its label.        *)
LEMMA EmitCondKeepsBodyInv ==
    ASSUME BodyInv, EmitCondBlock
    PROVE  BodyInv'
<1> DEFINE t    == ElseTarget(i)
           also == IF Inlines(i) THEN {t} ELSE {}
           both == Test(i) \o Branch(i)
           more == both \o Else(i)
           begin == LabelOf(i) \o <<Item("block", i)>>
<1>1. /\ BuiltInv /\ LoopInv /\ body \in Seq(BodyItem) /\ BlocksInv /\ MatchesInv /\ Built
      /\ pc = "body" /\ i \in DOMAIN blocks \ emitted /\ IsCond(i)
  BY DEF BodyInv, EmitCondBlock, Built
<1>2. /\ Len(blocks) \in Nat /\ DOMAIN blocks = 1..Len(blocks) /\ i \in Nat
      /\ t \in DOMAIN blocks
  BY <1>1, BuiltFacts
<1>3. /\ Inlines(i) \in BOOLEAN /\ JumpsElse(i) \in BOOLEAN
      /\ Inlines(i) => t \notin emitted \cup {i} /\ isSimpleBlockContent(t)
      /\ JumpsElse(i) <=> /\ t \notin emitted \cup {i}
                          /\ ~isSimpleBlockContent(t)
                          /\ t \in Labelled
  BY DEF Inlines, JumpsElse
<1>4. /\ Test(i) \in Seq(BodyItem) /\ Branch(i) \in Seq(BodyItem)
      /\ \A w, a : CountIn(both, w, a) > 0
                     => ("expand" \in w \/ "if" \in w) /\ a \in BlockMatches(i)
      /\ \A a : CountIn(both, {"expand", "if"}, a) <= 1
  BY <1>1, TestAndBranchItems
<1>5. /\ Else(i) \in Seq(BodyItem)
      /\ \A a :
           /\ CountIn(Else(i), {"block", "else"}, a) = IF Inlines(i) /\ a = t THEN 1 ELSE 0
           /\ CountIn(Else(i), {"label"}, a) = 0
           /\ CountIn(Else(i), {"goto"}, a) = IF JumpsElse(i) /\ a = t THEN 1 ELSE 0
           /\ CountIn(Else(i), {"expand", "if"}, a) \in {0, 1}
           /\ CountIn(Else(i), {"expand", "if"}, a) > 0
                => Inlines(i) /\ a \in BlockMatches(t)
  BY <1>1, ElseItems
<1>6. both \in Seq(BodyItem)
  BY <1>4, ConcatProperties
<1> HIDE DEF both
<1>7. /\ more \in Seq(BodyItem)
      /\ \A w, a :
           /\ CountIn(more, w, a) = CountIn(both, w, a) + CountIn(Else(i), w, a)
           /\ CountIn(both, w, a) \in Nat
  BY <1>5, <1>6, ConcatProperties, CountOfConcat
<1> HIDE DEF more, t
<1>8. \A a : /\ CountIn(both, {"block", "else"}, a) = 0
             /\ CountIn(both, {"label"}, a) = 0
             /\ CountIn(both, {"goto"}, a) = 0
  <2> SUFFICES ASSUME NEW w, "expand" \notin w, "if" \notin w
               PROVE  \A a : CountIn(both, w, a) = 0
    OBVIOUS
  <2> QED
    BY <1>4, <1>7
<1>9. ASSUME NEW b \in DOMAIN blocks
      PROVE  /\ CountIn(more, {"block", "else"}, b) = IF b \in also THEN 1 ELSE 0
             /\ CountIn(more, {"label"}, b) = 0
             /\ CountIn(more, {"goto"}, b) = IF JumpsElse(i) /\ b = t THEN 1 ELSE 0
  <2>1. /\ CountIn(more, {"block", "else"}, b) = 0 + CountIn(Else(i), {"block", "else"}, b)
        /\ CountIn(more, {"label"}, b) = 0 + CountIn(Else(i), {"label"}, b)
        /\ CountIn(more, {"goto"}, b) = 0 + CountIn(Else(i), {"goto"}, b)
    BY <1>7, <1>8
  <2>2. b \in also <=> Inlines(i) /\ b = t
    BY <1>3
  <2> QED
    BY <1>3, <1>5, <2>1, <2>2
<1>10. ASSUME NEW b \in DOMAIN blocks, CountIn(more, {"goto"}, b) > 0
       PROVE  b \in UsedLabels
  <2>1. JumpsElse(i) /\ b = t
    BY <1>3, <1>9, <1>10
  <2> QED
    BY <1>1, <1>3, <2>1 DEF UsedLabels, t
<1>11. ASSUME NEW b \in DOMAIN blocks, b \in UsedLabels, ElseTarget(i) = b, i < b
       PROVE  CountIn(more, {"goto"}, b) > 0
  <2>1. b = t /\ b \in Labelled /\ ~isSimpleBlockContent(b)
    BY <1>11 DEF UsedLabels, t
  <2>2. b \notin emitted
    BY <1>1, <1>2, <1>11, <2>1 DEF LoopInv
  <2>3. JumpsElse(i)
    BY <1>2, <1>3, <1>11, <2>1, <2>2
  <2> QED
    BY <1>9, <2>1, <2>3
<1>12. ASSUME NEW m \in matches
       PROVE  /\ CountIn(more, {"expand", "if"}, m) <= 1
              /\ CountIn(more, {"expand", "if"}, m) > 0
                   => \E b \in {i} \cup also : m \in BlockMatches(b)
  <2> DEFINE x == CountIn(both, {"expand", "if"}, m)
             y == CountIn(Else(i), {"expand", "if"}, m)
  <2>1. CountIn(more, {"expand", "if"}, m) = x + y /\ x \in Nat
    BY <1>7
  <2>2. x <= 1 /\ (x > 0 => m \in BlockMatches(i))
    BY <1>4
  <2>3. y \in {0, 1} /\ (y > 0 => Inlines(i) /\ m \in BlockMatches(t))
    BY <1>5
  <2> HIDE DEF x, y
  <2>4. ~(x > 0 /\ y > 0)
    <3> SUFFICES ASSUME x > 0, y > 0 PROVE FALSE
      OBVIOUS
    <3>1. i # t /\ m \in BlockMatches(i) /\ m \in BlockMatches(t)
      BY <1>3, <2>2, <2>3
    <3> QED
      BY <1>1, <1>2, <3>1, BlockMatchesFacts
  <2>5. x > 0 \/ y > 0 => \E b \in {i} \cup also : m \in BlockMatches(b)
    BY <2>2, <2>3
  <2> QED
    BY <2>1, <2>2, <2>3, <2>4, <2>5
<1>13. /\ also \subseteq DOMAIN blocks \ (emitted \cup {i})
       /\ \A b \in also : isSimpleBlockContent(b)
       /\ \A b, c \in also : b = c
  BY <1>2, <1>3
<1>14. body' = body \o (begin \o more)
  <2>1. LabelOf(i) \in Seq(BodyItem) /\ <<Item("block", i)>> \in Seq(BodyItem)
    BY <1>1, LabelItems, BeginItems
  <2> DEFINE l == LabelOf(i)
             u == <<Item("block", i)>>
             v == Test(i)
             x == Branch(i)
             y == Else(i)
  <2>2. body' = body \o l \o u \o v \o x \o y
    BY DEF EmitCondBlock
  <2>3. l \in Seq(BodyItem) /\ u \in Seq(BodyItem)
    BY <2>1
  <2>4. v \in Seq(BodyItem) /\ x \in Seq(BodyItem)
    BY <1>4
  <2>5. y \in Seq(BodyItem)
    BY <1>5
  <2>6. body \in Seq(BodyItem)
    BY <1>1
  <2> HIDE DEF l, u, v, x, y
  <2> DEFINE lu == l \o u
             front == body \o lu
             vx == v \o x
             vxy == vx \o y
  <2>7. lu \in Seq(BodyItem)
    BY <2>3, ConcatProperties
  <2>8. vx \in Seq(BodyItem)
    BY <2>4, ConcatProperties
  <2>9. vxy \in Seq(BodyItem)
    <3> HIDE DEF vx
    <3> QED
      BY <2>5, <2>8, ConcatProperties
  <2>10. front \in Seq(BodyItem)
    <3> HIDE DEF lu
    <3> QED
      BY <2>6, <2>7, ConcatProperties
  <2>11. (body \o l) \o u = front
    BY <2>3, <2>6, ConcatAssociative
  <2>12. (front \o v) \o x = front \o vx
    <3> HIDE DEF front
    <3> QED
      BY <2>4, <2>10, ConcatAssociative, SMTT(30)
  <2>13. (front \o vx) \o y = front \o vxy
    <3> HIDE DEF front, vx
    <3> QED
      BY <2>5, <2>8, <2>10, ConcatAssociative
  <2>14. front \o vxy = body \o (lu \o vxy)
    <3> HIDE DEF lu, vxy
    <3> QED
      BY <2>6, <2>7, <2>9, ConcatAssociative
  <2>15. body' = body \o ((l \o u) \o ((v \o x) \o y))
    BY <2>2, <2>11, <2>12, <2>13, <2>14
  <2> QED
    BY <2>15 DEF l, u, v, x, y, both, more
<1>15. /\ emitted' = emitted \cup {i} \cup also
       /\ i' = i + 1 /\ UNCHANGED <<func, matches, pc, blocks, succ>>
  BY DEF EmitCondBlock, t
<1> HIDE DEF also
<1> QED
  BY <1>1, <1>7, <1>9, <1>10, <1>11, <1>12, <1>13, <1>14, <1>15, EmittingKeepsBodyInv

(* buildPlainBlock keeps it, too.                                          *)
LEMMA EmitPlainKeepsBodyInv ==
    ASSUME BodyInv, EmitPlainBlock
    PROVE  BodyInv'
<1> DEFINE more == PlainBlock(i)
           also == {}
<1>1. /\ BuiltInv /\ body \in Seq(BodyItem) /\ Built
      /\ pc = "body" /\ i \in DOMAIN blocks \ emitted /\ ~IsCond(i)
  BY DEF BodyInv, EmitPlainBlock, Built
<1>2. /\ more \in Seq(BodyItem)
      /\ \A w, a :
           /\ CountIn(more, w, a) \in {0, 1}
           /\ CountIn(more, w, a) > 0 => "expand" \in w /\ a \in BlockMatches(i)
  BY <1>1, PlainBlockItems
<1>3. ASSUME NEW b \in DOMAIN blocks
      PROVE  /\ CountIn(more, {"block", "else"}, b) = 0
             /\ CountIn(more, {"label"}, b) = 0
             /\ CountIn(more, {"goto"}, b) = 0
  <2> SUFFICES ASSUME NEW w, "expand" \notin w PROVE CountIn(more, w, b) = 0
    OBVIOUS
  <2> QED
    BY <1>2
<1>4. ASSUME NEW m \in matches
      PROVE  /\ CountIn(more, {"expand", "if"}, m) <= 1
             /\ CountIn(more, {"expand", "if"}, m) > 0 => m \in BlockMatches(i)
  BY <1>2
<1>5. body' = body \o ((LabelOf(i) \o <<Item("block", i)>>) \o more)
  <2>1. LabelOf(i) \in Seq(BodyItem) /\ <<Item("block", i)>> \in Seq(BodyItem)
    BY <1>1, LabelItems, BeginItems
  <2> DEFINE l == LabelOf(i)
             u == <<Item("block", i)>>
  <2>2. body' = body \o l \o u \o more
    BY DEF EmitPlainBlock
  <2>3. l \in Seq(BodyItem) /\ u \in Seq(BodyItem)
    BY <2>1
  <2> HIDE DEF l, u, more
  <2>4. l \o u \in Seq(BodyItem)
    BY <2>3, ConcatProperties
  <2>5. (body \o l) \o u = body \o (l \o u)
    BY <1>1, <2>3, ConcatAssociative
  <2>6. (body \o (l \o u)) \o more = body \o ((l \o u) \o more)
    <3> DEFINE lu == l \o u
    <3>1. lu \in Seq(BodyItem)
      BY <2>4
    <3> HIDE DEF lu
    <3>2. (body \o lu) \o more = body \o (lu \o more)
      BY <1>1, <1>2, <3>1, ConcatAssociative
    <3> QED
      BY <3>2 DEF lu
  <2> QED
    BY <2>2, <2>5, <2>6 DEF l, u
<1>6. /\ emitted' = emitted \cup {i} \cup also
      /\ i' = i + 1 /\ UNCHANGED <<func, matches, pc, blocks, succ>>
  BY DEF EmitPlainBlock
<1>7. \A b \in DOMAIN blocks :
        /\ CountIn(more, {"block", "else"}, b) = IF b \in also THEN 1 ELSE 0
        /\ CountIn(more, {"label"}, b) = 0
        /\ CountIn(more, {"goto"}, b) > 0 => b \in UsedLabels
        /\ b \in UsedLabels /\ IsCond(i) /\ ElseTarget(i) = b /\ i < b
             => CountIn(more, {"goto"}, b) > 0
  BY <1>1, <1>3
<1>8. \A m \in matches :
        /\ CountIn(more, {"expand", "if"}, m) <= 1
        /\ CountIn(more, {"expand", "if"}, m) > 0
             => \E b \in {i} \cup also : m \in BlockMatches(b)
  BY <1>4
<1>9. /\ also \subseteq DOMAIN blocks \ (emitted \cup {i})
      /\ \A b \in also : isSimpleBlockContent(b)
      /\ \A b, c \in also : b = c
  OBVIOUS
<1> HIDE DEF also, more
<1> QED
  BY <1>1, <1>2, <1>5, <1>6, <1>7, <1>8, <1>9, EmittingKeepsBodyInv

(* Before anything is built the body is empty.                             *)
LEMMA BodyInvInit == ASSUME Init PROVE BodyInv
<1>1. BuiltInv
  BY DEF Init, BuiltInv, Built
<1>2. Len(blocks) = 0 /\ DOMAIN blocks = {} /\ matches \in Layouts
  BY DEF Init
<1>3. LoopInv
  BY <1>2 DEF Init, LoopInv
<1>4. body \in Seq(BodyItem)
  BY EmptySeq DEF Init
<1>5. BlocksInv
  BY <1>2 DEF BlocksInv
<1>6. \A m \in matches : Count({"expand", "if"}, m) = 0
  BY CountOfOne DEF Init, Count
<1>7. MatchesInv
  BY <1>6 DEF MatchesInv
<1> QED
  BY <1>1, <1>3, <1>4, <1>5, <1>7 DEF BodyInv

(* Building the blocks leaves the body empty, which holds of any blocks.   *)
LEMMA BuildKeepsBodyInv == ASSUME BodyInv, Build PROVE BodyInv'
<1>1. BuiltInv /\ pc = "build" /\ body = << >> /\ i = 1 /\ emitted = {}
  BY DEF BodyInv, BuiltInv, Build, Built
<1>2. /\ func' = func /\ matches' = matches /\ insts' = insts /\ pc' = "body"
      /\ body' = << >> /\ i' = 1 /\ emitted' = {}
  BY <1>1 DEF Build, insts
<1>3. BuiltInv'
  <2>1. /\ blocks' = BlocksOf(insts', func'.entry)
        /\ succ' = [b \in DOMAIN blocks' |-> Successors(insts', blocks', b)]
    BY <1>2 DEF Build
  <2>2. ~Panics(insts', func'.entry) /\ func' \in Functions /\ matches' \in Layouts
    BY <1>1, <1>2 DEF BuiltInv
  <2> QED
    BY <1>2, <2>1, <2>2 DEF BuiltInv, Built
<1>4. (Len(blocks) \in Nat)'
  <2>1. Built'
    BY <1>2 DEF Built
  <2> QED
    BY <1>3, <2>1, BuiltFacts
<1>5. LoopInv'
  BY <1>2, <1>4 DEF LoopInv
<1>6. body' \in Seq(BodyItem')
  BY <1>2, EmptySeq
<1>7. \A w, a : CountIn(body', w, a) = 0
  BY <1>2, CountOfOne
<1>8. BlocksInv'
  <2>1. /\ \A b \in DOMAIN blocks' :
             /\ CountIn(body', {"block", "else"}, b) = IF b \in emitted' THEN 1 ELSE 0
             /\ CountIn(body', {"label"}, b) = IF b \in emitted' \cap UsedLabels' THEN 1 ELSE 0
             /\ ~(CountIn(body', {"goto"}, b) > 0)
    BY <1>2, <1>7
  <2>2. \A c \in DOMAIN blocks' : ~(c < i')
    BY <1>2, <1>3, <1>4, BuiltFacts DEF Built
  <2> QED
    BY <2>1, <2>2 DEF BlocksInv, Count
<1>9. MatchesInv'
  BY <1>7 DEF MatchesInv, Count
<1> QED
  BY <1>3, <1>5, <1>6, <1>8, <1>9 DEF BodyInv

(* The loop passes over a block that is in the body already: it is simple, *)
(* so no conditional block.                                                *)
LEMMA SkipKeepsBodyInv == ASSUME BodyInv, SkipBlock PROVE BodyInv'
<1>1. /\ BuiltInv /\ LoopInv /\ body \in Seq(BodyItem) /\ BlocksInv /\ MatchesInv /\ Built
      /\ pc = "body" /\ i \in DOMAIN blocks /\ i \in emitted
  BY DEF BodyInv, SkipBlock, Built
<1>2. /\ i' = i + 1 /\ body' = body /\ emitted' = emitted
      /\ UNCHANGED <<func, matches, pc, blocks, succ>>
  BY DEF SkipBlock
<1>3. Len(blocks) \in Nat /\ DOMAIN blocks = 1..Len(blocks) /\ i \in Nat
  BY <1>1, BuiltFacts
<1>4. /\ insts' = insts /\ BodyItem' = BodyItem /\ UsedLabels' = UsedLabels
      /\ \A b : /\ isSimpleBlockContent(b)' = isSimpleBlockContent(b)
                /\ IsCond(b)' = IsCond(b)
                /\ ElseTarget(b)' = ElseTarget(b)
                /\ BlockMatches(b)' = BlockMatches(b)
  BY <1>2, SameBlocks
<1>5. BuiltInv'
  BY <1>1, <1>2, <1>4 DEF BuiltInv, Built
<1>6. LoopInv'
  <2>1. i' \in 1 .. Len(blocks) + 1 /\ emitted' \subseteq DOMAIN blocks
    BY <1>1, <1>2, <1>3 DEF LoopInv
  <2>2. \A b \in DOMAIN blocks : b < i' => b \in emitted'
    <3> SUFFICES ASSUME NEW b \in DOMAIN blocks, b < i + 1 PROVE b \in emitted
      BY <1>2
    <3>1. b < i \/ b = i
      BY <1>3
    <3> QED
      BY <1>1, <3>1 DEF LoopInv
  <2>3. \A b \in emitted' : b >= i' => isSimpleBlockContent(b)
    <3> SUFFICES ASSUME NEW b \in emitted, b >= i + 1 PROVE isSimpleBlockContent(b)
      BY <1>2
    <3>1. b \in Nat /\ b >= i
      BY <1>1, <1>3 DEF LoopInv
    <3> QED
      BY <1>1, <3>1 DEF LoopInv
  <2> QED
    BY <1>1, <1>2, <1>4, <2>1, <2>2, <2>3 DEF LoopInv
<1>7. ~IsCond(i)
  <2>1. isSimpleBlockContent(i)
    BY <1>1, <1>3 DEF LoopInv
  <2> QED
    BY <2>1 DEF isSimpleBlockContent, IsCond
<1>8. BlocksInv'
  <2>1. \A b \in DOMAIN blocks :
          /\ CountIn(body', {"block", "else"}, b) = IF b \in emitted' THEN 1 ELSE 0
          /\ CountIn(body', {"label"}, b) = IF b \in emitted' \cap UsedLabels THEN 1 ELSE 0
          /\ CountIn(body', {"goto"}, b) > 0 => b \in UsedLabels
    BY <1>1, <1>2 DEF BlocksInv, Count
  <2>2. ASSUME NEW b \in DOMAIN blocks, NEW c \in DOMAIN blocks,
               b \in UsedLabels, IsCond(c), ElseTarget(c) = b, c < i + 1, c < b
        PROVE  CountIn(body', {"goto"}, b) > 0
    <3>1. c < i
      BY <1>3, <1>7, <2>2
    <3> QED
      BY <1>1, <1>2, <2>2, <3>1 DEF BlocksInv, Count
  <2> QED
    BY <1>2, <1>4, <2>1, <2>2 DEF BlocksInv, Count
<1>9. MatchesInv'
  BY <1>1, <1>2, <1>4 DEF MatchesInv, Count
<1> QED
  BY <1>1, <1>2, <1>4, <1>5, <1>6, <1>8, <1>9 DEF BodyInv

(* The other steps leave what the body is made of as it is.                *)
LEMMA OthersKeepBodyInv ==
    ASSUME BodyInv, ExtractBlocks \/ Return \/ UNCHANGED vars
    PROVE  BodyInv'
<1>1. /\ BuiltInv /\ LoopInv /\ body \in Seq(BodyItem) /\ BlocksInv /\ MatchesInv
  BY DEF BodyInv
<1>2. UNCHANGED <<func, matches, blocks, succ, i, emitted, body>>
  BY DEF ExtractBlocks, Return, vars
<1>3. /\ insts' = insts /\ BodyItem' = BodyItem /\ UsedLabels' = UsedLabels
      /\ \A b : /\ isSimpleBlockContent(b)' = isSimpleBlockContent(b)
                /\ IsCond(b)' = IsCond(b)
                /\ ElseTarget(b)' = ElseTarget(b)
                /\ BlockMatches(b)' = BlockMatches(b)
  BY <1>2, SameBlocks
<1>4. BlocksInv' /\ MatchesInv' /\ body' \in Seq(BodyItem')
  BY <1>1, <1>2, <1>3 DEF BlocksInv, MatchesInv, Count
<1>5. BuiltInv' /\ (pc' = "done" => pc = "done" \/ (i \notin DOMAIN blocks /\ Built))
  <2>1. CASE ExtractBlocks
    BY <1>1, <1>2, <1>3, <2>1 DEF BuiltInv, Built, ExtractBlocks
  <2>2. CASE Return
    BY <1>1, <1>2, <1>3, <2>2 DEF BuiltInv, Built, Return
  <2>3. CASE UNCHANGED vars
    BY <1>1, <1>2, <1>3, <2>3 DEF BuiltInv, Built, vars
  <2> QED
    BY <2>1, <2>2, <2>3
<1>6. LoopInv'
  <2>1. i \notin DOMAIN blocks /\ Built => i = Len(blocks) + 1
    <3> SUFFICES ASSUME i \notin DOMAIN blocks, Built PROVE i = Len(blocks) + 1
      OBVIOUS
    <3>1. Len(blocks) \in Nat /\ DOMAIN blocks = 1..Len(blocks)
      BY <1>1, BuiltFacts
    <3> QED
      BY <1>1, <3>1 DEF LoopInv
  <2> QED
    BY <1>1, <1>2, <1>3, <1>5, <2>1 DEF LoopInv
<1> QED
  BY <1>3, <1>4, <1>5, <1>6 DEF BodyInv

(* The invariant holds in every state.                                     *)
THEOREM BodyInvHolds == Spec => []BodyInv
<1>1. Init => BodyInv
  BY BodyInvInit
<1>2. BodyInv /\ [Next]_vars => BodyInv'
  <2> SUFFICES ASSUME BodyInv, [Next]_vars PROVE BodyInv'
    OBVIOUS
  <2>1. CASE Build
    BY <2>1, BuildKeepsBodyInv
  <2>2. CASE SkipBlock
    BY <2>2, SkipKeepsBodyInv
  <2>3. CASE EmitCondBlock
    BY <2>3, EmitCondKeepsBodyInv
  <2>4. CASE EmitPlainBlock
    BY <2>4, EmitPlainKeepsBodyInv
  <2>5. CASE ExtractBlocks \/ Return \/ UNCHANGED vars
    BY <2>5, OthersKeepBodyInv
  <2> QED
    BY <2>1, <2>2, <2>3, <2>4, <2>5 DEF Next, Ended
<1> QED
  BY <1>1, <1>2, PTL DEF Spec

-----------------------------------------------------------------------------
(* The variables of buildFunctionBody have their types; its loop index     *)
(* never runs past the block behind the last one.                          *)
THEOREM FunctionBodyTypes == Spec => []TypeOK
<1>1. BodyInv => TypeOK
  <2> SUFFICES ASSUME BodyInv PROVE TypeOK
    OBVIOUS
  <2>1. BuiltInv /\ LoopInv /\ body \in Seq(BodyItem)
    BY DEF BodyInv
  <2>2. \A m \in matches : m \in [start : Nat, end : Nat]
    BY <2>1, InputFacts
  <2>3. succ \in [DOMAIN blocks -> Seq(DOMAIN blocks)]
    <3>1. CASE Built
      BY <2>1, <3>1, BuiltFacts
    <3>2. CASE ~Built
      BY <2>1, <3>2 DEF BuiltInv
    <3> QED
      BY <3>1, <3>2
  <2> QED
    BY <2>1, <2>2, <2>3 DEF TypeOK, BuiltInv, LoopInv, BodyItem
<1> QED
  BY <1>1, BodyInvHolds, PTL

(* BuildControlFlowGraph panics exactly on a function whose entry point is *)
(* no address of its stream; every other one it cuts into blocks that tile *)
(* the stream and whose edges are all the ways control may take between    *)
(* them, for functions of any length.                                      *)
THEOREM BlocksAreAlwaysTheFlow == Spec => []BlocksAreTheFlow
<1>1. BodyInv => BlocksAreTheFlow
  <2> SUFFICES ASSUME BodyInv PROVE BlocksAreTheFlow
    OBVIOUS
  <2>1. /\ BuiltInv
        /\ IsStream(insts) /\ func.entry \in Nat /\ func.entry <= insts[1].addr
    BY InputFacts DEF BodyInv
  <2>2. PanicsOnlyOffStream
    <3>1. Panics(insts, func.entry) <=> func.entry \notin Addresses(insts)
      BY <2>1, PanicsOffStream
    <3> QED
      BY <2>1, <3>1 DEF PanicsOnlyOffStream, BuiltInv, Built
  <2>3. BlocksTile
    BY <2>1, BuiltFacts DEF BlocksTile, Tiled
  <2>4. EdgesAreTheFlow
    <3> SUFFICES ASSUME Built, NEW b \in DOMAIN blocks
                 PROVE  {blocks[s].first : s \in Range(succ[b])} = {x[2] : x \in Away(blocks, b)}
      BY DEF EdgesAreTheFlow, Away
    <3>1. Tiled(insts, func.entry, blocks)
      BY <2>1, BuiltFacts
    <3>2. succ[b] = Successors(insts, blocks, b)
      BY <2>1 DEF BuiltInv
    <3> QED
      BY <2>1, <3>1, <3>2, EdgesFollowControl
  <2> QED
    BY <2>2, <2>3, <2>4 DEF BlocksAreTheFlow
<1> QED
  BY <1>1, BodyInvHolds, PTL

(* buildFunctionBody puts every block of a function into its body exactly  *)
(* once, at the top or as one else branch.                                 *)
THEOREM EveryBlockIsEmittedOnce == Spec => []EveryBlockOnce
<1>1. BodyInv => EveryBlockOnce
  <2> SUFFICES ASSUME BodyInv, pc = "done", NEW b \in DOMAIN blocks
               PROVE  Count({"block", "else"}, b) = 1
    BY DEF EveryBlockOnce
  <2>1. BuiltInv /\ LoopInv /\ BlocksInv /\ Built
    BY DEF BodyInv, Built
  <2>2. Len(blocks) \in Nat /\ DOMAIN blocks = 1..Len(blocks)
    BY <2>1, BuiltFacts
  <2>3. b < i
    BY <2>1, <2>2 DEF LoopInv
  <2> QED
    BY <2>1, <2>3 DEF LoopInv, BlocksInv
<1> QED
  BY <1>1, BodyInvHolds, PTL

(* A goto of buildCondBlock has the label that collectLabelUses chose for  *)
(* it, and a label without a goto only ever comes before the blocks that   *)
(* would have jumped to it.                                                *)
THEOREM LabelsAlwaysFitGotos == Spec => []LabelsFitGotos
<1>1. BodyInv => LabelsFitGotos
  <2> SUFFICES ASSUME BodyInv, pc = "done" PROVE LabelsFitGotos
    BY DEF LabelsFitGotos, GotosHaveLabels, LabelsAreForElse
  <2>1. BuiltInv /\ LoopInv /\ BlocksInv /\ Built
    BY DEF BodyInv, Built
  <2>2. Len(blocks) \in Nat /\ DOMAIN blocks = 1..Len(blocks)
    BY <2>1, BuiltFacts
  <2>3. \A b \in DOMAIN blocks : b < i /\ b \in emitted
    BY <2>1, <2>2 DEF LoopInv
  <2>4. GotosHaveLabels
    BY <2>1, <2>3 DEF GotosHaveLabels, BlocksInv
  <2>5. LabelsAreForElse
    <3> SUFFICES ASSUME NEW b \in DOMAIN blocks, Count({"label"}, b) > 0
                 PROVE  /\ {c \in DOMAIN blocks : IsCond(c) /\ ElseTarget(c) = b} # {}
                        /\ \/ Count({"goto"}, b) > 0
                           \/ \A c \in DOMAIN blocks : IsCond(c) /\ ElseTarget(c) = b => c >= b
      BY DEF LabelsAreForElse
    <3>1. b \in UsedLabels
      BY <2>1 DEF BlocksInv
    <3>2. \E c \in DOMAIN blocks : IsCond(c) /\ b = ElseTarget(c)
      BY <3>1 DEF UsedLabels
    <3>3. ASSUME NEW c \in DOMAIN blocks, IsCond(c), ElseTarget(c) = b, ~(c >= b)
          PROVE  Count({"goto"}, b) > 0
      <4>1. c < b /\ c < i
        BY <2>2, <2>3, <3>3
      <4> QED
        BY <2>1, <3>1, <3>3, <4>1 DEF BlocksInv
    <3> QED
      BY <3>2, <3>3
  <2> QED
    BY <2>4, <2>5 DEF LabelsFitGotos
<1> QED
  BY <1>1, BodyInvHolds, PTL

(* No match is turned into code twice, whether its block is emitted at the *)
(* top or as an else branch, expanded or read as a condition.              *)
THEOREM MatchesAreUsedOnce == Spec => []MatchesOnce
<1>1. BodyInv => MatchesOnce
  BY DEF BodyInv, MatchesInv, MatchesOnce
<1> QED
  BY <1>1, BodyInvHolds, PTL
=============================================================================
