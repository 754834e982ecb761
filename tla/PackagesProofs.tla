--------------------------- MODULE PackagesProofs ---------------------------
(* Proofs about Packages for every list of functions and of calls: the type  *)
(* invariant, that Packages partitions the user functions, and that only     *)
(* unanimous callers move a function.                                        *)
EXTENDS Packages, SequenceTheorems, FiniteSetTheorems, WellFoundedInduction, TLAPS

(* The parts of the inductive invariant.                                     *)

(* How far the loops are.                                                    *)
Bounds ==
    /\ pc = "filter" => next \in 1..Len(functions) + 1
    /\ pc = "scan" => next \in 1..Len(calls) + 1
    /\ pc \in {"refine", "regroup", "structs"} => next \in 1..Len(users) + 1

(* UserFunctions are those seen so far that are user code.                   *)
Filtered ==
    /\ Ascending(users)
    /\ \A i \in DOMAIN functions :
         IsUser(i) <=> Class(functions[i]) = "user" /\ (pc = "filter" => i < next)

(* Packages holds the first n user functions and nothing else.               *)
Holds(n) ==
    \A p \in PkgPaths :
        /\ Ascending(packages[p])
        /\ \A i \in DOMAIN functions :
             (\E k \in DOMAIN packages[p] : packages[p][k] = i)
               <=> pkgOf[i] = p /\ \E k \in DOMAIN users : k <= n /\ users[k] = i

Grouped ==
    /\ pc # "regroup" /\ (pc = "refine" => ~changed) => Holds(Len(users))
    /\ pc = "regroup" => Holds(next - 1)

(* callerPkgs says what the first n calls tell, by the callers' names.       *)
ToldBy(c, e, p) ==
    /\ calls[c].target = e
    /\ Tells(functions, calls[c])
    /\ Parsed(functions[findCaller(functions, calls[c])]).pkg = p

Noted(n) ==
    \A e \in Entries, p \in PkgPaths :
        p \in callerPkgs[e] <=> \E c \in DOMAIN calls : c <= n /\ ToldBy(c, e, p)

Scanned ==
    /\ pc = "filter" => Noted(0)
    /\ pc = "scan" => Noted(next - 1)
    /\ pc \notin {"filter", "scan"} => Noted(Len(calls))

(* A function is where its name says, or where all that tells says.          *)
Moved ==
    /\ pc \in {"filter", "scan"} => ~changed
    /\ ~changed => \A i \in DOMAIN functions : pkgOf[i] = Parsed(functions[i]).pkg
    /\ \A i \in DOMAIN functions :
         pkgOf[i] # Parsed(functions[i]).pkg =>
             IsUser(i) /\ callerPkgs[functions[i].entry] = {pkgOf[i]}

PackagesInv == TypeOK /\ Bounds /\ Filtered /\ Grouped /\ Scanned /\ Moved

-----------------------------------------------------------------------------
(* A function put behind the others keeps them in order.                     *)
LEMMA AppendAscending ==
    ASSUME NEW s \in Seq(Nat), NEW x \in Nat, Ascending(s),
           \A k \in DOMAIN s : s[k] < x
    PROVE  /\ Ascending(Append(s, x))
           /\ \A y : (\E k \in DOMAIN Append(s, x) : Append(s, x)[k] = y)
                       <=> y = x \/ \E k \in DOMAIN s : s[k] = y
<1>1. /\ DOMAIN s = 1..Len(s) /\ Len(s) \in Nat
      /\ DOMAIN Append(s, x) = 1..Len(s) + 1
      /\ \A k \in 1..Len(s) : Append(s, x)[k] = s[k] /\ s[k] \in Nat
      /\ Append(s, x)[Len(s) + 1] = x
  BY LenProperties, AppendProperties, ElementOfSeq
<1> QED
  BY <1>1 DEF Ascending

(* A set of natural numbers that is not empty has a least one.               *)
LEMMA LeastNumber ==
    ASSUME NEW U, U \subseteq Nat, U # {}
    PROVE  \E u \in U : \A v \in U : u <= v
<1> DEFINE R == {ss \in Nat \X Nat : ss[1] < ss[2]}
<1>1. IsWellFoundedOn(R, Nat)
  BY NatLessThanWellFounded DEF OpToRel
<1>2. \E u \in U : \A v \in U : ~(<<v, u>> \in R)
  <2> HIDE DEF R
  <2> QED
    BY <1>1, WFMin, Zenon
<1>3. PICK u \in U : \A v \in U : ~(<<v, u>> \in R)
  BY <1>2
<1>4. \A v \in U : ~(v < u)
  <2> SUFFICES ASSUME NEW v \in U, v < u PROVE FALSE
    OBVIOUS
  <2>1. v \in Nat /\ u \in Nat
    OBVIOUS
  <2>2. <<v, u>> \in R
    BY <2>1
  <2> QED
    BY <1>3, <2>2
<1> QED
  BY <1>4

(* A set of natural numbers up to n that is not empty has a largest one.     *)
LEMMA LastOfIsIn ==
    ASSUME NEW n \in Nat, NEW S \in SUBSET (1..n), LastOf(S) # 0
    PROVE  LastOf(S) \in S
<1> DEFINE U == {u \in Nat : \A x \in S : x <= u}
<1>1. PICK x \in S : x \in 1..n
  BY DEF LastOf
<1>2. n \in U
  OBVIOUS
<1>3. PICK u \in U : \A v \in U : u <= v
  <2>1. U \subseteq Nat /\ U # {}
    BY <1>2
  <2> HIDE DEF U
  <2> QED
    BY <2>1, LeastNumber
<1>4. u \in S
  <2> SUFFICES ASSUME u \notin S PROVE FALSE
    OBVIOUS
  <2>1. u \in Nat /\ x <= u /\ x >= 1
    BY <1>1
  <2>2. u - 1 \in U
    BY <2>1
  <2> QED
    BY <1>3, <2>1, <2>2
<1>5. \E y \in S : \A z \in S : y >= z
  BY <1>4
<1> QED
  BY <1>1, <1>5 DEF LastOf, Max

(* A call that tells has a callee and a caller.                              *)
LEMMA TellsOfFunctions ==
    ASSUME NEW fs, NEW S, fs \in Seq(S), NEW call, Tells(fs, call)
    PROVE  /\ Callee(fs, call) \in DOMAIN fs /\ fs[Callee(fs, call)].entry = call.target
           /\ findCaller(fs, call) \in DOMAIN fs
<1>1. DOMAIN fs = 1..Len(fs) /\ Len(fs) \in Nat
  BY LenProperties
<1>2. Callee(fs, call) \in {i \in DOMAIN fs : fs[i].entry = call.target}
  BY <1>1, LastOfIsIn DEF Tells, Callee
<1>3. findCaller(fs, call) \in {i \in DOMAIN fs : fs[i].entry <= call.at}
  BY <1>1, LastOfIsIn DEF Tells, findCaller
<1> QED
  BY <1>2, <1>3

-----------------------------------------------------------------------------
(* What the types say of the input and of UserFunctions.                     *)
LEMMA Domains ==
    ASSUME TypeOK
    PROVE  /\ DOMAIN functions = 1..Len(functions) /\ Len(functions) \in Nat
           /\ DOMAIN calls = 1..Len(calls) /\ Len(calls) \in Nat
           /\ DOMAIN users = 1..Len(users) /\ Len(users) \in Nat
           /\ \A k \in DOMAIN users : users[k] \in DOMAIN functions
           /\ \A p \in PkgPaths : packages[p] \in Seq(Nat)
           /\ \A i \in DOMAIN functions : /\ Parsed(functions[i]).pkg \in PkgPaths
                                         /\ Receiver(i) \in Receivers
                                         /\ functions[i].entry \in Entries
           /\ \A c \in DOMAIN calls :
                Tells(functions, calls[c]) =>
                    /\ calls[c].target \in Entries
                    /\ findCaller(functions, calls[c]) \in DOMAIN functions
<1>1. /\ DOMAIN functions = 1..Len(functions) /\ Len(functions) \in Nat
      /\ DOMAIN calls = 1..Len(calls) /\ Len(calls) \in Nat
      /\ DOMAIN users = 1..Len(users) /\ Len(users) \in Nat
  BY LenProperties DEF TypeOK
<1>2. \A k \in DOMAIN users : users[k] \in DOMAIN functions
  BY <1>1, ElementOfSeq DEF TypeOK
<1>3. \A p \in PkgPaths : packages[p] \in Seq(Nat)
  <2> SUFFICES ASSUME NEW p \in PkgPaths PROVE packages[p] \in Seq(Nat)
    OBVIOUS
  <2>1. packages[p] \in Seq(DOMAIN functions) /\ DOMAIN functions \subseteq Nat
    BY <1>1 DEF TypeOK
  <2> QED
    BY <2>1, SeqDef
<1>4. \A c \in DOMAIN calls :
        Tells(functions, calls[c]) =>
            /\ calls[c].target \in Entries
            /\ findCaller(functions, calls[c]) \in DOMAIN functions
  <2> SUFFICES ASSUME NEW c \in DOMAIN calls, Tells(functions, calls[c])
               PROVE  /\ calls[c].target \in Entries
                      /\ findCaller(functions, calls[c]) \in DOMAIN functions
    OBVIOUS
  <2>1. functions \in Seq([sym : Symbol, entry : Nat])
    BY DEF TypeOK
  <2>2. /\ Callee(functions, calls[c]) \in DOMAIN functions
        /\ functions[Callee(functions, calls[c])].entry = calls[c].target
        /\ findCaller(functions, calls[c]) \in DOMAIN functions
    BY <2>1, TellsOfFunctions
  <2> QED
    BY <2>2 DEF Entries
<1> QED
  BY <1>1, <1>2, <1>3, <1>4 DEF PkgPaths, Receivers, Receiver, Entries

(* No step changes the input, nor what is read off it.                       *)
LEMMA InputStays ==
    ASSUME [Next]_vars
    PROVE  /\ functions' = functions /\ calls' = calls
           /\ PkgPaths' = PkgPaths /\ Receivers' = Receivers /\ Entries' = Entries
           /\ NoPackages' = NoPackages
<1>1. functions' = functions /\ calls' = calls
  BY DEF Next, vars, input, FilterFunction, EndFilter, ScanCall, EndScan, RefineFunction,
         EndRefine, RegroupFunction, EndRegroup, BuildStruct, EndStructs, PlaceStruct,
         Return, Returned
<1> QED
  BY <1>1 DEF PkgPaths, Receivers, Entries, NoPackages

(* What is appended to a package is there, and nothing else changes.         *)
LEMMA Added ==
    ASSUME TypeOK, NEW i \in DOMAIN functions, AddToPackage(i)
    PROVE  /\ packages' \in [PkgPaths -> Seq(DOMAIN functions)]
           /\ packages'[pkgOf[i]] = Append(packages[pkgOf[i]], i)
           /\ \A p \in PkgPaths \ {pkgOf[i]} : packages'[p] = packages[p]
<1>1. pkgOf[i] \in PkgPaths /\ packages \in [PkgPaths -> Seq(DOMAIN functions)]
  BY DEF TypeOK
<1>2. Append(packages[pkgOf[i]], i) \in Seq(DOMAIN functions)
  BY <1>1, AppendProperties
<1> QED
  BY <1>1, <1>2 DEF AddToPackage

(* A user function, put into the package it is in now, with every other user *)
(* function already there before it.                                         *)
LEMMA AddedInOrder ==
    ASSUME TypeOK, NEW i \in DOMAIN functions, AddToPackage(i),
           \A p \in PkgPaths : Ascending(packages[p]),
           \A p \in PkgPaths : \A k \in DOMAIN packages[p] : packages[p][k] < i
    PROVE  \A p \in PkgPaths :
             /\ Ascending(packages'[p])
             /\ \A j : (\E k \in DOMAIN packages'[p] : packages'[p][k] = j)
                  <=> \/ \E k \in DOMAIN packages[p] : packages[p][k] = j
                      \/ j = i /\ p = pkgOf[i]
<1> SUFFICES ASSUME NEW p \in PkgPaths
             PROVE  /\ Ascending(packages'[p])
                    /\ \A j : (\E k \in DOMAIN packages'[p] : packages'[p][k] = j)
                         <=> \/ \E k \in DOMAIN packages[p] : packages[p][k] = j
                             \/ j = i /\ p = pkgOf[i]
  OBVIOUS
<1>1. packages[p] \in Seq(Nat) /\ i \in Nat
  BY Domains
<1>2. CASE p = pkgOf[i]
  <2>1. packages'[p] = Append(packages[p], i)
    BY <1>2, Added
  <2>2. /\ Ascending(Append(packages[p], i))
        /\ \A j : (\E k \in DOMAIN Append(packages[p], i) : Append(packages[p], i)[k] = j)
             <=> j = i \/ \E k \in DOMAIN packages[p] : packages[p][k] = j
    BY <1>1, AppendAscending
  <2> QED
    BY <1>2, <2>1, <2>2
<1>3. CASE p # pkgOf[i]
  <2>1. packages'[p] = packages[p]
    BY <1>3, Added
  <2> QED
    BY <1>3, <2>1
<1> QED
  BY <1>2, <1>3

-----------------------------------------------------------------------------
(* The invariant holds at the start.                                         *)
LEMMA InitInv == Init => PackagesInv
<1> SUFFICES ASSUME Init PROVE PackagesInv
  OBVIOUS
<1>1. functions \in Seq([sym : Symbol, entry : Nat]) /\ calls \in Seq([at : Nat, target : Nat])
  BY FunctionListsAssumption, CallListsAssumption DEF Init
<1>2. \A S : <<>> \in Seq(S)
  BY EmptySeq
<1>3. TypeOK
  BY <1>1, <1>2 DEF Init, TypeOK, Loops, NoPackages, PkgPaths, Receivers
<1>4. DOMAIN users = {} /\ \A p \in PkgPaths : DOMAIN packages[p] = {}
  BY EmptySeq DEF Init, NoPackages
<1>5. Bounds
  BY <1>3, Domains DEF Bounds, Init
<1>6. Filtered
  BY <1>3, <1>4, Domains DEF Filtered, Init, Ascending, IsUser
<1>7. Grouped
  BY <1>4 DEF Grouped, Holds, Init, Ascending
<1>8. Scanned
  BY <1>3, Domains DEF Scanned, Noted, Init
<1>9. Moved
  BY DEF Moved, Init
<1> QED
  BY <1>3, <1>5, <1>6, <1>7, <1>8, <1>9 DEF PackagesInv
-----------------------------------------------------------------------------
(* The filter appends the function it is at to UserFunctions and Packages.   *)
LEMMA FilterKeeps == PackagesInv /\ FilterFunction => PackagesInv'
<1> SUFFICES ASSUME PackagesInv, FilterFunction PROVE PackagesInv'
  OBVIOUS
<1>1. TypeOK /\ Bounds /\ Filtered /\ Holds(Len(users)) /\ Noted(0) /\ Moved /\ ~changed
  BY DEF PackagesInv, FilterFunction, Grouped, Scanned, Moved
<1>2. /\ functions' = functions /\ calls' = calls /\ PkgPaths' = PkgPaths
      /\ Receivers' = Receivers /\ Entries' = Entries
  BY InputStays DEF Next
<1>3. /\ next \in 1..Len(functions) /\ next' = next + 1
      /\ next' \in 1..Len(functions) + 1 /\ next' \in Nat
  BY <1>1, Domains DEF FilterFunction
<1>4. CASE Class(functions[next]) # "user"
  <2>1. users' = users /\ packages' = packages
    BY <1>4 DEF FilterFunction
  <2>2. TypeOK'
    BY <1>1, <1>2, <1>3, <2>1 DEF TypeOK, FilterFunction
  <2>3. Filtered'
    BY <1>1, <1>2, <1>3, <1>4, <2>1, Domains DEF Filtered, IsUser, FilterFunction
  <2>4. Grouped' /\ Scanned' /\ Moved' /\ Bounds'
    BY <1>1, <1>2, <1>3, <2>1
    DEF Grouped, Holds, Scanned, Noted, ToldBy, Moved, Bounds, IsUser, FilterFunction
  <2> QED
    BY <2>2, <2>3, <2>4 DEF PackagesInv
<1>5. CASE Class(functions[next]) = "user"
  <2>1. users' = Append(users, next) /\ AddToPackage(next)
    BY <1>5 DEF FilterFunction
  <2>2. users \in Seq(Nat) /\ \A k \in DOMAIN users : users[k] < next
    <3>1. users \in Seq(Nat)
      BY <1>1, Domains, SeqDef DEF TypeOK
    <3>2. \A k \in DOMAIN users : users[k] < next
      BY <1>1, Domains DEF Filtered, IsUser, FilterFunction
    <3> QED
      BY <3>1, <3>2
  <2>3. /\ DOMAIN users = 1..Len(users) /\ Len(users) \in Nat
        /\ users' \in Seq(DOMAIN functions) /\ Len(users') = Len(users) + 1
        /\ DOMAIN users' = 1..Len(users) + 1
        /\ \A k \in DOMAIN users : users'[k] = users[k]
        /\ users'[Len(users) + 1] = next
    <3>1. users \in Seq(DOMAIN functions) /\ next \in DOMAIN functions
      BY <1>1 DEF TypeOK, FilterFunction
    <3>2. DOMAIN users = 1..Len(users) /\ Len(users) \in Nat
      BY <1>1, Domains
    <3> QED
      BY <2>1, <3>1, <3>2, AppendProperties
  <2>4. TypeOK'
    <3>1. packages' \in [PkgPaths -> Seq(DOMAIN functions)]
      BY <1>1, <2>1, Added DEF FilterFunction
    <3> QED
      BY <1>1, <1>2, <1>3, <2>3, <3>1 DEF TypeOK, FilterFunction
  <2>5. Ascending(users') /\ \A y : (\E k \in DOMAIN users' : users'[k] = y)
                                      <=> y = next \/ \E k \in DOMAIN users : users[k] = y
    <3>1. Ascending(users) /\ next \in Nat
      BY <1>1, <1>3 DEF Filtered
    <3>2. /\ Ascending(Append(users, next))
          /\ \A y : (\E k \in DOMAIN Append(users, next) : Append(users, next)[k] = y)
               <=> y = next \/ \E k \in DOMAIN users : users[k] = y
      BY <2>2, <3>1, AppendAscending
    <3> QED
      BY <2>1, <3>2, Zenon
  <2>6. Filtered'
    <3>1. \A i \in DOMAIN functions : IsUser(i)' <=> i = next \/ IsUser(i)
      BY <2>5 DEF IsUser
    <3>2. \A i \in DOMAIN functions : i < next' <=> i < next \/ i = next
      BY <1>1, <1>3, Domains
    <3>3. pc = "filter" /\ pc' = "filter"
      BY DEF FilterFunction
    <3> QED
      BY <1>1, <1>2, <1>5, <2>5, <3>1, <3>2, <3>3 DEF Filtered
  <2>7. Holds(Len(users))'
    <3>1. \A p \in PkgPaths : \A k \in DOMAIN packages[p] : packages[p][k] < next
      <4> SUFFICES ASSUME NEW p \in PkgPaths, NEW k \in DOMAIN packages[p]
                   PROVE  packages[p][k] < next
        OBVIOUS
      <4>1. packages[p][k] \in DOMAIN functions
        BY <1>1, ElementOfSeq DEF TypeOK
      <4> QED
        BY <1>1, <2>2, <4>1 DEF Holds
    <3>2. \A p \in PkgPaths :
            /\ Ascending(packages'[p])
            /\ \A j : (\E k \in DOMAIN packages'[p] : packages'[p][k] = j)
                 <=> \/ \E k \in DOMAIN packages[p] : packages[p][k] = j
                     \/ j = next /\ p = pkgOf[next]
      <4>1. \A p \in PkgPaths : Ascending(packages[p])
        BY <1>1 DEF Holds
      <4> QED
        BY <1>1, <2>1, <3>1, <4>1, AddedInOrder DEF FilterFunction
    <3>3. pkgOf' = pkgOf
      BY DEF FilterFunction
    <3>4. \A y : (\E k \in DOMAIN users' : k <= Len(users') /\ users'[k] = y)
                   <=> y = next \/ \E k \in DOMAIN users : k <= Len(users) /\ users[k] = y
      BY <2>3, <2>5
    <3>5. \A p \in PkgPaths : \A i \in DOMAIN functions :
            (\E k \in DOMAIN packages'[p] : packages'[p][k] = i)
              <=> pkgOf[i] = p /\ \E k \in DOMAIN users' : k <= Len(users') /\ users'[k] = i
      <4> SUFFICES ASSUME NEW p \in PkgPaths, NEW i \in DOMAIN functions
                   PROVE  (\E k \in DOMAIN packages'[p] : packages'[p][k] = i)
                            <=> pkgOf[i] = p /\ \E k \in DOMAIN users' : k <= Len(users') /\ users'[k] = i
        OBVIOUS
      <4>1. (\E k \in DOMAIN packages[p] : packages[p][k] = i)
              <=> pkgOf[i] = p /\ \E k \in DOMAIN users : k <= Len(users) /\ users[k] = i
        BY <1>1 DEF Holds
      <4>2. (\E k \in DOMAIN packages'[p] : packages'[p][k] = i)
              <=> \/ \E k \in DOMAIN packages[p] : packages[p][k] = i
                  \/ i = next /\ p = pkgOf[next]
        BY <3>2
      <4>3. (\E k \in DOMAIN users' : k <= Len(users') /\ users'[k] = i)
              <=> i = next \/ \E k \in DOMAIN users : k <= Len(users) /\ users[k] = i
        BY <3>4
      <4> QED
        BY <4>1, <4>2, <4>3, Zenon
    <3> QED
      BY <1>2, <3>2, <3>3, <3>5 DEF Holds
  <2>8. Scanned' /\ Grouped' /\ Bounds'
    BY <1>1, <1>2, <1>3, <2>7 DEF Grouped, Scanned, Noted, ToldBy, Bounds, FilterFunction
  <2>9. Moved'
    BY <1>1, <1>2 DEF Moved, FilterFunction
  <2> QED
    BY <2>4, <2>6, <2>8, <2>9 DEF PackagesInv
<1> QED
  BY <1>4, <1>5

(* The ends of the loops: what held of all that was seen holds of the whole. *)
LEMMA EndFilterKeeps == PackagesInv /\ EndFilter => PackagesInv'
<1> SUFFICES ASSUME PackagesInv, EndFilter PROVE PackagesInv'
  OBVIOUS
<1>1. /\ functions' = functions /\ calls' = calls /\ PkgPaths' = PkgPaths
      /\ Receivers' = Receivers /\ Entries' = Entries
  BY InputStays DEF Next
<1>2. TypeOK'
  BY <1>1 DEF PackagesInv, TypeOK, EndFilter, EndLoop, Loops
<1>3. \A i \in DOMAIN functions : i < next
  BY Domains DEF PackagesInv, EndFilter, EndLoop, Bounds
<1>4. Filtered'
  BY <1>1, <1>3 DEF PackagesInv, Filtered, IsUser, EndFilter, EndLoop
<1>5. Bounds' /\ Grouped' /\ Scanned' /\ Moved'
  BY <1>1, Domains
  DEF PackagesInv, Bounds, Grouped, Holds, Scanned, Noted, ToldBy, Moved, IsUser, EndFilter, EndLoop
<1> QED
  BY <1>2, <1>4, <1>5 DEF PackagesInv

(* A call that tells puts the package its caller's name says.                *)
LEMMA ScanKeeps == PackagesInv /\ ScanCall => PackagesInv'
<1> SUFFICES ASSUME PackagesInv, ScanCall PROVE PackagesInv'
  OBVIOUS
<1> DEFINE call == calls[next]
           e == call.target
           q == pkgOf[findCaller(functions, call)]
<1>1. TypeOK /\ Bounds /\ Filtered /\ Grouped /\ Noted(next - 1) /\ Moved /\ ~changed
  BY DEF PackagesInv, ScanCall, Scanned, Moved
<1>2. /\ functions' = functions /\ calls' = calls /\ PkgPaths' = PkgPaths
      /\ Receivers' = Receivers /\ Entries' = Entries
  BY InputStays DEF Next
<1>3. next \in DOMAIN calls /\ next \in 1..Len(calls) /\ next' = next + 1
  BY <1>1, Domains DEF ScanCall
<1>4. Tells(functions, call) =>
        /\ e \in Entries /\ q \in PkgPaths
        /\ q = Parsed(functions[findCaller(functions, call)]).pkg
        /\ callerPkgs' = [callerPkgs EXCEPT ![e] = @ \union {q}]
  BY <1>1, <1>3, Domains DEF Moved, ScanCall
<1>5. ~Tells(functions, call) => callerPkgs' = callerPkgs
  BY DEF ScanCall
<1>6. callerPkgs' \in [Entries -> SUBSET PkgPaths]
  <2>1. callerPkgs \in [Entries -> SUBSET PkgPaths]
    BY <1>1 DEF TypeOK
  <2>2. CASE Tells(functions, call)
    <3> HIDE DEF e, q
    <3>1. callerPkgs[e] \union {q} \in SUBSET PkgPaths
      BY <1>4, <2>1, <2>2
    <3> QED
      BY <1>4, <2>1, <2>2, <3>1
  <2> QED
    BY <1>5, <2>1, <2>2
<1>7. TypeOK'
  BY <1>1, <1>2, <1>3, <1>6 DEF TypeOK, ScanCall
<1>8. Scanned'
  <2> SUFFICES ASSUME NEW d \in Entries, NEW p \in PkgPaths
               PROVE  p \in callerPkgs'[d] <=> \E c \in DOMAIN calls : c <= next /\ ToldBy(c, d, p)
    BY <1>2, <1>3 DEF Scanned, Noted, ToldBy, ScanCall
  <2>1. p \in callerPkgs[d] <=> \E c \in DOMAIN calls : c <= next - 1 /\ ToldBy(c, d, p)
    BY <1>1 DEF Noted
  <2>2. \A c \in DOMAIN calls : c <= next <=> c <= next - 1 \/ c = next
    BY <1>1, <1>3, Domains
  <2>3. ToldBy(next, d, p) <=> Tells(functions, call) /\ d = e /\ p = q
    BY <1>4 DEF ToldBy
  <2>4. p \in callerPkgs'[d] <=> p \in callerPkgs[d] \/ (Tells(functions, call) /\ d = e /\ p = q)
    <3>1. callerPkgs \in [Entries -> SUBSET PkgPaths]
      BY <1>1 DEF TypeOK
    <3> HIDE DEF e, q, call
    <3>2. CASE Tells(functions, call)
      BY <1>4, <3>1, <3>2
    <3>3. CASE ~Tells(functions, call)
      BY <1>5, <3>3
    <3> QED
      BY <3>2, <3>3
  <2> QED
    BY <1>3, <2>1, <2>2, <2>3, <2>4
<1>9. Bounds' /\ Filtered' /\ Grouped'
  BY <1>1, <1>2, <1>3, Domains DEF Bounds, Filtered, Grouped, Holds, IsUser, ScanCall
<1>10. Moved'
  BY <1>1, <1>2 DEF Moved, ScanCall
<1> QED
  BY <1>7, <1>8, <1>9, <1>10 DEF PackagesInv

(* The votes of a function are counted when its calls are over.            *)
LEMMA EndScanKeeps == PackagesInv /\ EndScan => PackagesInv'
<1> SUFFICES ASSUME PackagesInv, EndScan PROVE PackagesInv'
  OBVIOUS
<1>1. /\ functions' = functions /\ calls' = calls /\ PkgPaths' = PkgPaths
      /\ Receivers' = Receivers /\ Entries' = Entries
  BY InputStays DEF Next
<1>2. TypeOK'
  BY <1>1 DEF PackagesInv, TypeOK, EndScan, EndLoop, Loops
<1>3. next - 1 = Len(calls)
  BY Domains DEF PackagesInv, EndScan, EndLoop, Bounds
<1>4. Scanned'
  BY <1>1, <1>3 DEF PackagesInv, Scanned, Noted, ToldBy, EndScan, EndLoop
<1>5. Bounds' /\ Filtered' /\ Grouped' /\ Moved'
  BY <1>1, Domains
  DEF PackagesInv, Bounds, Filtered, Grouped, Holds, Moved, IsUser, EndScan, EndLoop
<1> QED
  BY <1>2, <1>4, <1>5 DEF PackagesInv

(* A function that moves goes where all that tells says.                     *)
LEMMA RefineKeeps == PackagesInv /\ RefineFunction => PackagesInv'
<1> SUFFICES ASSUME PackagesInv, RefineFunction PROVE PackagesInv'
  OBVIOUS
<1>1. /\ functions' = functions /\ calls' = calls /\ PkgPaths' = PkgPaths
      /\ Receivers' = Receivers /\ Entries' = Entries
  BY InputStays DEF Next
<1>2. next \in DOMAIN users /\ next \in 1..Len(users) /\ next' = next + 1
      /\ users[next] \in DOMAIN functions /\ IsUser(users[next])
  BY Domains DEF PackagesInv, RefineFunction, IsUser
<1>3. Bounds' /\ Filtered' /\ Scanned'
  BY <1>1, <1>2, Domains
  DEF PackagesInv, Bounds, Filtered, Scanned, Noted, ToldBy, IsUser, RefineFunction
<1>4. CASE \E p \in PkgPaths : /\ Moves(users[next], p)
                               /\ pkgOf' = [pkgOf EXCEPT ![users[next]] = p]
                               /\ changed' = TRUE
  <2>1. PICK p \in PkgPaths : /\ Moves(users[next], p)
                              /\ pkgOf' = [pkgOf EXCEPT ![users[next]] = p]
                              /\ changed' = TRUE
    BY <1>4
  <2>2. pkgOf \in [DOMAIN functions -> PkgPaths] /\ pkgOf' \in [DOMAIN functions -> PkgPaths]
    BY <1>2, <2>1 DEF PackagesInv, TypeOK
  <2>3. TypeOK'
    BY <1>1, <1>2, <2>1, <2>2, SMTT(60) DEF PackagesInv, TypeOK, RefineFunction
  <2>4. Grouped'
    BY <2>1 DEF Grouped, RefineFunction
  <2>5. callerPkgs' = callerPkgs /\ users' = users /\ pc' = "refine"
    BY DEF RefineFunction
  <2>6. Moved'
    <3>1. ASSUME NEW i \in DOMAIN functions, pkgOf'[i] # Parsed(functions[i]).pkg
          PROVE  IsUser(i) /\ callerPkgs[functions[i].entry] = {pkgOf'[i]}
      <4>1. CASE i = users[next]
        BY <1>2, <2>1, <2>2, <4>1 DEF Moves
      <4>2. CASE i # users[next]
        BY <1>2, <2>1, <2>2, <3>1, <4>2 DEF PackagesInv, Moved
      <4> QED
        BY <4>1, <4>2
    <3> QED
      BY <1>1, <2>1, <2>5, <3>1 DEF Moved, IsUser
  <2> QED
    BY <1>3, <2>3, <2>4, <2>6 DEF PackagesInv
<1>5. CASE UNCHANGED <<pkgOf, changed>>
  <2>1. TypeOK'
    BY <1>1, <1>2, <1>5, SMTT(60) DEF PackagesInv, TypeOK, RefineFunction
  <2>2. Grouped' /\ Moved'
    BY <1>1, <1>5 DEF PackagesInv, Grouped, Holds, Moved, IsUser, RefineFunction
  <2> QED
    BY <1>3, <2>1, <2>2 DEF PackagesInv
<1> QED
  BY <1>4, <1>5 DEF RefineFunction

(* Where a function moved, the packages are grouped anew.                    *)
LEMMA EndRefineKeeps == PackagesInv /\ EndRefine => PackagesInv'
<1> SUFFICES ASSUME PackagesInv, EndRefine PROVE PackagesInv'
  OBVIOUS
<1>1. /\ functions' = functions /\ calls' = calls /\ PkgPaths' = PkgPaths
      /\ Receivers' = Receivers /\ Entries' = Entries
  BY InputStays DEF Next
<1>2. <<>> \in Seq(DOMAIN functions) /\ DOMAIN <<>> = {}
  BY EmptySeq
<1>3. packages' \in [PkgPaths -> Seq(DOMAIN functions)]
  BY <1>2 DEF PackagesInv, TypeOK, EndRefine, NoPackages
<1>4. TypeOK'
  BY <1>1, <1>3 DEF PackagesInv, TypeOK, EndRefine, EndLoop, Loops
<1>5. Bounds' /\ Filtered' /\ Scanned' /\ Moved'
  BY <1>1, Domains
  DEF PackagesInv, Bounds, Filtered, Scanned, Noted, ToldBy, Moved, IsUser, EndRefine, EndLoop
<1>6. Grouped'
  <2>1. CASE changed
    BY <1>1, <1>2, <2>1, Domains
    DEF PackagesInv, Grouped, Holds, Ascending, EndRefine, EndLoop, NoPackages
  <2>2. CASE ~changed
    BY <1>1, <2>2 DEF PackagesInv, Grouped, Holds, EndRefine, EndLoop
  <2> QED
    BY <2>1, <2>2
<1> QED
  BY <1>4, <1>5, <1>6 DEF PackagesInv

(* A function enters the package it carries now.                           *)
LEMMA RegroupKeeps == PackagesInv /\ RegroupFunction => PackagesInv'
<1> SUFFICES ASSUME PackagesInv, RegroupFunction PROVE PackagesInv'
  OBVIOUS
<1>1. /\ functions' = functions /\ calls' = calls /\ PkgPaths' = PkgPaths
      /\ Receivers' = Receivers /\ Entries' = Entries
  BY InputStays DEF Next
<1>2. /\ next \in 1..Len(users) /\ next' = next + 1
      /\ DOMAIN users = 1..Len(users) /\ Len(users) \in Nat
      /\ users[next] \in DOMAIN functions
  BY Domains DEF PackagesInv, RegroupFunction
<1>3. AddToPackage(users[next]) /\ Holds(next - 1) /\ pkgOf' = pkgOf /\ users' = users
  BY DEF PackagesInv, Grouped, RegroupFunction
<1>4. TypeOK'
  <2>1. packages' \in [PkgPaths -> Seq(DOMAIN functions)]
    BY <1>2, <1>3, Added DEF PackagesInv
  <2> QED
    <3>1. /\ pc' = pc /\ users' = users /\ pkgOf' = pkgOf /\ callerPkgs' = callerPkgs
          /\ changed' = changed /\ structs' = structs /\ unplaced' = unplaced
          /\ next' \in Nat
      BY <1>2 DEF RegroupFunction
    <3> QED
      BY <1>1, <2>1, <3>1 DEF PackagesInv, TypeOK
<1>5. Bounds' /\ Filtered' /\ Scanned' /\ Moved'
  BY <1>1, <1>2
  DEF PackagesInv, Bounds, Filtered, Scanned, Noted, ToldBy, Moved, IsUser, RegroupFunction
<1>6. Holds(next - 1)'
  <2>1. \A p \in PkgPaths : \A k \in DOMAIN packages[p] : packages[p][k] < users[next]
    <3> SUFFICES ASSUME NEW p \in PkgPaths, NEW k \in DOMAIN packages[p]
                 PROVE  packages[p][k] < users[next]
      OBVIOUS
    <3>1. packages[p][k] \in DOMAIN functions
      BY ElementOfSeq DEF PackagesInv, TypeOK
    <3>2. PICK l \in DOMAIN users : l <= next - 1 /\ users[l] = packages[p][k]
      BY <1>3, <3>1 DEF Holds
    <3> QED
      BY <1>2, <3>2 DEF PackagesInv, Filtered, Ascending
  <2>2. \A p \in PkgPaths :
          /\ Ascending(packages'[p])
          /\ \A j : (\E k \in DOMAIN packages'[p] : packages'[p][k] = j)
               <=> \/ \E k \in DOMAIN packages[p] : packages[p][k] = j
                   \/ j = users[next] /\ p = pkgOf[users[next]]
    <3>1. TypeOK /\ \A p \in PkgPaths : Ascending(packages[p])
      BY <1>3 DEF PackagesInv, Holds
    <3> QED
      BY <1>2, <1>3, <2>1, <3>1, AddedInOrder
  <2>3. \A j : (\E k \in DOMAIN users : k <= next /\ users[k] = j)
                <=> j = users[next] \/ \E k \in DOMAIN users : k <= next - 1 /\ users[k] = j
    BY <1>2
  <2>4. \A p \in PkgPaths : \A i \in DOMAIN functions :
          (\E k \in DOMAIN packages'[p] : packages'[p][k] = i)
            <=> pkgOf[i] = p /\ \E k \in DOMAIN users : k <= next /\ users[k] = i
    <3> SUFFICES ASSUME NEW p \in PkgPaths, NEW i \in DOMAIN functions
                 PROVE  (\E k \in DOMAIN packages'[p] : packages'[p][k] = i)
                          <=> pkgOf[i] = p /\ \E k \in DOMAIN users : k <= next /\ users[k] = i
      OBVIOUS
    <3>1. (\E k \in DOMAIN packages[p] : packages[p][k] = i)
            <=> pkgOf[i] = p /\ \E k \in DOMAIN users : k <= next - 1 /\ users[k] = i
      BY <1>3 DEF Holds
    <3> QED
      BY <2>2, <2>3, <3>1
  <2>5. next' - 1 = next
    BY <1>2
  <2> QED
    BY <1>1, <1>3, <2>2, <2>4, <2>5 DEF Holds
<1>7. Grouped'
  BY <1>2, <1>6 DEF Grouped, RegroupFunction
<1> QED
  BY <1>4, <1>5, <1>7 DEF PackagesInv

(* The last function is regrouped.                                         *)
LEMMA EndRegroupKeeps == PackagesInv /\ EndRegroup => PackagesInv'
<1> SUFFICES ASSUME PackagesInv, EndRegroup PROVE PackagesInv'
  OBVIOUS
<1>1. /\ functions' = functions /\ calls' = calls /\ PkgPaths' = PkgPaths
      /\ Receivers' = Receivers /\ Entries' = Entries
  BY InputStays DEF Next
<1>2. TypeOK'
  BY <1>1 DEF PackagesInv, TypeOK, EndRegroup, EndLoop, Loops
<1>3. next - 1 = Len(users)
  BY Domains DEF PackagesInv, EndRegroup, EndLoop, Bounds
<1>4. Grouped'
  BY <1>1, <1>3 DEF PackagesInv, Grouped, Holds, EndRegroup, EndLoop
<1>5. Bounds' /\ Filtered' /\ Scanned' /\ Moved'
  BY <1>1, Domains
  DEF PackagesInv, Bounds, Filtered, Scanned, Noted, ToldBy, Moved, IsUser, EndRegroup, EndLoop
<1> QED
  BY <1>2, <1>4, <1>5 DEF PackagesInv

(* The structs are built from packages and functions they leave alone.       *)
LEMMA StructsKeep ==
    ASSUME PackagesInv,
           BuildStruct \/ EndStructs \/ (\E r \in Receivers : PlaceStruct(r)) \/ Return
    PROVE  PackagesInv'
<1>1. /\ functions' = functions /\ calls' = calls /\ PkgPaths' = PkgPaths
      /\ Receivers' = Receivers /\ Entries' = Entries
  BY InputStays DEF Next
<1>2. structs' \in [Receivers -> [pkg : PkgPaths \union {<<>>}, methods : Seq(DOMAIN functions)]]
  <2>1. ASSUME BuildStruct, IsMethod(users[next])
        PROVE  /\ Receiver(users[next]) \in Receivers
               /\ WithMethod(structs[Receiver(users[next])], users[next])
                    \in [pkg : PkgPaths \union {<<>>}, methods : Seq(DOMAIN functions)]
    <3>1. users[next] \in DOMAIN functions /\ Receiver(users[next]) \in Receivers
      BY <2>1, Domains DEF PackagesInv, BuildStruct
    <3>2. /\ pkgOf[users[next]] \in PkgPaths
          /\ structs[Receiver(users[next])].pkg \in PkgPaths \union {<<>>}
          /\ structs[Receiver(users[next])].methods \in Seq(DOMAIN functions)
      BY <3>1 DEF PackagesInv, TypeOK
    <3>3. Append(structs[Receiver(users[next])].methods, users[next]) \in Seq(DOMAIN functions)
      BY <3>1, <3>2, AppendProperties
    <3> QED
      BY <3>1, <3>2, <3>3 DEF WithMethod
  <2>2. CASE BuildStruct
    BY <2>1, <2>2 DEF PackagesInv, TypeOK, BuildStruct
  <2>3. CASE EndStructs \/ Return
    BY <2>3 DEF PackagesInv, TypeOK, EndStructs, Return
  <2>4. CASE \E r \in Receivers : PlaceStruct(r)
    <3>1. PICK r \in Receivers : PlaceStruct(r)
      BY <2>4
    <3>2. PICK best \in PkgPaths :
            structs' = IF best # <<>> THEN [structs EXCEPT ![r].pkg = best] ELSE structs
      BY <3>1 DEF PlaceStruct
    <3>3. structs[r] \in [pkg : PkgPaths \union {<<>>}, methods : Seq(DOMAIN functions)]
      BY DEF PackagesInv, TypeOK
    <3>4. [structs[r] EXCEPT !.pkg = best] \in [pkg : PkgPaths \union {<<>>}, methods : Seq(DOMAIN functions)]
      BY <3>3
    <3> QED
      BY <3>2, <3>4 DEF PackagesInv, TypeOK
  <2> QED
    BY <2>2, <2>3, <2>4
<1>3. next' \in Nat /\ pc' \in Loops /\ unplaced' \in SUBSET Receivers
  <2>1. next \in Nat /\ unplaced \in SUBSET Receivers
    BY DEF PackagesInv, TypeOK
  <2>2. next' \in Nat /\ pc' \in Loops
    <3>1. CASE BuildStruct
      BY <2>1, <3>1 DEF BuildStruct, Loops
    <3>2. CASE EndStructs
      BY <3>2 DEF EndStructs, EndLoop, Loops
    <3>3. CASE \E r \in Receivers : PlaceStruct(r)
      BY <2>1, <3>3 DEF PlaceStruct, Loops
    <3>4. CASE Return
      BY <2>1, <3>4 DEF Return, Loops
    <3> QED
      BY <3>1, <3>2, <3>3, <3>4
  <2>3. unplaced' \in SUBSET Receivers
    BY <2>1 DEF BuildStruct, EndStructs, PlaceStruct, Return
  <2> QED
    BY <2>2, <2>3
<1>4. UNCHANGED <<pkgOf, users, packages, callerPkgs, changed>>
  BY DEF BuildStruct, EndStructs, PlaceStruct, Return
<1>5. TypeOK'
  BY <1>1, <1>2, <1>3, <1>4 DEF PackagesInv, TypeOK
<1>6. /\ pc \in {"structs", "place"} /\ pc' \in {"structs", "place", "done"}
      /\ pc' = "structs" => next' = next + 1 /\ next \in 1..Len(users)
  BY Domains DEF PackagesInv, BuildStruct, EndStructs, EndLoop, PlaceStruct, Return
<1>7. Bounds'
  BY <1>4, <1>6, Domains DEF PackagesInv, Bounds
<1>8. Filtered' /\ Grouped' /\ Scanned' /\ Moved'
  BY <1>1, <1>4, <1>6
  DEF PackagesInv, Filtered, Grouped, Holds, Scanned, Noted, ToldBy, Moved, IsUser
<1> QED
  BY <1>5, <1>7, <1>8 DEF PackagesInv

(* The invariant is inductive.                                               *)
THEOREM PackagesInvariant == Spec => []PackagesInv
<1>1. PackagesInv /\ [Next]_vars => PackagesInv'
  <2> SUFFICES ASSUME PackagesInv, [Next]_vars PROVE PackagesInv'
    OBVIOUS
  <2>1. CASE UNCHANGED vars
    BY <2>1, InputStays, SMTT(60)
    DEF PackagesInv, TypeOK, Bounds, Filtered, Grouped, Holds, Scanned, Noted, ToldBy, Moved,
        IsUser, vars
  <2>2. CASE Returned
    BY <2>1, <2>2 DEF Returned
  <2> QED
    BY <2>1, <2>2, FilterKeeps, EndFilterKeeps, ScanKeeps, EndScanKeeps, RefineKeeps,
       EndRefineKeeps, RegroupKeeps, EndRegroupKeeps, StructsKeep DEF Next
<1> QED
  BY <1>1, InitInv, PTL DEF Spec

(* Type correctness of recovered packages and structs: every package path    *)
(* the code writes is one that some name was parsed to.                      *)
THEOREM PackagesTypeCorrect == Spec => []TypeOK
<1>1. PackagesInv => TypeOK
  BY DEF PackagesInv
<1> QED
  BY <1>1, PackagesInvariant, PTL

(* Packages is a partition of the user functions by where they are now, in   *)
(* address order, before the refinement and after it.                        *)
THEOREM PackagesArePartition == Spec => []PackagesPartitionUsers
<1>1. PackagesInv => PackagesPartitionUsers
  <2> SUFFICES ASSUME PackagesInv, pc \notin {"refine", "regroup"}
               PROVE  \A p \in PkgPaths :
                        /\ Ascending(packages[p])
                        /\ \A i \in DOMAIN functions :
                             (\E k \in DOMAIN packages[p] : packages[p][k] = i)
                               <=> IsUser(i) /\ pkgOf[i] = p
    BY DEF PackagesPartitionUsers
  <2>1. Holds(Len(users)) /\ DOMAIN users = 1..Len(users)
    BY Domains DEF PackagesInv, Grouped
  <2> QED
    BY <2>1 DEF Holds, IsUser
<1> QED
  BY <1>1, PackagesInvariant, PTL

(* Only user functions move, and only to the package of every caller that    *)
(* tells.                                                                    *)
THEOREM OnlyUnanimousMoves == Spec => []MovesAreUnanimous
<1>1. PackagesInv => MovesAreUnanimous
  <2> SUFFICES ASSUME PackagesInv, NEW i \in DOMAIN functions,
                      pkgOf[i] # Parsed(functions[i]).pkg
               PROVE  /\ Class(functions[i]) = "user"
                      /\ TellingCalls(i) # {}
                      /\ \A c \in TellingCalls(i) :
                           Parsed(functions[findCaller(functions, calls[c])]).pkg = pkgOf[i]
    BY DEF MovesAreUnanimous
  <2>1. IsUser(i) /\ callerPkgs[functions[i].entry] = {pkgOf[i]} /\ pc \notin {"filter", "scan"}
    BY DEF PackagesInv, Moved
  <2>2. functions[i].entry \in Entries /\ pkgOf[i] \in PkgPaths
    BY Domains DEF PackagesInv, TypeOK
  <2>3. \A p \in PkgPaths :
          p = pkgOf[i] <=> \E c \in DOMAIN calls : ToldBy(c, functions[i].entry, p)
    BY <2>1, <2>2, Domains, SMTT(30) DEF PackagesInv, Scanned, Noted
  <2>4. TellingCalls(i) # {}
    BY <2>2, <2>3 DEF TellingCalls, ToldBy
  <2>5. \A c \in TellingCalls(i) :
          Parsed(functions[findCaller(functions, calls[c])]).pkg = pkgOf[i]
    BY <2>3, Domains DEF TellingCalls, ToldBy, PackagesInv
  <2>6. Class(functions[i]) = "user"
    BY <2>1 DEF PackagesInv, Filtered
  <2> QED
    BY <2>4, <2>5, <2>6
<1> QED
  BY <1>1, PackagesInvariant, PTL

(* With names that parse to what they are and the visibility rule kept, the  *)
(* refinement leaves every function in its package.                          *)
THEOREM ExactNamesAreSafe == Spec => []ExactNamesStay
<1>1. PackagesInv /\ MovesAreUnanimous => ExactNamesStay
  <2> SUFFICES ASSUME PackagesInv, MovesAreUnanimous, Apart, Visible,
                      \A i \in DOMAIN functions : ParsedRight(functions[i].sym),
                      NEW i \in DOMAIN functions
               PROVE  pkgOf[i] = <<Part(functions[i].sym.pkg)>>
    BY DEF ExactNamesStay
  <2>1. \A j \in DOMAIN functions : Parsed(functions[j]).pkg = <<Part(functions[j].sym.pkg)>>
    BY DEF ParsedRight, Parsed
  <2>2. CASE pkgOf[i] = Parsed(functions[i]).pkg
    BY <2>1, <2>2
  <2>3. CASE pkgOf[i] # Parsed(functions[i]).pkg
    <3>1. PICK c \in TellingCalls(i) :
            Parsed(functions[findCaller(functions, calls[c])]).pkg = pkgOf[i]
      BY <2>3 DEF MovesAreUnanimous
    <3>2. /\ c \in DOMAIN calls /\ calls[c].target = functions[i].entry
          /\ Tells(functions, calls[c])
      BY DEF TellingCalls
    <3>3. /\ Callee(functions, calls[c]) \in DOMAIN functions
          /\ functions[Callee(functions, calls[c])].entry = functions[i].entry
          /\ findCaller(functions, calls[c]) \in DOMAIN functions
      BY <3>2, TellsOfFunctions DEF PackagesInv, TypeOK
    <3>4. Callee(functions, calls[c]) = i
      BY <3>3 DEF Apart
    <3>5. functions[i].sym.pkg = functions[findCaller(functions, calls[c])].sym.pkg
      BY <3>2, <3>4 DEF Visible
    <3> QED
      BY <2>1, <3>1, <3>3, <3>5
  <2> QED
    BY <2>2, <2>3
<1> QED
  BY <1>1, PackagesInvariant, OnlyUnanimousMoves, PTL
-----------------------------------------------------------------------------
(* The structs. The loop that collects methods has seen the first n user     *)
(* functions.                                                                *)
Collected(n) ==
    \A r \in Receivers :
        /\ Ascending(structs[r].methods)
        /\ \A i \in DOMAIN functions :
             (\E k \in DOMAIN structs[r].methods : structs[r].methods[k] = i)
               <=> /\ IsMethod(i) /\ Receiver(i) = r
                   /\ \E k \in DOMAIN users : k <= n /\ users[k] = i

(* A struct that has its place has the package of most of its methods.       *)
Placed ==
    /\ \A r \in Receivers \ unplaced :
         structs[r].methods # <<>> => Leads(structs[r], structs[r].pkg)
    /\ pc = "done" => unplaced = {}

(* A method is in a package: its name was parsed to one, and a move ends in  *)
(* one.                                                                      *)
MethodsHavePackages == \A i \in DOMAIN functions : IsMethod(i) => pkgOf[i] # <<>>

StructsInv ==
    /\ MethodsHavePackages
    /\ pc \notin {"structs", "place", "done"} => Collected(0)
    /\ pc = "structs" => Collected(next - 1)
    /\ pc \in {"place", "done"} => Collected(Len(users)) /\ Placed

(* A name of one part has no suffix to cut off.                              *)
LEMMA OnePartStays ==
    ASSUME NEW part, Len(part) = 1
    PROVE  WithoutAbi(part) = part
  BY DEF WithoutAbi

(* A sequence that has a length is not empty.                                *)
LEMMA LongIsNotEmpty ==
    ASSUME NEW seq, Len(seq) >= 1
    PROVE  seq # <<>>
<1>1. Len(<<>>) = 0
  OBVIOUS
<1> QED
  BY <1>1

(* A name that is parsed to a method has a package in front: ParsePackageName*)
(* takes at least one part for the path before it looks for a receiver.      *)
LEMMA MethodsAreQualified ==
    ASSUME NEW S, NEW name \in Seq(S), name # <<>>, ParsePackageName(name).method
    PROVE  ParsePackageName(name).pkg # <<>>
<1> DEFINE at == RestFrom(name)
           Recvs == {i \in 2..Len(name) : IsReceiver(name[i])}
           rest == WithoutAbi(SubSeq(name, at, Len(name)))
<1>1. Len(name) \in Nat /\ Len(name) >= 1
  BY EmptySeq, LenProperties
<1>2. at \in 1..Len(name)
  <2>1. CASE name[1] = Part("main") /\ Len(name) > 1
    BY <1>1, <2>1 DEF RestFrom
  <2>2. CASE ~(name[1] = Part("main") /\ Len(name) > 1) /\ Recvs # {}
    <3>1. \E u \in Recvs : \A v \in Recvs : u <= v
      <4>1. Recvs \subseteq Nat
        BY <1>1
      <4> HIDE DEF Recvs
      <4> QED
        BY <2>2, <4>1, LeastNumber
    <3>2. Min(Recvs) \in Recvs
      <4> HIDE DEF Recvs
      <4> QED
        BY <3>1 DEF Min
    <3>3. at = Min(Recvs)
      BY <2>2 DEF RestFrom
    <3> QED
      BY <1>1, <3>2, <3>3
  <2>3. CASE ~(name[1] = Part("main") /\ Len(name) > 1) /\ Recvs = {}
    BY <1>1, <2>3 DEF RestFrom
  <2> QED
    BY <2>1, <2>2, <2>3
<1>3. Len(rest) > 1
  <2>1. ParsePackageName(name).method =>
          Len(WithoutAbi(SubSeq(name, RestFrom(name), Len(name)))) > 1
    BY DEF ParsePackageName
  <2> QED
    BY <2>1
<1>4. at > 1
  <2> SUFFICES ASSUME at = 1 PROVE FALSE
    BY <1>2
  <2>1. Len(name) = 1
    <3>1. CASE name[1] = Part("main") /\ Len(name) > 1
      BY <3>1 DEF RestFrom
    <3>2. CASE ~(name[1] = Part("main") /\ Len(name) > 1) /\ Recvs # {}
      <4>1. \E u \in Recvs : \A v \in Recvs : u <= v
        <5>1. Recvs \subseteq Nat
          BY <1>1
        <5> HIDE DEF Recvs
        <5> QED
          BY <3>2, <5>1, LeastNumber
      <4>2. Min(Recvs) \in Recvs
        <5> HIDE DEF Recvs
        <5> QED
          BY <4>1 DEF Min
      <4> QED
        BY <1>1, <3>2, <4>2 DEF RestFrom
    <3>3. CASE ~(name[1] = Part("main") /\ Len(name) > 1) /\ Recvs = {}
      BY <1>1, <3>3 DEF RestFrom
    <3> QED
      BY <3>1, <3>2, <3>3
  <2>2. Len(SubSeq(name, at, Len(name))) = 1
    <3>1. \A k \in at..Len(name) : name[k] \in S
      BY <1>2, ElementOfSeq
    <3>2. at \in Int /\ Len(name) \in Int /\ at = 1 /\ Len(name) = 1
      BY <1>1, <2>1
    <3> HIDE DEF at
    <3> QED
      BY <3>1, <3>2, SubSeqProperties
  <2>3. WithoutAbi(SubSeq(name, at, Len(name))) = SubSeq(name, at, Len(name))
    BY <2>2, OnePartStays, Zenon
  <2>4. Len(rest) = 1
    BY <2>2, <2>3
  <2> HIDE DEF rest
  <2> QED
    BY <1>3, <2>4
<1>5. Len(SubSeq(name, 1, at - 1)) >= 1
  <2>2. \A k \in 1 .. at - 1 : name[k] \in S
    BY <1>1, <1>2, ElementOfSeq
  <2>3. 1 \in Int /\ at - 1 \in Int /\ at - 1 >= 1
    BY <1>1, <1>2, <1>4
  <2> HIDE DEF at
  <2> QED
    BY <2>2, <2>3, SubSeqProperties
<1>6. ParsePackageName(name).pkg = SubSeq(name, 1, at - 1)
  BY DEF ParsePackageName
<1> QED
  <2>1. SubSeq(name, 1, at - 1) # <<>>
    BY <1>5, LongIsNotEmpty, Zenon
  <2> QED
    BY <1>6, <2>1

(* A sequence of one part.                                                   *)
LEMMA OnePart ==
    ASSUME NEW S, NEW x \in S
    PROVE  <<x>> \in Seq(S) /\ Len(<<x>>) = 1
  OBVIOUS

(* The linker's names are sequences of parts, and not empty.                 *)
LEMMA NamesAreSequences ==
    ASSUME NEW sym \in Symbol
    PROVE  \E S : NameOf(sym) \in Seq(S) /\ NameOf(sym) # <<>>
<1> DEFINE receiver == [text |-> sym.recv, written |-> IF sym.pointer THEN "pointer" ELSE "plain"]
           S == {Part(sym.pkg), receiver} \union {Part(sym.short[i]) : i \in DOMAIN sym.short}
           head == <<Part(sym.pkg)>>
           recv == IF sym.recv = "" THEN <<>> ELSE <<receiver>>
           tail == [i \in DOMAIN sym.short |-> Part(sym.short[i])]
<1>1. sym.short \in Seq(STRING)
  BY DEF Symbol
<1>2. head \in Seq(S) /\ Len(head) = 1
  <2>1. Part(sym.pkg) \in S
    OBVIOUS
  <2> HIDE DEF S
  <2> QED
    BY <2>1, OnePart
<1>3. recv \in Seq(S)
  <2>1. receiver \in S
    OBVIOUS
  <2> HIDE DEF S, receiver
  <2> QED
    BY <2>1, OnePart, EmptySeq
<1>4. tail \in Seq(S)
  <2>1. DOMAIN sym.short = 1..Len(sym.short) /\ Len(sym.short) \in Nat
    BY <1>1, LenProperties
  <2>2. \A i \in 1..Len(sym.short) : Part(sym.short[i]) \in S
    BY <2>1
  <2>3. tail \in [1..Len(sym.short) -> S]
    BY <2>1, <2>2
  <2> QED
    BY <2>1, <2>3, SeqDef
<1>5. NameOf(sym) = head \o recv \o tail
  BY DEF NameOf
<1>6. head \o recv \in Seq(S) /\ Len(head \o recv) >= 1
  <2> HIDE DEF head, recv
  <2> QED
    BY <1>2, <1>3, ConcatProperties, LenProperties, SMTT(30)
<1>7. (head \o recv) \o tail \in Seq(S) /\ Len((head \o recv) \o tail) >= 1
  <2> HIDE DEF head, recv, tail
  <2> QED
    BY <1>4, <1>6, ConcatProperties, LenProperties
<1>8. Len(NameOf(sym)) >= 1
  BY <1>5, <1>7
<1>9. NameOf(sym) # <<>>
  BY <1>8, EmptySeq
<1> QED
  BY <1>5, <1>7, <1>9

(* So the package of a method's name is never empty.                         *)
LEMMA MethodsAreParsedToPackages ==
    ASSUME TypeOK, NEW i \in DOMAIN functions, IsMethod(i)
    PROVE  Parsed(functions[i]).pkg # <<>>
<1>1. functions[i].sym \in Symbol
  <2>1. functions \in Seq([sym : Symbol, entry : Nat]) /\ i \in 1..Len(functions)
    BY Domains DEF TypeOK
  <2>2. functions[i] \in [sym : Symbol, entry : Nat]
    BY <2>1, ElementOfSeq
  <2> QED
    BY <2>2
<1>2. PICK S : NameOf(functions[i].sym) \in Seq(S) /\ NameOf(functions[i].sym) # <<>>
  BY <1>1, NamesAreSequences
<1>3. ParsePackageName(NameOf(functions[i].sym)).method
  BY DEF IsMethod, Parsed
<1> QED
  BY <1>2, <1>3, MethodsAreQualified DEF Parsed
(* The invariant of the structs holds at the start.                          *)
LEMMA StructsInit == Init => StructsInv
<1> SUFFICES ASSUME Init PROVE StructsInv
  OBVIOUS
<1>1. TypeOK
  BY InitInv DEF PackagesInv
<1>2. MethodsHavePackages
  BY <1>1, MethodsAreParsedToPackages DEF Init, MethodsHavePackages
<1>3. Collected(0)
  <2>1. \A r \in Receivers : DOMAIN structs[r].methods = {}
    BY EmptySeq DEF Init
  <2> QED
    BY <1>1, <2>1, Domains DEF Init, Collected, Ascending
<1> QED
  BY <1>2, <1>3 DEF Init, StructsInv

(* A function that moves goes to a package, so a method stays in one.        *)
LEMMA MethodsStayInPackages ==
    ASSUME PackagesInv, StructsInv, [Next]_vars
    PROVE  MethodsHavePackages'
<1>1. functions' = functions
  BY InputStays
<1>2. CASE RefineFunction
  <2>1. CASE \E p \in PkgPaths : /\ Moves(users[next], p)
                                 /\ pkgOf' = [pkgOf EXCEPT ![users[next]] = p]
    <3>1. PICK p \in PkgPaths : /\ Moves(users[next], p)
                                /\ pkgOf' = [pkgOf EXCEPT ![users[next]] = p]
      BY <2>1
    <3>2. p # <<>> /\ pkgOf \in [DOMAIN functions -> PkgPaths]
      BY <3>1 DEF Moves, PackagesInv, TypeOK
    <3>3. \A i \in DOMAIN functions : pkgOf'[i] = pkgOf[i] \/ pkgOf'[i] = p
      BY <3>1, <3>2
    <3>4. \A i \in DOMAIN functions : IsMethod(i) => pkgOf[i] # <<>>
      BY DEF StructsInv, MethodsHavePackages
    <3>5. \A i \in DOMAIN functions : IsMethod(i)' <=> IsMethod(i)
      BY <1>1 DEF IsMethod, Receiver
    <3> QED
      BY <1>1, <3>2, <3>3, <3>4, <3>5 DEF MethodsHavePackages
  <2>2. CASE pkgOf' = pkgOf
    BY <1>1, <2>2 DEF StructsInv, MethodsHavePackages, IsMethod, Receiver
  <2> QED
    BY <1>2, <2>1, <2>2 DEF RefineFunction
<1>3. CASE pkgOf' = pkgOf
  BY <1>1, <1>3 DEF StructsInv, MethodsHavePackages, IsMethod, Receiver
<1> QED
  BY <1>2, <1>3
  DEF Next, vars, FilterFunction, EndFilter, ScanCall, EndScan, EndRefine, RegroupFunction,
      EndRegroup, BuildStruct, EndStructs, PlaceStruct, Return, Returned

(* Before the loop over methods nothing is collected, whatever UserFunctions *)
(* holds.                                                                    *)
LEMMA NothingCollected ==
    ASSUME PackagesInv, StructsInv,
           FilterFunction \/ EndFilter \/ ScanCall \/ EndScan \/ RefineFunction
             \/ EndRefine \/ RegroupFunction \/ EndRegroup
    PROVE  Collected(0)' /\ pc' \in Loops \ {"place", "done"} /\ (pc' = "structs" => next' = 1)
<1>1. /\ functions' = functions /\ Receivers' = Receivers /\ structs' = structs
      /\ pc' \in Loops \ {"place", "done"} /\ (pc' = "structs" => next' = 1)
      /\ pc \notin {"structs", "place", "done"}
  <2>1. /\ structs' = structs
        /\ pc' \in Loops \ {"place", "done"} /\ (pc' = "structs" => next' = 1)
        /\ pc \notin {"structs", "place", "done"}
    BY DEF FilterFunction, EndFilter, ScanCall, EndScan, RefineFunction, EndRefine,
           RegroupFunction, EndRegroup, EndLoop, Loops
  <2> QED
    BY <2>1, InputStays DEF Next
<1>2. Collected(0)
  BY <1>1 DEF StructsInv
<1>3. \A i \in DOMAIN functions : ~\E k \in DOMAIN users : k <= 0 /\ users[k] = i
  BY Domains DEF PackagesInv
<1>4. \A i \in DOMAIN functions : ~\E k \in DOMAIN users' : k <= 0 /\ users'[k] = i
  <2>1. DOMAIN users' = 1..Len(users')
    <3>1. PackagesInv'
      BY FilterKeeps, EndFilterKeeps, ScanKeeps, EndScanKeeps, RefineKeeps, EndRefineKeeps,
         RegroupKeeps, EndRegroupKeeps
    <3>2. users' \in Seq(DOMAIN functions')
      BY <3>1 DEF PackagesInv, TypeOK
    <3> QED
      BY <3>2, LenProperties
  <2> QED
    BY <2>1
<1>5. \A r \in Receivers, i \in DOMAIN functions :
        ~\E k \in DOMAIN structs[r].methods : structs[r].methods[k] = i
  BY <1>2, <1>3 DEF Collected
<1>6. Collected(0)'
  BY <1>1, <1>2, <1>4, <1>5 DEF Collected
<1> QED
  BY <1>1, <1>6

(* BuildStruct puts a method behind the others of its receiver.              *)
LEMMA MethodIsCollected ==
    ASSUME PackagesInv, StructsInv, BuildStruct
    PROVE  Collected(next - 1)'
<1>1. /\ functions' = functions /\ Receivers' = Receivers /\ users' = users
      /\ pc = "structs" /\ next \in DOMAIN users /\ next' = next + 1
  BY InputStays DEF Next, BuildStruct
<1>2. /\ Collected(next - 1) /\ next \in 1..Len(users)
      /\ DOMAIN users = 1..Len(users) /\ Len(users) \in Nat
      /\ users[next] \in DOMAIN functions /\ DOMAIN functions \subseteq Nat
  BY <1>1, Domains DEF StructsInv, PackagesInv
<1> DEFINE me == users[next]
<1>3. next' - 1 = next
  BY <1>1, <1>2
<1>4. \A i : (\E k \in DOMAIN users : k <= next /\ users[k] = i)
              <=> i = me \/ \E k \in DOMAIN users : k <= next - 1 /\ users[k] = i
  BY <1>2
<1>4a. \A i : (IsMethod(i)' <=> IsMethod(i)) /\ Receiver(i)' = Receiver(i)
  BY <1>1 DEF IsMethod, Receiver
<1> SUFFICES ASSUME NEW r \in Receivers
             PROVE  /\ Ascending(structs'[r].methods)
                    /\ \A i \in DOMAIN functions :
                         (\E k \in DOMAIN structs'[r].methods : structs'[r].methods[k] = i)
                           <=> /\ IsMethod(i) /\ Receiver(i) = r
                               /\ \E k \in DOMAIN users : k <= next /\ users[k] = i
  <2>1. \A r \in Receivers :
          /\ Ascending(structs'[r].methods)
          /\ \A i \in DOMAIN functions :
               (\E k \in DOMAIN structs'[r].methods : structs'[r].methods[k] = i)
                 <=> /\ IsMethod(i) /\ Receiver(i) = r
                     /\ \E k \in DOMAIN users : k <= next /\ users[k] = i
    OBVIOUS
  <2>2. \A r \in Receivers' :
          /\ Ascending(structs'[r].methods)
          /\ \A i \in DOMAIN functions' :
               (\E k \in DOMAIN structs'[r].methods : structs'[r].methods[k] = i)
                 <=> /\ IsMethod(i)' /\ Receiver(i)' = r
                     /\ \E k \in DOMAIN users' : k <= next' - 1 /\ users'[k] = i
    BY <1>1, <1>3, <1>4a, <2>1
  <2> QED
    BY <2>2 DEF Collected
<1>5. /\ Ascending(structs[r].methods)
      /\ \A i \in DOMAIN functions :
           (\E k \in DOMAIN structs[r].methods : structs[r].methods[k] = i)
             <=> /\ IsMethod(i) /\ Receiver(i) = r
                 /\ \E k \in DOMAIN users : k <= next - 1 /\ users[k] = i
  BY <1>2 DEF Collected
<1>6. CASE IsMethod(me) /\ Receiver(me) = r
  <2>1. structs'[r].methods = Append(structs[r].methods, me)
    <3>1. structs' = [structs EXCEPT ![r] = WithMethod(@, me)]
      BY <1>6 DEF BuildStruct
    <3>2. structs \in [Receivers -> [pkg : PkgPaths \union {<<>>}, methods : Seq(DOMAIN functions)]]
      BY DEF PackagesInv, TypeOK
    <3>3. structs'[r] = WithMethod(structs[r], me)
      BY <3>1, <3>2
    <3> QED
      BY <3>3 DEF WithMethod
  <2>2. structs[r].methods \in Seq(DOMAIN functions)
    BY DEF PackagesInv, TypeOK
  <2>3. structs[r].methods \in Seq(Nat)
    BY <1>2, <2>2, SeqDef
  <2>4. \A k \in DOMAIN structs[r].methods : structs[r].methods[k] < me
    <3> SUFFICES ASSUME NEW k \in DOMAIN structs[r].methods PROVE structs[r].methods[k] < me
      OBVIOUS
    <3>1. structs[r].methods[k] \in DOMAIN functions
      BY <2>2, LenProperties, ElementOfSeq
    <3>2. PICK j \in DOMAIN users : j <= next - 1 /\ users[j] = structs[r].methods[k]
      BY <1>5, <3>1
    <3> QED
      BY <1>2, <3>2 DEF PackagesInv, Filtered, Ascending
  <2>5. /\ Ascending(Append(structs[r].methods, me))
        /\ \A y : (\E k \in DOMAIN Append(structs[r].methods, me) :
                     Append(structs[r].methods, me)[k] = y)
                    <=> y = me \/ \E k \in DOMAIN structs[r].methods : structs[r].methods[k] = y
    <3>1. me \in Nat
      BY <1>2
    <3> HIDE DEF me
    <3> QED
      BY <1>5, <2>3, <2>4, <3>1, AppendAscending
  <2> HIDE DEF me
  <2>6. \A i \in DOMAIN functions :
          (\E k \in DOMAIN structs'[r].methods : structs'[r].methods[k] = i)
            <=> i = me \/ \E k \in DOMAIN structs[r].methods : structs[r].methods[k] = i
    BY <2>1, <2>5
  <2> QED
    BY <1>4, <1>5, <1>6, <2>1, <2>5, <2>6
<1>7. CASE ~(IsMethod(me) /\ Receiver(me) = r)
  <2>1. structs'[r] = structs[r]
    <3>1. structs \in [Receivers -> [pkg : PkgPaths \union {<<>>}, methods : Seq(DOMAIN functions)]]
      BY DEF PackagesInv, TypeOK
    <3> QED
      BY <1>7, <3>1 DEF BuildStruct
  <2> HIDE DEF me
  <2> QED
    BY <1>4, <1>5, <1>7, <2>1
<1> QED
  BY <1>6, <1>7
(* What is collected depends on methods and UserFunctions only.              *)
LEMMA CollectedStays ==
    ASSUME functions' = functions, Receivers' = Receivers, users' = users,
           \A q \in Receivers : structs'[q].methods = structs[q].methods,
           NEW n, Collected(n)
    PROVE  Collected(n)'
<1>1. \A i : (IsMethod(i)' <=> IsMethod(i)) /\ Receiver(i)' = Receiver(i)
  BY DEF IsMethod, Receiver
<1>2. \A q \in Receivers :
        /\ Ascending(structs'[q].methods)
        /\ \A i \in DOMAIN functions :
             (\E k \in DOMAIN structs'[q].methods : structs'[q].methods[k] = i)
               <=> /\ IsMethod(i) /\ Receiver(i) = q
                   /\ \E k \in DOMAIN users : k <= n /\ users[k] = i
  <2> SUFFICES ASSUME NEW q \in Receivers
               PROVE  /\ Ascending(structs'[q].methods)
                      /\ \A i \in DOMAIN functions :
                           (\E k \in DOMAIN structs'[q].methods : structs'[q].methods[k] = i)
                             <=> /\ IsMethod(i) /\ Receiver(i) = q
                                 /\ \E k \in DOMAIN users : k <= n /\ users[k] = i
    OBVIOUS
  <2>1. structs'[q].methods = structs[q].methods
    OBVIOUS
  <2> QED
    BY <2>1 DEF Collected
<1>3. \A q \in Receivers' :
        /\ Ascending(structs'[q].methods)
        /\ \A i \in DOMAIN functions' :
             (\E k \in DOMAIN structs'[q].methods : structs'[q].methods[k] = i)
               <=> /\ IsMethod(i)' /\ Receiver(i)' = q
                   /\ \E k \in DOMAIN users' : k <= n /\ users'[k] = i
  BY <1>1, <1>2
<1> QED
  BY <1>3 DEF Collected

(* The loops over structs.                                                   *)
LEMMA BuildKeepsStructs == PackagesInv /\ StructsInv /\ BuildStruct => StructsInv'
<1> SUFFICES ASSUME PackagesInv, StructsInv, BuildStruct PROVE StructsInv'
  OBVIOUS
<1>1. pc' = "structs" /\ next' - 1 = next
  BY DEF BuildStruct, PackagesInv, TypeOK
<1>2. MethodsHavePackages' /\ Collected(next - 1)'
  BY MethodsStayInPackages, MethodIsCollected DEF Next
<1> QED
  BY <1>1, <1>2 DEF StructsInv

(* When all methods are collected, the structs have the last of them.      *)
LEMMA EndStructsKeepsStructs == PackagesInv /\ StructsInv /\ EndStructs => StructsInv'
<1> SUFFICES ASSUME PackagesInv, StructsInv, EndStructs PROVE StructsInv'
  OBVIOUS
<1>1. /\ functions' = functions /\ Receivers' = Receivers /\ users' = users
      /\ structs' = structs /\ pc = "structs" /\ pc' = "place"
  BY InputStays DEF Next, EndStructs, EndLoop
<1>2. next - 1 = Len(users)
  BY Domains DEF PackagesInv, EndStructs, EndLoop, Bounds
<1>3. Collected(Len(users))
  BY <1>1, <1>2 DEF StructsInv
<1>4. Collected(Len(users))'
  <2>1. PICK n : n = Len(users)
    OBVIOUS
  <2>2. Collected(n)'
    BY <1>1, <1>3, <2>1, CollectedStays
  <2>3. n = Len(users')
    BY <1>1, <2>1
  <2> QED
    BY <2>2, <2>3 DEF Collected
<1>5. Placed'
  BY <1>1 DEF Placed, EndStructs
<1>6. MethodsHavePackages'
  BY MethodsStayInPackages DEF Next
<1> QED
  BY <1>1, <1>4, <1>5, <1>6 DEF StructsInv

(* The package that leads among the methods of a struct is one, so the       *)
(* struct is moved to it.                                                    *)
LEMMA PlaceKeepsStructs ==
    ASSUME PackagesInv, StructsInv, NEW r \in Receivers, PlaceStruct(r)
    PROVE  StructsInv'
<1>1. /\ functions' = functions /\ Receivers' = Receivers /\ PkgPaths' = PkgPaths
      /\ users' = users /\ pkgOf' = pkgOf /\ pc = "place" /\ pc' = "place"
      /\ unplaced' = unplaced \ {r}
  BY InputStays DEF Next, PlaceStruct
<1>2. Collected(Len(users)) /\ Placed /\ MethodsHavePackages
  BY <1>1 DEF StructsInv
<1>3. PICK best \in PkgPaths :
        /\ Leads(structs[r], best)
        /\ structs' = IF best # <<>> THEN [structs EXCEPT ![r].pkg = best] ELSE structs
  BY DEF PlaceStruct
<1>4. \A q \in Receivers : structs[q].methods \in Seq(DOMAIN functions)
  BY DEF PackagesInv, TypeOK
<1>5. best # <<>>
  <2>1. {i \in Methods(structs[r]) : pkgOf[i] = best} # {}
    <3>1. Cardinality({i \in Methods(structs[r]) : pkgOf[i] = best}) > 0
      BY <1>3 DEF Leads, Count
    <3>2. Cardinality({}) = 0
      BY FS_EmptySet
    <3> QED
      BY <3>1, <3>2
  <2>2. PICK k \in DOMAIN structs[r].methods : pkgOf[structs[r].methods[k]] = best
    BY <2>1 DEF Methods
  <2>3. structs[r].methods[k] \in DOMAIN functions
    BY <1>4, <2>2, LenProperties, ElementOfSeq
  <2>4. IsMethod(structs[r].methods[k])
    BY <1>2, <2>2, <2>3 DEF Collected
  <2> QED
    BY <1>2, <2>2, <2>3, <2>4 DEF MethodsHavePackages
<1>6. structs' = [structs EXCEPT ![r].pkg = best]
  BY <1>3, <1>5
<1>7. /\ \A q \in Receivers : structs'[q].methods = structs[q].methods
      /\ \A q \in Receivers \ {r} : structs'[q].pkg = structs[q].pkg
      /\ structs'[r].pkg = best
  <2>1. structs \in [Receivers -> [pkg : PkgPaths \union {<<>>}, methods : Seq(DOMAIN functions)]]
    BY DEF PackagesInv, TypeOK
  <2> QED
    BY <1>6, <2>1
<1>8. Collected(Len(users))'
  <2>1. PICK n : n = Len(users)
    OBVIOUS
  <2>2. Collected(n)'
    BY <1>1, <1>2, <1>7, <2>1, CollectedStays
  <2>3. n = Len(users')
    BY <1>1, <2>1
  <2> QED
    BY <2>2, <2>3 DEF Collected
<1>9. Placed'
  <2>1. ASSUME NEW q \in Receivers, NEW p, Leads(structs[q], p)
        PROVE  Leads(structs[q], p)'
    <3>1. Methods(structs[q])' = Methods(structs[q])
      BY <1>7 DEF Methods
    <3>2. \A x : Count(structs[q], x)' = Count(structs[q], x)
      BY <1>1, <3>1 DEF Count
    <3> QED
      BY <1>1, <2>1, <3>2 DEF Leads
  <2>2. \A q \in Receivers \ unplaced' :
          structs'[q].methods # <<>> => Leads(structs[q], structs'[q].pkg)
    BY <1>1, <1>2, <1>3, <1>7 DEF Placed
  <2>3. \A q \in Receivers' \ unplaced' :
          structs'[q].methods # <<>> => Leads(structs[q], structs[q].pkg)'
    BY <1>1, <2>1, <2>2
  <2> QED
    BY <1>1, <2>3 DEF Placed
<1>10. MethodsHavePackages'
  BY MethodsStayInPackages DEF Next
<1> QED
  BY <1>1, <1>8, <1>9, <1>10 DEF StructsInv

(* Returning changes no struct.                                            *)
LEMMA ReturnKeepsStructs ==
    ASSUME PackagesInv, StructsInv, Return \/ Returned \/ UNCHANGED vars
    PROVE  StructsInv'
<1>1. /\ UNCHANGED <<functions, pkgOf, users, structs, next, unplaced>>
      /\ Receivers' = Receivers /\ PkgPaths' = PkgPaths
      /\ pc' = pc \/ (pc = "place" /\ pc' = "done" /\ unplaced = {})
  BY InputStays DEF Next, Return, Returned, vars, input
<1>2. \A n : Collected(n) => Collected(n)'
  BY <1>1, CollectedStays
<1>3. pc \in {"place", "done"} /\ Placed => Placed'
  BY <1>1 DEF Placed, Leads, Count, Methods
<1>4. MethodsHavePackages'
  BY MethodsStayInPackages DEF Next
<1> QED
  BY <1>1, <1>2, <1>3, <1>4 DEF StructsInv

(* The structs hold what was collected, and PackagesInv what that relies on. *)
LEMMA StructsInvariant == Spec => [](PackagesInv /\ StructsInv)
<1>1. PackagesInv /\ StructsInv /\ [Next]_vars => StructsInv'
  <2> SUFFICES ASSUME PackagesInv, StructsInv, [Next]_vars PROVE StructsInv'
    OBVIOUS
  <2>1. CASE FilterFunction \/ EndFilter \/ ScanCall \/ EndScan \/ RefineFunction
               \/ EndRefine \/ RegroupFunction \/ EndRegroup
    <3>1. MethodsHavePackages'
      BY MethodsStayInPackages
    <3>2. Collected(0)' /\ pc' \in Loops \ {"place", "done"} /\ (pc' = "structs" => next' = 1)
      BY <2>1, NothingCollected
    <3>3. next' = 1 => (Collected(next - 1)' <=> Collected(0)')
      BY DEF Collected
    <3> QED
      BY <3>1, <3>2, <3>3 DEF StructsInv, Loops
  <2> QED
    BY <2>1, BuildKeepsStructs, EndStructsKeepsStructs, PlaceKeepsStructs, ReturnKeepsStructs
    DEF Next
<1> QED
  BY <1>1, PackagesInvariant, StructsInit, PTL DEF Spec

(* In the end every user method is in the struct of its receiver, once and   *)
(* in the order of addresses; the struct has the package of as many of its   *)
(* methods as any, and that package has functions, so WriteProject keeps it. *)
THEOREM StructsHoldTheirMethods == Spec => []StructsHoldMethods
<1>1. PackagesInv /\ StructsInv => StructsHoldMethods
  <2> SUFFICES ASSUME PackagesInv, StructsInv, pc = "done", NEW r \in Receivers
               PROVE  /\ Ascending(structs[r].methods)
                      /\ Methods(structs[r]) =
                           {i \in DOMAIN functions : IsUser(i) /\ IsMethod(i) /\ Receiver(i) = r}
                      /\ structs[r].methods # <<>> =>
                           /\ Leads(structs[r], structs[r].pkg)
                           /\ packages[structs[r].pkg] # <<>>
    BY DEF StructsHoldMethods
  <2>1. Collected(Len(users)) /\ Placed /\ unplaced = {}
    BY DEF StructsInv, Placed
  <2>2. structs[r].methods \in Seq(DOMAIN functions) /\ DOMAIN users = 1..Len(users)
    BY Domains DEF PackagesInv, TypeOK
  <2>3. \A k \in DOMAIN structs[r].methods : structs[r].methods[k] \in DOMAIN functions
    BY <2>2, LenProperties, ElementOfSeq
  <2>4. \A i \in DOMAIN functions :
          (\E k \in DOMAIN structs[r].methods : structs[r].methods[k] = i)
            <=> IsMethod(i) /\ Receiver(i) = r /\ IsUser(i)
    BY <2>1, <2>2 DEF Collected, IsUser
  <2>5. Methods(structs[r]) =
          {i \in DOMAIN functions : IsUser(i) /\ IsMethod(i) /\ Receiver(i) = r}
    BY <2>3, <2>4 DEF Methods
  <2>6. ASSUME structs[r].methods # <<>>
        PROVE  Leads(structs[r], structs[r].pkg) /\ packages[structs[r].pkg] # <<>>
    <3>1. Leads(structs[r], structs[r].pkg)
      BY <2>1, <2>6 DEF Placed
    <3>2. {i \in Methods(structs[r]) : pkgOf[i] = structs[r].pkg} # {}
      BY <3>1, FS_EmptySet DEF Leads, Count
    <3>3. PICK i \in DOMAIN functions : IsUser(i) /\ pkgOf[i] = structs[r].pkg
      BY <2>5, <3>2
    <3>4. structs[r].pkg \in PkgPaths
      BY <3>3 DEF PackagesInv, TypeOK
    <3>5. Holds(Len(users))
      BY DEF PackagesInv, Grouped
    <3>6. \E k \in DOMAIN packages[structs[r].pkg] : packages[structs[r].pkg][k] = i
      BY <2>2, <3>3, <3>4, <3>5 DEF Holds, IsUser
    <3> QED
      BY <3>1, <3>6, EmptySeq
  <2> QED
    BY <2>1, <2>5, <2>6 DEF Collected
<1> QED
  BY <1>1, StructsInvariant, PTL
=============================================================================
