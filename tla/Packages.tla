------------------------------ MODULE Packages ------------------------------
(* From the functions that were recovered to packages and structs:           *)
(* FilterUserFunctions, RefinePackagesByCallGraph, BuildStructs and          *)
(* RefineStructPackages, in the order RecoverFromBinary calls them           *)
(* (function/function.go, function/pclntab.go). Each of their loops advances *)
(* one iteration a step; functions are named by their place in Functions.    *)
EXTENDS SymbolNames

CONSTANTS
    FunctionLists,  \* sequences of functions [sym, entry] in address order
    CallLists       \* sequences of calls with a target, [at, target]

VARIABLES
    functions, calls,   \* the input
    pc, next,           \* the loop and its counter
    pkgOf,              \* PackagePath of each function
    users,              \* UserFunctions
    packages,           \* Packages: a path without functions is not in the map
    callerPkgs,         \* for an entry point, the packages it is called from
    changed,
    structs,            \* Structs by receiver: one without methods is not there
    unplaced            \* receivers whose struct is still to be refined

vars == <<functions, calls, pc, next, pkgOf, users, packages, callerPkgs,
          changed, structs, unplaced>>

Symbol == [pkg : STRING, recv : STRING, pointer : BOOLEAN, short : Seq(STRING)]

ASSUME FunctionListsAssumption ==
    \A fs \in FunctionLists :
        /\ fs \in Seq([sym : Symbol, entry : Nat])
        /\ \A i, j \in DOMAIN fs : i < j => fs[i].entry <= fs[j].entry

ASSUME CallListsAssumption ==
    \A cs \in CallLists : cs \in Seq([at : Nat, target : Nat])

Parsed(fn) == ParsePackageName(NameOf(fn.sym))
Class(fn) == ClassifyFunction(NameOf(fn.sym))

PkgPaths == {Parsed(functions[i]).pkg : i \in DOMAIN functions}
Receivers == {Parsed(functions[i]).recv : i \in DOMAIN functions}
Entries == {functions[i].entry : i \in DOMAIN functions}
NoPackages == [p \in PkgPaths |-> <<>>]

Init ==
    /\ functions \in FunctionLists
    /\ calls \in CallLists
    /\ pc = "filter" /\ next = 1
    /\ pkgOf = [i \in DOMAIN functions |-> Parsed(functions[i]).pkg]
    /\ users = <<>>
    /\ packages = NoPackages
    /\ callerPkgs = [e \in Entries |-> {}]
    /\ changed = FALSE
    /\ structs = [r \in Receivers |-> [pkg |-> <<>>, methods |-> <<>>]]
    /\ unplaced = {}

input == <<functions, calls>>

(* The loop at pc has seen all of seq; the next one starts from its head.    *)
EndLoop(loop, seq, then) ==
    /\ pc = loop /\ next \notin DOMAIN seq
    /\ pc' = then /\ next' = 1

AddToPackage(i) == packages' = [packages EXCEPT ![pkgOf[i]] = Append(@, i)]

-----------------------------------------------------------------------------
(* FilterUserFunctions. SetPackageInfo gives every function what Init holds. *)
FilterFunction ==
    /\ pc = "filter" /\ next \in DOMAIN functions
    /\ IF Class(functions[next]) = "user"
       THEN users' = Append(users, next) /\ AddToPackage(next)
       ELSE UNCHANGED <<users, packages>>
    /\ next' = next + 1
    /\ UNCHANGED <<input, pc, pkgOf, callerPkgs, changed, structs, unplaced>>

EndFilter ==
    /\ EndLoop("filter", functions, "scan")
    /\ UNCHANGED <<input, pkgOf, users, packages, callerPkgs, changed, structs, unplaced>>

-----------------------------------------------------------------------------
(* RefinePackagesByCallGraph, from here to EndRegroup.                       *)

(* The last of those that satisfy a condition, 0 if none does: of functions  *)
(* at one address the map entryToFunc and the search findCaller keep the     *)
(* last.                                                                     *)
LastOf(S) == IF S = {} THEN 0 ELSE Max(S)
Callee(fs, call) == LastOf({i \in DOMAIN fs : fs[i].entry = call.target})
findCaller(fs, call) == LastOf({i \in DOMAIN fs : fs[i].entry <= call.at})

(* A call that says where an unexported function belongs.                    *)
Tells(fs, call) ==
    /\ Callee(fs, call) # 0
    /\ Class(fs[Callee(fs, call)]) = "user"
    /\ isLowercase(Parsed(fs[Callee(fs, call)]).short)
    /\ findCaller(fs, call) # 0
    /\ Class(fs[findCaller(fs, call)]) \notin {"stdlib", "runtime"}

(* A mistake: calls from the standard library count.                         *)
ScanEveryCall ==
    /\ pc = "scan" /\ next \in DOMAIN calls
    /\ callerPkgs' =
         IF Callee(functions, calls[next]) # 0 /\ findCaller(functions, calls[next]) # 0
         THEN [callerPkgs EXCEPT ![calls[next].target] =
                 @ \union {pkgOf[findCaller(functions, calls[next])]}]
         ELSE callerPkgs
    /\ next' = next + 1
    /\ UNCHANGED <<input, pc, pkgOf, users, packages, changed, structs, unplaced>>

ScanCall ==
    /\ pc = "scan" /\ next \in DOMAIN calls
    /\ callerPkgs' =
         IF Tells(functions, calls[next])
         THEN [callerPkgs EXCEPT ![calls[next].target] =
                 @ \union {pkgOf[findCaller(functions, calls[next])]}]
         ELSE callerPkgs
    /\ next' = next + 1
    /\ UNCHANGED <<input, pc, pkgOf, users, packages, changed, structs, unplaced>>

EndScan ==
    /\ EndLoop("scan", calls, "refine")
    /\ UNCHANGED <<input, pkgOf, users, packages, callerPkgs, changed, structs, unplaced>>

(* A mistake: one call from another package is enough.                       *)
MovesForOne(i, p) == p \in callerPkgs[functions[i].entry] /\ p \notin {pkgOf[i], <<>>}

(* All calls that tell come from package p, which is not the function's.     *)
Moves(i, p) == callerPkgs[functions[i].entry] = {p} /\ p \notin {pkgOf[i], <<>>}

(* A mistake: the packages are grouped anew only if the last one moved.      *)
RefineForgetting ==
    /\ pc = "refine" /\ next \in DOMAIN users
    /\ \/ \E p \in PkgPaths : /\ Moves(users[next], p)
                              /\ pkgOf' = [pkgOf EXCEPT ![users[next]] = p]
                              /\ changed' = TRUE
       \/ /\ \A p \in PkgPaths : ~Moves(users[next], p)
          /\ UNCHANGED pkgOf /\ changed' = FALSE
    /\ next' = next + 1
    /\ UNCHANGED <<input, pc, users, packages, callerPkgs, structs, unplaced>>

RefineFunction ==
    /\ pc = "refine" /\ next \in DOMAIN users
    /\ \/ \E p \in PkgPaths : /\ Moves(users[next], p)
                              /\ pkgOf' = [pkgOf EXCEPT ![users[next]] = p]
                              /\ changed' = TRUE
       \/ /\ \A p \in PkgPaths : ~Moves(users[next], p)
          /\ UNCHANGED <<pkgOf, changed>>
    /\ next' = next + 1
    /\ UNCHANGED <<input, pc, users, packages, callerPkgs, structs, unplaced>>

EndRefine ==
    /\ EndLoop("refine", users, IF changed THEN "regroup" ELSE "structs")
    /\ packages' = IF changed THEN NoPackages ELSE packages
    /\ UNCHANGED <<input, pkgOf, users, callerPkgs, changed, structs, unplaced>>

RegroupFunction ==
    /\ pc = "regroup" /\ next \in DOMAIN users
    /\ AddToPackage(users[next])
    /\ next' = next + 1
    /\ UNCHANGED <<input, pc, pkgOf, users, callerPkgs, changed, structs, unplaced>>

EndRegroup ==
    /\ EndLoop("regroup", users, "structs")
    /\ UNCHANGED <<input, pkgOf, users, packages, callerPkgs, changed, structs, unplaced>>

-----------------------------------------------------------------------------
(* BuildStructs groups the methods among the user functions by receiver.     *)
Receiver(i) == Parsed(functions[i]).recv
IsMethod(i) == Parsed(functions[i]).method /\ Receiver(i) # ""

WithMethod(struct, i) ==
    [pkg     |-> IF struct.methods = <<>> THEN pkgOf[i] ELSE struct.pkg,
     methods |-> Append(struct.methods, i)]

BuildStruct ==
    /\ pc = "structs" /\ next \in DOMAIN users
    /\ structs' = IF IsMethod(users[next])
                  THEN [structs EXCEPT ![Receiver(users[next])] = WithMethod(@, users[next])]
                  ELSE structs
    /\ next' = next + 1
    /\ UNCHANGED <<input, pc, pkgOf, users, packages, callerPkgs, changed, unplaced>>

EndStructs ==
    /\ EndLoop("structs", users, "place")
    /\ unplaced' = {r \in Receivers : structs[r].methods # <<>>}
    /\ UNCHANGED <<input, pkgOf, users, packages, callerPkgs, changed, structs>>

(* RefineStructPackages: the structs come in the order of a map, and so do   *)
(* the packages that lead.                                                   *)
Methods(struct) == {struct.methods[k] : k \in DOMAIN struct.methods}
Count(struct, p) == Cardinality({i \in Methods(struct) : pkgOf[i] = p})
Leads(struct, p) ==
    /\ Count(struct, p) > 0
    /\ \A q \in PkgPaths : Count(struct, q) <= Count(struct, p)

(* A mistake: the struct stays where its first method was before the         *)
(* refinement.                                                               *)
PlaceWhereParsed(r) ==
    /\ pc = "place" /\ r \in unplaced
    /\ structs' = [structs EXCEPT ![r].pkg = Parsed(functions[structs[r].methods[1]]).pkg]
    /\ unplaced' = unplaced \ {r}
    /\ UNCHANGED <<input, pc, next, pkgOf, users, packages, callerPkgs, changed>>

PlaceStruct(r) ==
    /\ pc = "place" /\ r \in unplaced
    /\ \E best \in PkgPaths :
         /\ Leads(structs[r], best)
         /\ structs' = IF best # <<>> THEN [structs EXCEPT ![r].pkg = best] ELSE structs
    /\ unplaced' = unplaced \ {r}
    /\ UNCHANGED <<input, pc, next, pkgOf, users, packages, callerPkgs, changed>>

Return ==
    /\ pc = "place" /\ unplaced = {}
    /\ pc' = "done"
    /\ UNCHANGED <<input, next, pkgOf, users, packages, callerPkgs, changed, structs, unplaced>>

Returned == pc = "done" /\ UNCHANGED vars

Next ==
    \/ FilterFunction \/ EndFilter
    \/ ScanCall \/ EndScan
    \/ RefineFunction \/ EndRefine
    \/ RegroupFunction \/ EndRegroup
    \/ BuildStruct \/ EndStructs
    \/ \E r \in Receivers : PlaceStruct(r)
    \/ Return \/ Returned

Spec == Init /\ [][Next]_vars

-----------------------------------------------------------------------------
Loops == {"filter", "scan", "refine", "regroup", "structs", "place", "done"}

(* Types. A package path, once set, is always one that some function's name  *)
(* was parsed to.                                                            *)
TypeOK ==
    /\ functions \in Seq([sym : Symbol, entry : Nat])
    /\ calls \in Seq([at : Nat, target : Nat])
    /\ pc \in Loops /\ next \in Nat
    /\ pkgOf \in [DOMAIN functions -> PkgPaths]
    /\ users \in Seq(DOMAIN functions)
    /\ packages \in [PkgPaths -> Seq(DOMAIN functions)]
    /\ callerPkgs \in [Entries -> SUBSET PkgPaths]
    /\ changed \in BOOLEAN
    /\ structs \in [Receivers -> [pkg : PkgPaths \union {<<>>}, methods : Seq(DOMAIN functions)]]
    /\ unplaced \in SUBSET Receivers

Ascending(seq) == \A j, k \in DOMAIN seq : j < k => seq[j] < seq[k]
IsUser(i) == \E k \in DOMAIN users : users[k] = i

(* Whenever no loop is in the middle of changing it, Packages has every user *)
(* function once, under the PackagePath it has now, in the order of their    *)
(* addresses, and nothing else: WriteProject, which goes by Packages, and    *)
(* the structs, which go by PackagePath, agree (function.go:240 and     *)
(* pclntab.go:432).                                                          *)
PackagesPartitionUsers ==
    pc \notin {"refine", "regroup"} =>
        \A p \in PkgPaths :
            /\ Ascending(packages[p])
            /\ \A i \in DOMAIN functions :
                 (\E k \in DOMAIN packages[p] : packages[p][k] = i)
                   <=> IsUser(i) /\ pkgOf[i] = p

(* A function is moved only if it is unexported user code and every call     *)
(* that tells comes from functions whose names say the package it is moved   *)
(* to, however often and in whatever order it is called (pclntab.go:342).    *)
TellingCalls(i) ==
    {c \in DOMAIN calls : calls[c].target = functions[i].entry /\ Tells(functions, calls[c])}

MovesAreUnanimous ==
    \A i \in DOMAIN functions :
        pkgOf[i] # Parsed(functions[i]).pkg =>
            /\ Class(functions[i]) = "user"
            /\ TellingCalls(i) # {}
            /\ \A c \in TellingCalls(i) :
                 Parsed(functions[findCaller(functions, calls[c])]).pkg = pkgOf[i]

(* A program keeps Go's visibility rule when unexported functions are called *)
(* from their package only, the standard library left aside.                 *)
Visible ==
    \A c \in DOMAIN calls :
        Tells(functions, calls[c]) =>
            functions[Callee(functions, calls[c])].sym.pkg
              = functions[findCaller(functions, calls[c])].sym.pkg

Apart == \A i, j \in DOMAIN functions : functions[i].entry = functions[j].entry => i = j

(* Where every name was parsed to what the linker made of it and no two      *)
(* functions share an address, the refinement of a program that keeps the    *)
(* visibility rule puts no function out of its package (README.md:151).      *)
ExactNamesStay ==
    Apart /\ Visible /\ (\A i \in DOMAIN functions : ParsedRight(functions[i].sym)) =>
        \A i \in DOMAIN functions : pkgOf[i] = <<Part(functions[i].sym.pkg)>>

(* In the end every user method is in the struct of its receiver, once, in   *)
(* the order of addresses; the struct's package is that of as many of its    *)
(* methods as any, and has a file: WriteProject drops the structs of         *)
(* packages without functions (function.go:188).                             *)
StructsHoldMethods ==
    pc = "done" =>
        \A r \in Receivers :
            /\ Ascending(structs[r].methods)
            /\ Methods(structs[r]) = {i \in DOMAIN functions : IsUser(i) /\ IsMethod(i) /\ Receiver(i) = r}
            /\ structs[r].methods # <<>> =>
                 /\ Leads(structs[r], structs[r].pkg)
                 /\ packages[structs[r].pkg] # <<>>
=============================================================================
