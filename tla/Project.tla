------------------------------ MODULE Project ------------------------------
(* The project that is written for a decompiled program: WriteProject,       *)
(* writePackageAST, buildStructDecl and the names buildFunctionDecl gives    *)
(* (pattern/generate/generate.go). One declaration is a step, and every call *)
(* that makes a directory or writes a file may fail. The bodies of the       *)
(* functions are those of FunctionBody.                                      *)
(*                                                                           *)
(* A name is a text and the numbers that deduplicateName puts behind it; a   *)
(* name the program itself writes with a number, f_1, has one from the       *)
(* start. Packages and structs are what Packages ends with.                  *)
EXTENDS Integers, Sequences, FiniteSets

CONSTANT Projects   \* records funcs, in address order, and structs: functions
                    \* are [pkg, base, recv, code], code saying that there are
                    \* instructions under the function's name, structs [pkg, base]

VARIABLES
    project,
    pc,
    todo,       \* the packages that are left
    pkg, next,  \* the package and the struct or function the loops are at
    decls,      \* its declarations so far, [kind, of, name]
    used,       \* usedNames
    files,      \* the file of each package, [state, decls]
    goMod

vars == <<project, pc, todo, pkg, next, decls, used, files, goMod>>

Names == [text : STRING, numbers : Seq(Nat)]
FuncType == [pkg : STRING, base : Names, recv : STRING, code : BOOLEAN]
StructType == [pkg : STRING, base : Names]

ASSUME ProjectsAssumption ==
    \A p \in Projects : p \in [funcs : Seq(FuncType), structs : Seq(StructType)]

Pkgs == {project.funcs[i].pkg : i \in DOMAIN project.funcs}
Decls == [kind : {"struct", "func"}, of : Nat, name : Names]
Absent == [state |-> "absent", decls |-> <<>>]
Old == [state |-> "old", decls |-> <<>>]

(* The directory may be there, with what an earlier run left: any of the     *)
(* files, and a go.mod. Only the files this run may write are followed.      *)
Init ==
    /\ project \in Projects
    /\ pc = "root"
    /\ todo = Pkgs
    /\ pkg = "" /\ next = 1
    /\ decls = <<>> /\ used = {}
    /\ files \in [Pkgs -> {Absent, Old}]
    /\ goMod \in {"absent", "old"}

(* An error ends WriteProject; what was written before it stays, in this run *)
(* or an earlier one.                                                        *)
Fail == pc' = "failed" /\ UNCHANGED <<project, todo, pkg, next, decls, used>>

MakeRoot ==
    /\ pc = "root"
    /\ pc' = "packages"
    /\ UNCHANGED <<project, todo, pkg, next, decls, used, files, goMod>>

MakeRootFails == pc = "root" /\ Fail /\ UNCHANGED <<files, goMod>>

(* main comes first, the others in the order of a map.                       *)
MayStart(p) == pc = "packages" /\ p \in todo /\ ("main" \in todo => p = "main")

StartPackage(p) ==
    /\ MayStart(p)
    /\ pc' = "structs" /\ pkg' = p /\ next' = 1
    /\ decls' = <<>> /\ used' = {}
    /\ UNCHANGED <<project, todo, files, goMod>>

MakePackageFails(p) == MayStart(p) /\ Fail /\ UNCHANGED <<files, goMod>>

(* The base, or the base with the first number that makes a new name.        *)
Numbered(base, i) ==
    IF i = 0 THEN base ELSE [base EXCEPT !.numbers = Append(@, i)]

IsFirstFree(base, names, i) ==
    /\ Numbered(base, i) \notin names
    /\ \A j \in 0..i - 1 : Numbered(base, j) \in names

(* A mistake: the number goes behind the name once only.                     *)
NumberedOnce(base, names) == Numbered(base, IF base \in names THEN 1 ELSE 0)

deduplicateName(base, names) ==
    Numbered(base, CHOOSE i \in 0..Cardinality(names) : IsFirstFree(base, names, i))

Declare(kind, base) ==
    LET name == deduplicateName(base, used)
    IN  /\ decls' = Append(decls, [kind |-> kind, of |-> next, name |-> name])
        /\ used' = used \union {name}

DeclareStruct ==
    /\ pc = "structs" /\ next \in DOMAIN project.structs
    /\ IF project.structs[next].pkg = pkg
       THEN Declare("struct", project.structs[next].base)
       ELSE UNCHANGED <<decls, used>>
    /\ next' = next + 1
    /\ UNCHANGED <<project, pc, todo, pkg, files, goMod>>

EndStructs ==
    /\ pc = "structs" /\ next \notin DOMAIN project.structs
    /\ pc' = "funcs" /\ next' = 1
    /\ UNCHANGED <<project, todo, pkg, decls, used, files, goMod>>

(* A mistake: the last function of a program is not looked at.               *)
DeclareAllButLast ==
    /\ pc = "funcs" /\ next \in DOMAIN project.funcs
    /\ IF project.funcs[next].pkg = pkg /\ project.funcs[next].code /\ next < Len(project.funcs)
       THEN Declare("func", project.funcs[next].base)
       ELSE UNCHANGED <<decls, used>>
    /\ next' = next + 1
    /\ UNCHANGED <<project, pc, todo, pkg, files, goMod>>

(* A function without instructions is left out.                              *)
DeclareFunction ==
    /\ pc = "funcs" /\ next \in DOMAIN project.funcs
    /\ IF project.funcs[next].pkg = pkg /\ project.funcs[next].code
       THEN Declare("func", project.funcs[next].base)
       ELSE UNCHANGED <<decls, used>>
    /\ next' = next + 1
    /\ UNCHANGED <<project, pc, todo, pkg, files, goMod>>

AtEnd == pc = "funcs" /\ next \notin DOMAIN project.funcs

WriteFile ==
    /\ AtEnd
    /\ files' = [files EXCEPT ![pkg] = [state |-> "complete", decls |-> decls]]
    /\ todo' = todo \ {pkg}
    /\ pc' = "packages"
    /\ UNCHANGED <<project, pkg, next, decls, used, goMod>>

CreateFails == AtEnd /\ Fail /\ UNCHANGED <<files, goMod>>

PrintFails ==
    /\ AtEnd /\ Fail
    /\ files' = [files EXCEPT ![pkg] = [state |-> "partial", decls |-> decls]]
    /\ UNCHANGED goMod

WriteGoMod ==
    /\ pc = "packages" /\ todo = {}
    /\ goMod' = "complete" /\ pc' = "done"
    /\ UNCHANGED <<project, todo, pkg, next, decls, used, files>>

GoModFails ==
    /\ pc = "packages" /\ todo = {}
    /\ goMod' \in {goMod, "partial"}
    /\ Fail /\ UNCHANGED files

Ended == pc \in {"done", "failed"} /\ UNCHANGED vars

Next ==
    \/ MakeRoot \/ MakeRootFails
    \/ \E p \in Pkgs : StartPackage(p)
    \/ \E p \in Pkgs : MakePackageFails(p)
    \/ DeclareStruct \/ EndStructs
    \/ DeclareFunction
    \/ WriteFile \/ CreateFails \/ PrintFails
    \/ WriteGoMod \/ GoModFails
    \/ Ended

Spec == Init /\ [][Next]_vars

-----------------------------------------------------------------------------
TypeOK ==
    /\ project \in [funcs : Seq(FuncType), structs : Seq(StructType)]
    /\ pc \in {"root", "packages", "structs", "funcs", "done", "failed"}
    /\ todo \subseteq Pkgs
    /\ pkg \in Pkgs \union {""} /\ next \in Nat \ {0}
    /\ decls \in Seq(Decls)
    /\ used \subseteq Names
    /\ files \in [Pkgs -> [state : {"absent", "old", "partial", "complete"}, decls : Seq(Decls)]]
    /\ goMod \in {"absent", "old", "partial", "complete"}

Distinct(ds) == \A i, j \in DOMAIN ds : ds[i].name = ds[j].name => i = j

(* No two declarations of a file have one name, though names with a number   *)
(* may occur in the program, too (generate.go:898).                          *)
NamesUnique == Distinct(decls) /\ \A p \in Pkgs : Distinct(files[p].decls)

Declares(ds, kind, i) == \E d \in DOMAIN ds : ds[d].kind = kind /\ ds[d].of = i

(* A run writes a go.mod exactly when it reports success, and the project is *)
(* whole then, whatever an earlier run had left: the file of every package   *)
(* is complete and declares the package's functions that have code, its      *)
(* structs, and nothing of another package (generate.go:138). An error on    *)
(* the way leaves no go.mod of this run; one of an earlier run stays, beside *)
(* files of both, and says nothing.                                          *)
Whole(ds, p) ==
    /\ \A i \in DOMAIN project.funcs :
         Declares(ds, "func", i) <=> project.funcs[i].pkg = p /\ project.funcs[i].code
    /\ \A i \in DOMAIN project.structs :
         Declares(ds, "struct", i) <=> project.structs[i].pkg = p

GoModMeansWhole ==
    /\ goMod = "complete" <=> pc = "done"
    /\ pc = "done" =>
         \A p \in Pkgs : files[p].state = "complete" /\ Whole(files[p].decls, p)

============================================================================
