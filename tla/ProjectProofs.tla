---------------------------- MODULE ProjectProofs ---------------------------
(* Proofs about Project for every program: the type invariant, that the      *)
(* names of a file are distinct, and that a go.mod says the project is       *)
(* whole, whichever call fails.                                              *)
EXTENDS Project, FiniteSetTheorems, SequenceTheorems, TLAPS

(* The declarations ds of package p say which of the first n - 1 structs of  *)
(* ss, or functions of fs, are p's.                                          *)
HasStructs(ss, ds, p, n) ==
    \A i \in DOMAIN ss : Declares(ds, "struct", i) <=> i < n /\ ss[i].pkg = p

HasFuncs(fs, ds, p, n) ==
    \A i \in DOMAIN fs : Declares(ds, "func", i) <=> i < n /\ fs[i].pkg = p /\ fs[i].code

WholeFile(prj, ds, p) ==
    /\ HasStructs(prj.structs, ds, p, Len(prj.structs) + 1)
    /\ HasFuncs(prj.funcs, ds, p, Len(prj.funcs) + 1)

NamesOf(ds) == {ds[k].name : k \in DOMAIN ds}

(* The parts of the inductive invariant.                                     *)

(* The names in use are those of the declarations.                           *)
Named == used = NamesOf(decls) /\ Distinct(decls)

(* How far the package at hand is.                                           *)
Begun ==
    /\ pc \in {"structs", "funcs"} => pkg \in todo
    /\ pc = "structs" =>
         HasStructs(project.structs, decls, pkg, next) /\ HasFuncs(project.funcs, decls, pkg, 1)
    /\ pc = "funcs" =>
         /\ HasStructs(project.structs, decls, pkg, Len(project.structs) + 1)
         /\ HasFuncs(project.funcs, decls, pkg, next)

(* A package that is no longer left has its whole file.                      *)
Written ==
    \A p \in Pkgs :
        /\ Distinct(files[p].decls)
        /\ p \notin todo => files[p].state = "complete" /\ WholeFile(project, files[p].decls, p)

(* This run's go.mod comes last.                                             *)
GoModLast == (goMod = "complete" <=> pc = "done") /\ (pc = "done" => todo = {})

ProjectInv == TypeOK /\ Named /\ Begun /\ Written /\ GoModLast

-----------------------------------------------------------------------------
(* A set of natural numbers that is not empty has a least one.               *)
LEMMA LeastNumber ==
    ASSUME NEW U, U \subseteq Nat, U # {}
    PROVE  \E u \in U : \A v \in U : u <= v
<1> DEFINE R == {ss \in Nat \X Nat : ss[1] < ss[2]}
<1>1. IsWellFoundedOn(R, Nat)
  BY NatLessThanWellFounded DEF OpToRel
<1>2. PICK u \in U : \A v \in U : ~(<<v, u>> \in R)
  <2> HIDE DEF R
  <2> QED
    BY <1>1, WFMin, Zenon
<1>3. \A v \in U : ~(v < u)
  <2> SUFFICES ASSUME NEW v \in U, v < u PROVE FALSE
    OBVIOUS
  <2>1. v \in Nat /\ u \in Nat
    OBVIOUS
  <2>2. <<v, u>> \in R
    BY <2>1
  <2> QED
    BY <1>2, <2>2
<1> QED
  BY <1>3

(* Different numbers make different names of one base.                       *)
LEMMA NumberedDiffers ==
    ASSUME NEW base \in Names, NEW i \in Nat
    PROVE  /\ Numbered(base, i) \in Names
           /\ \A j \in Nat : Numbered(base, i) = Numbered(base, j) => i = j
<1>1. base.numbers \in Seq(Nat) /\ base.text \in STRING
  BY DEF Names
<1>2. \A n \in Nat : /\ Append(base.numbers, n) \in Seq(Nat)
                     /\ Len(Append(base.numbers, n)) = Len(base.numbers) + 1
                     /\ Append(base.numbers, n)[Len(base.numbers) + 1] = n
  BY <1>1, AppendProperties
<1>3. \A n \in Nat \ {0} :
         Numbered(base, n) = [text |-> base.text, numbers |-> Append(base.numbers, n)]
  BY DEF Numbered, Names
<1>4. Numbered(base, 0) = base
  BY DEF Numbered
<1>5. \A n \in Nat \ {0} : Numbered(base, n).numbers = Append(base.numbers, n)
  BY <1>3
<1>6. Len(base.numbers) \in Nat
  BY <1>1, LenProperties
<1>7. \A n \in Nat \ {0} : Numbered(base, n) # base
  <2> SUFFICES ASSUME NEW n \in Nat \ {0}, Numbered(base, n) = base PROVE FALSE
    OBVIOUS
  <2>1. Append(base.numbers, n) = base.numbers
    BY <1>5
  <2> QED
    BY <2>1, <1>2, <1>6
<1>8. \A j \in Nat : Numbered(base, i) = Numbered(base, j) => i = j
  <2> SUFFICES ASSUME NEW j \in Nat, Numbered(base, i) = Numbered(base, j) PROVE i = j
    OBVIOUS
  <2>1. CASE i = 0 \/ j = 0
    BY <2>1, <1>4, <1>7
  <2>2. CASE i # 0 /\ j # 0
    <3>1. Append(base.numbers, i) = Append(base.numbers, j)
      BY <2>2, <1>5
    <3> QED
      BY <3>1, <1>2
  <2> QED
    BY <2>1, <2>2
<1>9. Numbered(base, i) \in Names
  <2>1. CASE i = 0
    BY <2>1, <1>4
  <2>2. CASE i # 0
    <3>1. Numbered(base, i) = [text |-> base.text, numbers |-> Append(base.numbers, i)]
      BY <2>2, <1>3
    <3>2. Append(base.numbers, i) \in Seq(Nat)
      BY <1>2
    <3> QED
      BY <1>1, <3>1, <3>2 DEF Names
  <2> QED
    BY <2>1, <2>2
<1> QED
  BY <1>8, <1>9

(* deduplicateName finds a name, and a new one: among one more numbers than  *)
(* there are names in use one is free.                                       *)
LEMMA NameIsNew ==
    ASSUME NEW base \in Names, NEW names \in SUBSET Names, IsFiniteSet(names)
    PROVE  deduplicateName(base, names) \in Names \ names
<1> DEFINE n == Cardinality(names)
           Free == {i \in 0..n : Numbered(base, i) \notin names}
<1>1. n \in Nat
  BY FS_CardinalityType
<1>2. Free # {}
  <2> SUFFICES ASSUME Free = {} PROVE FALSE
    OBVIOUS
  <2> DEFINE f == [i \in 0..n |-> Numbered(base, i)]
  <2>1. f \in [0..n -> names]
    OBVIOUS
  <2>2. IsFiniteSet(0..n) /\ Cardinality(0..n) = n + 1
    BY <1>1, FS_Interval
  <2>3. \E x, y \in 0..n : x # y /\ f[x] = f[y]
    <3> HIDE DEF f
    <3> QED
      BY <1>1, <2>1, <2>2, FS_PigeonHole
  <2>4. PICK x, y \in 0..n : x # y /\ Numbered(base, x) = Numbered(base, y)
    BY <2>3
  <2> QED
    BY <2>4, NumberedDiffers
<1>3. PICK i \in Free : \A j \in Free : i <= j
  <2>1. Free \subseteq Nat
    BY <1>1
  <2> HIDE DEF Free
  <2> QED
    BY <1>2, <2>1, LeastNumber
<1>4. IsFirstFree(base, names, i) /\ i \in 0..n
  BY <1>1, <1>3 DEF IsFirstFree
<1>5. PICK k \in 0..n : /\ IsFirstFree(base, names, k)
                        /\ deduplicateName(base, names) = Numbered(base, k)
  <2> HIDE DEF n, Free
  <2> QED
    BY <1>4 DEF deduplicateName, n
<1>6. k \in Nat
  BY <1>1
<1> QED
  BY <1>5, <1>6, NumberedDiffers DEF IsFirstFree

(* What one more declaration changes.                                        *)
LEMMA AppendDeclares ==
    ASSUME NEW ds \in Seq(Decls), NEW d \in Decls
    PROVE  /\ Append(ds, d) \in Seq(Decls)
           /\ NamesOf(Append(ds, d)) = NamesOf(ds) \union {d.name}
           /\ Distinct(ds) /\ d.name \notin NamesOf(ds) => Distinct(Append(ds, d))
           /\ \A kind, i : Declares(Append(ds, d), kind, i)
                             <=> Declares(ds, kind, i) \/ (d.kind = kind /\ d.of = i)
<1>1. /\ DOMAIN ds = 1..Len(ds) /\ Len(ds) \in Nat
      /\ DOMAIN Append(ds, d) = 1..Len(ds) + 1
      /\ \A k \in 1..Len(ds) : Append(ds, d)[k] = ds[k]
      /\ Append(ds, d)[Len(ds) + 1] = d
      /\ Append(ds, d) \in Seq(Decls)
  BY LenProperties, AppendProperties
<1>2. NamesOf(Append(ds, d)) = NamesOf(ds) \union {d.name}
  BY <1>1 DEF NamesOf
<1>3. Distinct(ds) /\ d.name \notin NamesOf(ds) => Distinct(Append(ds, d))
  BY <1>1 DEF Distinct, NamesOf
<1>4. \A kind, i : Declares(Append(ds, d), kind, i)
                     <=> Declares(ds, kind, i) \/ (d.kind = kind /\ d.of = i)
  BY <1>1 DEF Declares
<1> QED
  BY <1>1, <1>2, <1>3, <1>4

(* The names of a list of declarations are finitely many.                    *)
LEMMA NamesFinite ==
    ASSUME NEW ds \in Seq(Decls)
    PROVE  NamesOf(ds) \in SUBSET Names /\ IsFiniteSet(NamesOf(ds))
<1>1. DOMAIN ds = 1..Len(ds) /\ Len(ds) \in Nat /\ \A k \in 1..Len(ds) : ds[k] \in Decls
  BY LenProperties, ElementOfSeq
<1>2. IsFiniteSet(1..Len(ds))
  BY <1>1, FS_Interval
<1> DEFINE f == [k \in 1..Len(ds) |-> ds[k].name]
<1>3. NamesOf(ds) = {f[k] : k \in 1..Len(ds)}
  BY <1>1 DEF NamesOf
<1>4. NamesOf(ds) \in SUBSET Names
  BY <1>1 DEF NamesOf, Decls
<1>5. f \in Surjection(1..Len(ds), NamesOf(ds))
  BY <1>3 DEF Surjection
<1>6. IsFiniteSet(NamesOf(ds))
  BY <1>1, <1>5, FS_NatSurjection DEF ExistsSurjection
<1> QED
  BY <1>4, <1>6

-----------------------------------------------------------------------------
(* Facts about the input that a state keeps.                                 *)
LEMMA InputFacts ==
    ASSUME TypeOK
    PROVE  /\ DOMAIN project.funcs = 1..Len(project.funcs) /\ Len(project.funcs) \in Nat
           /\ DOMAIN project.structs = 1..Len(project.structs) /\ Len(project.structs) \in Nat
           /\ \A i \in DOMAIN project.funcs : project.funcs[i] \in FuncType
           /\ \A i \in DOMAIN project.structs : project.structs[i] \in StructType
<1>1. project.funcs \in Seq(FuncType) /\ project.structs \in Seq(StructType)
  BY DEF TypeOK
<1> QED
  BY <1>1, LenProperties, ElementOfSeq

(* The loop has seen one declaration more.                                   *)
LEMMA DeclareStep ==
    ASSUME NEW ds \in Seq(Decls), NEW kind \in {"struct", "func"}, NEW n \in Nat,
           NEW base \in Names, NEW names, names = NamesOf(ds), Distinct(ds)
    PROVE  LET name == deduplicateName(base, names)
               more == Append(ds, [kind |-> kind, of |-> n, name |-> name])
           IN  /\ more \in Seq(Decls) /\ Distinct(more)
               /\ names \union {name} = NamesOf(more)
               /\ names \union {name} \subseteq Names
               /\ \A k, i : Declares(more, k, i) <=> Declares(ds, k, i) \/ (kind = k /\ n = i)
<1> DEFINE name == deduplicateName(base, names)
           d == [kind |-> kind, of |-> n, name |-> name]
<1>1. names \subseteq Names /\ IsFiniteSet(names)
  BY NamesFinite
<1>2. name \in Names /\ name \notin names
  BY <1>1, NameIsNew
<1>3. d \in Decls /\ d.kind = kind /\ d.of = n /\ d.name = name
  BY <1>2 DEF Decls
<1> HIDE DEF d, name
<1>4. /\ Append(ds, d) \in Seq(Decls) /\ NamesOf(Append(ds, d)) = NamesOf(ds) \union {d.name}
      /\ Distinct(Append(ds, d))
      /\ \A k, i : Declares(Append(ds, d), k, i) <=> Declares(ds, k, i) \/ (d.kind = k /\ d.of = i)
  BY <1>2, <1>3, AppendDeclares
<1>5. Append(ds, d) = Append(ds, [kind |-> kind, of |-> n, name |-> name])
  BY DEF d
<1> QED
  BY <1>1, <1>2, <1>3, <1>4, <1>5 DEF name

(* Nothing is declared at first.                                             *)
LEMMA NothingDeclared ==
    /\ <<>> \in Seq(Decls) /\ Distinct(<<>>) /\ NamesOf(<<>>) = {}
    /\ \A kind, i : ~Declares(<<>>, kind, i)
<1>1. <<>> \in Seq(Decls) /\ DOMAIN <<>> = {}
  BY EmptySeq
<1> QED
  BY <1>1 DEF Distinct, NamesOf, Declares

-----------------------------------------------------------------------------
(* Nothing is written yet, whatever an earlier run left.                     *)
LEMMA InitInv == Init => ProjectInv
<1> SUFFICES ASSUME Init PROVE ProjectInv
  OBVIOUS
<1>1. PICK prj \in Projects : project = prj
  BY DEF Init
<1>2. project \in [funcs : Seq(FuncType), structs : Seq(StructType)]
  BY <1>1, ProjectsAssumption DEF Init
<1>3. {Absent, Old} \subseteq [state : {"absent", "old", "partial", "complete"}, decls : Seq(Decls)]
  BY NothingDeclared DEF Absent, Old
<1>4. TypeOK
  <2>1. /\ pc = "root" /\ todo = Pkgs /\ pkg = "" /\ next = 1 /\ decls = <<>> /\ used = {}
        /\ files \in [Pkgs -> {Absent, Old}] /\ goMod \in {"absent", "old"}
    BY DEF Init
  <2>2. decls \in Seq(Decls)
    BY <2>1, NothingDeclared
  <2>3. files \in [Pkgs -> [state : {"absent", "old", "partial", "complete"}, decls : Seq(Decls)]]
    BY <1>3, <2>1
  <2>4. next \in Nat \ {0}
    <3>1. next = 1
      BY <2>1
    <3> QED
      BY <3>1
  <2> QED
    BY <1>2, <2>1, <2>2, <2>3, <2>4 DEF TypeOK
<1>5. Named /\ Begun /\ GoModLast
  BY NothingDeclared DEF Init, Named, Begun, GoModLast
<1>6. Written
  <2>1. todo = Pkgs /\ \A p \in Pkgs : files[p] \in {Absent, Old}
    BY DEF Init
  <2>2. Absent.decls = <<>> /\ Old.decls = <<>>
    BY DEF Absent, Old
  <2> QED
    BY <2>1, <2>2, NothingDeclared DEF Written
<1> QED
  BY <1>4, <1>5, <1>6 DEF ProjectInv

(* The packages are those of the program.                                    *)
LEMMA SamePkgs == UNCHANGED project => Pkgs' = Pkgs
BY DEF Pkgs

(* A package is begun with nothing declared.                                 *)
LEMMA StartPackageInv ==
    ASSUME ProjectInv, NEW p \in Pkgs, StartPackage(p)
    PROVE  ProjectInv'
<1> USE DEF ProjectInv
<1>1. TypeOK'
  <2>1. /\ pc' = "structs" /\ pkg' = p /\ next' = 1 /\ decls' = <<>> /\ used' = {}
        /\ UNCHANGED <<project, todo, files, goMod>>
    BY DEF StartPackage
  <2>2. Pkgs' = Pkgs /\ decls' \in Seq(Decls) /\ next' \in Nat \ {0}
    BY <2>1, SamePkgs, NothingDeclared
  <2> QED
    BY <2>1, <2>2 DEF TypeOK
<1>2. Named'
  BY NothingDeclared DEF Named, StartPackage
<1>3. Begun'
  <2>1. /\ DOMAIN project.structs = 1..Len(project.structs)
        /\ DOMAIN project.funcs = 1..Len(project.funcs)
    BY InputFacts
  <2> QED
    BY <2>1, NothingDeclared DEF Begun, StartPackage, MayStart, HasStructs, HasFuncs
<1>4. Written' /\ GoModLast'
  <2>1. pc = "packages" /\ pc' = "structs" /\ UNCHANGED <<project, todo, files, goMod>>
    BY DEF StartPackage, MayStart
  <2> QED
    BY <2>1 DEF Written, GoModLast, Pkgs
<1> QED
  BY <1>1, <1>2, <1>3, <1>4

(* A struct is declared under a name that is new.                          *)
LEMMA DeclareStructInv ==
    ASSUME ProjectInv, DeclareStruct
    PROVE  ProjectInv'
<1> USE DEF ProjectInv
<1>1. /\ next \in DOMAIN project.structs /\ next \in Nat /\ next + 1 \in Nat \ {0}
      /\ pc = "structs" /\ pc' = "structs" /\ next' = next + 1
      /\ UNCHANGED <<project, todo, pkg, files, goMod>>
  <2>1. /\ next \in DOMAIN project.structs /\ pc = "structs" /\ next' = next + 1
        /\ UNCHANGED <<project, pc, todo, pkg, files, goMod>>
    BY Zenon DEF DeclareStruct
  <2>2. next \in Nat
    BY DEF TypeOK
  <2> QED
    BY <2>1, <2>2
<1>2. project.structs[next].base \in Names /\ DOMAIN project.structs \subseteq Nat
  BY <1>1, InputFacts DEF StructType
<1>3. /\ decls' \in Seq(Decls) /\ Distinct(decls') /\ used' = NamesOf(decls') /\ used' \subseteq Names
      /\ \A k, i : Declares(decls', k, i)
           <=> \/ Declares(decls, k, i)
               \/ k = "struct" /\ i = next /\ project.structs[next].pkg = pkg
  <2>1. CASE project.structs[next].pkg = pkg
    <3>1. /\ decls' = Append(decls, [kind |-> "struct", of |-> next,
                         name |-> deduplicateName(project.structs[next].base, used)])
          /\ used' = used \union {deduplicateName(project.structs[next].base, used)}
      BY <2>1 DEF DeclareStruct, Declare
    <3>2. decls \in Seq(Decls) /\ used = NamesOf(decls) /\ Distinct(decls)
      BY DEF TypeOK, Named
    <3> QED
      BY <1>1, <1>2, <2>1, <3>1, <3>2, DeclareStep
  <2>2. CASE project.structs[next].pkg # pkg
    BY <2>2 DEF DeclareStruct, TypeOK, Named
  <2> QED
    BY <2>1, <2>2
<1>4. TypeOK'
  BY <1>1, <1>3, SamePkgs DEF TypeOK
<1>5. Named'
  BY <1>3 DEF Named
<1>6. HasStructs(project.structs, decls', pkg, next + 1)
  BY <1>1, <1>2, <1>3 DEF Begun, HasStructs
<1>7. HasFuncs(project.funcs, decls', pkg, 1)
  BY <1>1, <1>3 DEF Begun, HasFuncs
<1>8. Begun'
  BY <1>1, <1>6, <1>7 DEF Begun
<1>9. Written' /\ GoModLast'
  BY <1>1 DEF Written, GoModLast, Pkgs
<1> QED
  BY <1>4, <1>5, <1>8, <1>9

(* The structs of a package are all declared.                              *)
LEMMA EndStructsInv ==
    ASSUME ProjectInv, EndStructs
    PROVE  ProjectInv'
<1> USE DEF ProjectInv
<1>1. /\ next \notin DOMAIN project.structs /\ pc = "structs" /\ pc' = "funcs" /\ next' = 1
      /\ UNCHANGED <<project, todo, pkg, decls, used, files, goMod>>
  BY DEF EndStructs
<1>2. \A i \in DOMAIN project.structs : i < next /\ i < Len(project.structs) + 1
  <2>1. next \in Nat \ {0}
    BY DEF TypeOK
  <2> QED
    BY <1>1, <2>1, InputFacts
<1>3. TypeOK' /\ Named'
  <2>1. next' \in Nat \ {0}
    BY <1>1
  <2> QED
    BY <1>1, <2>1, SamePkgs DEF TypeOK, Named
<1>4. Begun'
  <2>1. HasStructs(project.structs, decls, pkg, Len(project.structs) + 1)
    BY <1>1, <1>2 DEF Begun, HasStructs
  <2> QED
    BY <1>1, <2>1 DEF Begun
<1>5. Written' /\ GoModLast'
  BY <1>1 DEF Written, GoModLast, Pkgs
<1> QED
  BY <1>3, <1>4, <1>5

(* A function is declared under a name that is new.                        *)
LEMMA DeclareFunctionInv ==
    ASSUME ProjectInv, DeclareFunction
    PROVE  ProjectInv'
<1> USE DEF ProjectInv
<1> DEFINE Mine == project.funcs[next].pkg = pkg /\ project.funcs[next].code
<1>1. /\ next \in DOMAIN project.funcs /\ next \in Nat /\ next + 1 \in Nat \ {0}
      /\ pc = "funcs" /\ pc' = "funcs" /\ next' = next + 1
      /\ UNCHANGED <<project, todo, pkg, files, goMod>>
  <2>1. /\ next \in DOMAIN project.funcs /\ pc = "funcs" /\ next' = next + 1
        /\ UNCHANGED <<project, pc, todo, pkg, files, goMod>>
    BY Zenon DEF DeclareFunction
  <2>2. next \in Nat
    BY DEF TypeOK
  <2> QED
    BY <2>1, <2>2
<1>2. project.funcs[next].base \in Names /\ DOMAIN project.funcs \subseteq Nat
  BY <1>1, InputFacts DEF FuncType
<1>3. /\ decls' \in Seq(Decls) /\ Distinct(decls') /\ used' = NamesOf(decls') /\ used' \subseteq Names
      /\ \A k, i : Declares(decls', k, i) <=> Declares(decls, k, i) \/ (k = "func" /\ i = next /\ Mine)
  <2>1. CASE Mine
    <3>1. /\ decls' = Append(decls, [kind |-> "func", of |-> next,
                         name |-> deduplicateName(project.funcs[next].base, used)])
          /\ used' = used \union {deduplicateName(project.funcs[next].base, used)}
      BY <2>1 DEF DeclareFunction, Declare
    <3>2. decls \in Seq(Decls) /\ used = NamesOf(decls) /\ Distinct(decls)
      BY DEF TypeOK, Named
    <3> QED
      BY <1>1, <1>2, <2>1, <3>1, <3>2, DeclareStep
  <2>2. CASE ~Mine
    BY <2>2 DEF DeclareFunction, TypeOK, Named
  <2> QED
    BY <2>1, <2>2
<1>4. TypeOK'
  BY <1>1, <1>3, SamePkgs DEF TypeOK
<1>5. Named'
  BY <1>3 DEF Named
<1>6. HasFuncs(project.funcs, decls', pkg, next + 1)
  BY <1>1, <1>2, <1>3 DEF Begun, HasFuncs
<1>7. HasStructs(project.structs, decls', pkg, Len(project.structs) + 1)
  BY <1>1, <1>3 DEF Begun, HasStructs
<1>8. Begun'
  BY <1>1, <1>6, <1>7 DEF Begun
<1>9. Written' /\ GoModLast'
  BY <1>1 DEF Written, GoModLast, Pkgs
<1> QED
  BY <1>4, <1>5, <1>8, <1>9

(* At the end of the loops the declarations are all of the package.          *)
LEMMA WriteFileInv ==
    ASSUME ProjectInv, WriteFile
    PROVE  ProjectInv'
<1> USE DEF ProjectInv
<1>1. pc = "funcs" /\ next \notin DOMAIN project.funcs /\ pc' = "packages"
      /\ files' = [files EXCEPT ![pkg] = [state |-> "complete", decls |-> decls]]
      /\ todo' = todo \ {pkg}
      /\ UNCHANGED <<project, pkg, next, decls, used, goMod>>
  BY DEF WriteFile, AtEnd
<1>2. TypeOK'
  BY <1>1, SamePkgs DEF TypeOK
<1>3. Named' /\ Begun' /\ GoModLast'
  BY <1>1 DEF Named, Begun, GoModLast
<1>4. \A i \in DOMAIN project.funcs : i < next /\ i < Len(project.funcs) + 1
  <2>1. next \in Nat \ {0}
    BY DEF TypeOK
  <2> QED
    BY <1>1, <2>1, InputFacts
<1>5. WholeFile(project, decls, pkg) /\ Distinct(decls)
  <2>1. HasFuncs(project.funcs, decls, pkg, Len(project.funcs) + 1)
    BY <1>1, <1>4 DEF Begun, HasFuncs
  <2> QED
    BY <1>1, <2>1 DEF Begun, Named, WholeFile
<1>6. \A p \in Pkgs :
         /\ Distinct(files'[p].decls)
         /\ p \notin todo' => files'[p].state = "complete" /\ WholeFile(project, files'[p].decls, p)
  <2> TAKE p \in Pkgs
  <2>1. CASE p = pkg
    <3>1. files'[p] = [state |-> "complete", decls |-> decls]
      BY <1>1, <2>1 DEF TypeOK
    <3> QED
      BY <1>5, <2>1, <3>1
  <2>2. CASE p # pkg
    <3>1. files'[p] = files[p] /\ (p \in todo <=> p \in todo')
      BY <1>1, <2>2 DEF TypeOK
    <3> QED
      BY <3>1 DEF Written
  <2> QED
    BY <2>1, <2>2
<1>7. Written'
  BY <1>1, <1>6 DEF Written, Pkgs
<1> QED
  BY <1>2, <1>3, <1>7

(* A file that was written in part is that of a package that is still left.  *)
LEMMA PrintFailsInv ==
    ASSUME ProjectInv, PrintFails
    PROVE  ProjectInv'
<1> USE DEF ProjectInv
<1>1. pc = "funcs" /\ pc' = "failed"
      /\ files' = [files EXCEPT ![pkg] = [state |-> "partial", decls |-> decls]]
      /\ UNCHANGED <<project, todo, pkg, next, decls, used, goMod>>
  BY DEF PrintFails, AtEnd, Fail
<1>2. TypeOK'
  BY <1>1, SamePkgs DEF TypeOK
<1>3. Named' /\ Begun' /\ GoModLast'
  BY <1>1 DEF Named, Begun, GoModLast
<1>4. pkg \in todo /\ Distinct(decls)
  BY <1>1 DEF Begun, Named
<1>5. \A p \in Pkgs :
         /\ Distinct(files'[p].decls)
         /\ p \notin todo => files'[p].state = "complete" /\ WholeFile(project, files'[p].decls, p)
  <2> TAKE p \in Pkgs
  <2>1. CASE p = pkg
    <3>1. files'[p] = [state |-> "partial", decls |-> decls]
      BY <1>1, <2>1 DEF TypeOK
    <3> QED
      BY <1>4, <2>1, <3>1
  <2>2. CASE p # pkg
    <3>1. files'[p] = files[p]
      BY <1>1, <2>2 DEF TypeOK
    <3> QED
      BY <3>1 DEF Written
  <2> QED
    BY <2>1, <2>2
<1>6. Written'
  BY <1>1, <1>5 DEF Written, Pkgs
<1> QED
  BY <1>2, <1>3, <1>6

(* The actions that change no declaration and no file.                       *)
LEMMA OtherActionsInv ==
    ASSUME ProjectInv,
           \/ MakeRoot \/ MakeRootFails \/ CreateFails \/ WriteGoMod \/ GoModFails
           \/ \E p \in Pkgs : MakePackageFails(p)
    PROVE  ProjectInv'
<1> USE DEF ProjectInv
<1>1. /\ UNCHANGED <<project, todo, pkg, next, decls, used, files>>
      /\ pc' \in {"packages", "failed", "done"}
      /\ goMod' \in {"absent", "old", "partial", "complete"}
      /\ (goMod' = "complete" <=> pc' = "done") /\ (pc' = "done" => todo = {})
  BY DEF GoModLast, AtEnd, MayStart, MakeRoot, MakeRootFails, CreateFails, WriteGoMod, GoModFails, MakePackageFails, Fail, TypeOK
<1>2. TypeOK'
  BY <1>1, SamePkgs DEF TypeOK
<1>3. Named' /\ Begun' /\ GoModLast'
  BY <1>1 DEF Named, Begun, GoModLast
<1>4. Written'
  BY <1>1 DEF Written, Pkgs
<1> QED
  BY <1>2, <1>3, <1>4

(* Every step keeps the invariant.                                         *)
LEMMA StepInv == ProjectInv /\ [Next]_vars => ProjectInv'
<1> SUFFICES ASSUME ProjectInv, [Next]_vars PROVE ProjectInv'
  OBVIOUS
<1>1. CASE \/ MakeRoot \/ MakeRootFails \/ CreateFails \/ WriteGoMod \/ GoModFails
           \/ \E p \in Pkgs : MakePackageFails(p)
  BY <1>1, OtherActionsInv
<1>2. CASE \E p \in Pkgs : StartPackage(p)
  BY <1>2, StartPackageInv
<1>3. CASE DeclareStruct
  BY <1>3, DeclareStructInv
<1>4. CASE EndStructs
  BY <1>4, EndStructsInv
<1>5. CASE DeclareFunction
  BY <1>5, DeclareFunctionInv
<1>6. CASE WriteFile
  BY <1>6, WriteFileInv
<1>7. CASE PrintFails
  BY <1>7, PrintFailsInv
<1>8. CASE UNCHANGED vars
  <2>1. UNCHANGED <<project, pc, todo, pkg, next, decls, used, files, goMod>>
    BY <1>8 DEF vars
  <2>2. TypeOK'
    BY <2>1, SamePkgs DEF ProjectInv, TypeOK
  <2>3. Named' /\ Begun' /\ Written' /\ GoModLast'
    BY <2>1, SamePkgs DEF ProjectInv, Named, Begun, Written, GoModLast
  <2> QED
    BY <2>2, <2>3 DEF ProjectInv
<1> QED
  BY <1>1, <1>2, <1>3, <1>4, <1>5, <1>6, <1>7, <1>8 DEF Next, Ended

(* The inductive invariant holds for every program.                          *)
THEOREM ProjectInvariant == Spec => []ProjectInv
<1> QED
  BY InitInv, StepInv, PTL DEF Spec

(* Type correctness of the writer (generate.go:84).                          *)
THEOREM ProjectTypeCorrect == Spec => []TypeOK
<1>1. ProjectInv => TypeOK
  BY DEF ProjectInv
<1> QED
  BY <1>1, ProjectInvariant, PTL

(* No two declarations of a file have one name, whatever names the program   *)
(* has and however many (generate.go:898).                                   *)
THEOREM NamesAreUnique == Spec => []NamesUnique
<1>1. ProjectInv => NamesUnique
  BY DEF ProjectInv, Named, Written, NamesUnique
<1> QED
  BY <1>1, ProjectInvariant, PTL

(* A run writes a go.mod when it reports success, then only, and the project *)
(* is whole, whichever call fails and whatever an earlier run had left       *)
(* (generate.go:138).                                                        *)
THEOREM GoModSaysWhole == Spec => []GoModMeansWhole
<1>1. ProjectInv => GoModMeansWhole
  <2> SUFFICES ASSUME ProjectInv, pc = "done", NEW p \in Pkgs
               PROVE  files[p].state = "complete" /\ Whole(files[p].decls, p)
    BY DEF GoModMeansWhole, ProjectInv, GoModLast
  <2>1. files[p].state = "complete" /\ WholeFile(project, files[p].decls, p)
    BY DEF ProjectInv, GoModLast, Written
  <2>2. /\ \A i \in DOMAIN project.funcs : i < Len(project.funcs) + 1
        /\ \A i \in DOMAIN project.structs : i < Len(project.structs) + 1
    BY InputFacts DEF ProjectInv
  <2> QED
    BY <2>1, <2>2 DEF Whole, WholeFile, HasStructs, HasFuncs
<1> QED
  BY <1>1, ProjectInvariant, PTL
=============================================================================
