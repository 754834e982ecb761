---------------------------- MODULE SymbolNames ----------------------------
(* The names of symbols: how ParsePackageName and ClassifyFunction read them *)
(* (function/function.go) and how the Go linker writes them.                 *)
(*                                                                           *)
(* A name is the sequence of its parts, the pieces between dots. A part is   *)
(* its text and how it is written: "plain", or in parentheses as "value" or, *)
(* with a star, as "pointer". A package path is one part, dots included:     *)
(* nothing here looks into it. Which texts begin with a lower case letter    *)
(* and which are those of closures (func1) is given.                         *)
EXTENDS Integers, SequencesExt

CONSTANTS
    Lowercase,      \* texts that begin with a lower case letter
    ClosureNames,   \* texts like func1
    UserPaths,      \* package paths of the user's module, GoMainPackage
    RuntimePaths, InternalPaths, StdlibPaths

Part(text) == [text |-> text, written |-> "plain"]
IsReceiver(part) == part.written # "plain"

(* The parts of a name that ParsePackageName takes for the package path end  *)
(* before this position: after "main", before the first part in parentheses, *)
(* or else before the last part.                                             *)
RestFrom(name) ==
    LET Receivers == {i \in 2..Len(name) : IsReceiver(name[i])}
    IN  IF name[1] = Part("main") /\ Len(name) > 1 THEN 2
        ELSE IF Receivers # {} THEN Min(Receivers)
        ELSE Len(name)

WithoutAbi(rest) ==
    IF Len(rest) > 1 /\ Last(rest) = Part("abi0") THEN Front(rest) ELSE rest

isClosureName(part) == part.text \in ClosureNames

(* The rest of a name in a package other than main starts with a part in     *)
(* parentheses or has one part only, so the code's search for a further dot  *)
(* in it (lines 131-146) finds none.                                         *)
ParsePackageName(name) ==
    LET path == SubSeq(name, 1, RestFrom(name) - 1)
        rest == WithoutAbi(SubSeq(name, RestFrom(name), Len(name)))
        Func == [pkg |-> path, short |-> rest, recv |-> "", method |-> FALSE]
        Method == [pkg |-> path, short |-> Tail(rest), recv |-> rest[1].text, method |-> TRUE]
    IN  IF Len(rest) > 1
           /\ \/ IsReceiver(rest[1])
              \/ path = <<Part("main")>> /\ Len(rest) = 2 /\ ~isClosureName(rest[2])
        THEN Method ELSE Func

isLowercase(short) == short # <<>> /\ ~IsReceiver(short[1]) /\ short[1].text \in Lowercase

(* The prefixes the code compares are those of package paths.                *)
ClassifyFunction(name) ==
    LET path == name[1].text
    IN  CASE Len(name) > 1 /\ path = "main"                                  -> "user"
          [] path \in UserPaths                                              -> "user"
          [] path \in RuntimePaths \/ \E i \in 2..Len(name) : name[i] = Part("abi0") -> "runtime"
          [] path \in InternalPaths                                          -> "internal"
          [] path \in StdlibPaths                                            -> "stdlib"
          [] Len(name) > 1                                                   -> "vendor"
          [] OTHER                                                           -> "unknown"

(* What the linker calls a function: path.f, path.f.func1 for a closure in   *)
(* it, path.T.M for a method of T; T is in parentheses and has a star where  *)
(* the receiver is a pointer. A symbol is [pkg, recv, pointer, short], recv  *)
(* empty for a function.                                                     *)
NameOf(sym) ==
    <<Part(sym.pkg)>>
      \o (IF sym.recv = "" THEN <<>>
          ELSE <<[text |-> sym.recv, written |-> IF sym.pointer THEN "pointer" ELSE "plain"]>>)
      \o [i \in DOMAIN sym.short |-> Part(sym.short[i])]

(* ParsePackageName gives back what the linker put in.                       *)
ParsedRight(sym) ==
    LET parsed == ParsePackageName(NameOf(sym))
    IN  /\ parsed.pkg = <<Part(sym.pkg)>>
        /\ parsed.recv = sym.recv
        /\ parsed.short = [i \in DOMAIN sym.short |-> Part(sym.short[i])]
============================================================================
