----------------------------- MODULE MCProject -----------------------------
(* Projects of up to four functions in the packages main and p for TLC. The  *)
(* struct of a receiver is in the package of one of its methods.             *)
EXTENDS Project

Plain(text) == [text |-> text, numbers |-> <<>>]

One(text) == [text |-> text, numbers |-> <<1>>]
Func(p, base) == [pkg |-> p, base |-> base, recv |-> "", code |-> TRUE]
Method(p, recv, base) == [pkg |-> p, base |-> base, recv |-> recv, code |-> TRUE]

Funcs == {
    Func("main", Plain("main")), Func("main", Plain("f")), Func("main", One("f")),
    Method("main", "T", Plain("f")), Method("main", "T", Plain("main")), Method("main", "U", Plain("f")),
    Func("p", Plain("f")), Func("p", One("f")), Method("p", "U", Plain("U")),
    [Func("p", Plain("g")) EXCEPT !.code = FALSE] }

StructsOf(funcs) ==
    LET Recvs == {funcs[i].recv : i \in DOMAIN funcs} \ {""}
        Place(r) == {[pkg |-> funcs[i].pkg, base |-> Plain(r)] :
                        i \in {j \in DOMAIN funcs : funcs[j].recv = r}}
    IN  IF Recvs = {} THEN {<<>>}
        ELSE IF Cardinality(Recvs) = 1 THEN {<<s>> : s \in UNION {Place(r) : r \in Recvs}}
        ELSE UNION {{<<s, t>> : s \in Place(r), t \in Place(q)} :
                        <<r, q>> \in {x \in Recvs \X Recvs : x[1] # x[2]}}

(* The same function is not there twice.                                     *)
FuncLists ==
    UNION {{fs \in [1..n -> Funcs] : \A i, j \in 1..n : fs[i] = fs[j] => i = j} : n \in 0..4}
MCProjects ==
    UNION {{[funcs |-> fs, structs |-> ss] : ss \in StructsOf(fs)} : fs \in FuncLists}
============================================================================
