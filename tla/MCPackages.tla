----------------------------- MODULE MCPackages -----------------------------
(* Programs of three functions for TLC. The names are those of functions,    *)
(* methods and closures of a module's packages p and q, of main and of fmt.  *)
EXTENDS Packages

CONSTANT MaxCalls

Func(pkg, short) == [pkg |-> pkg, recv |-> "", pointer |-> FALSE, short |-> short]
Method(pkg, pointer, short) == [pkg |-> pkg, recv |-> "T", pointer |-> pointer, short |-> short]

Symbols == {
    Method("main", FALSE, <<"m">>), Func("main", <<"f", "func1">>),
    Func("mod/p", <<"F">>), Func("mod/p", <<"f">>),
    Method("mod/p", TRUE, <<"m">>), Method("mod/q", TRUE, <<"M">>),
    Func("fmt", <<"P">>) }

MCLowercase == {"f", "m", "func1"}
MCClosureNames == {"func1"}
MCUserPaths == {"mod/p", "mod/q"}
MCRuntimePaths == {"runtime"}
MCInternalPaths == {"internal/abi"}
MCStdlibPaths == {"fmt"}

(* Function k is at 10 * k, its call of function c at 10 * k + c.            *)
MCFunctionLists ==
    {[k \in 1..3 |-> [sym |-> syms[k], entry |-> 10 * k]] : syms \in [1..3 -> Symbols]}

(* One call lies before the first function.                                  *)
CallAddrs == {1} \union {10 * k + c : k, c \in 1..3}
MCCallLists ==
    {SetToSortSeq({[at |-> a, target |-> 10 * (a % 10)] : a \in A}, LAMBDA x, y : x.at < y.at) :
        A \in UNION {kSubset(n, CallAddrs) : n \in 0..MaxCalls}}
=============================================================================
