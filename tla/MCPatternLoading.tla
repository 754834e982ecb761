-------------------------- MODULE MCPatternLoading --------------------------
(* Two files for TLC: "a" has up to MaxTokens tokens, or conditionals in      *)
(* conditionals; "b" is there to be included.                                *)
EXTENDS PatternLoading

CONSTANT MaxTokens

Simple(kind) == [kind |-> kind]
Pat(name, library, blocks) ==
    [kind |-> "pattern", name |-> name, library |-> library, blocks |-> blocks]
DefineAs(name, value) == [kind |-> "define", name |-> name, lexes |-> TRUE, value |-> value]
UndefOf(name) == [kind |-> "undef", name |-> name]
Ifdef(name) == [kind |-> "ifdef", name |-> name]
Ifndef(name) == [kind |-> "ifndef", name |-> name]
IncludeOf(f) == [kind |-> "include", file |-> f]

(* Alternatives of one block in lower and upper case, one of them twice; and *)
(* two blocks, the last of which begins with an empty alternative.           *)
P == Pat("p", "l", << <<"movq", "MOVQ", "CALL">> >>)
Q == Pat("q", "", << <<"MOVQ">>, <<"", "CALL">> >>)

MCUpper == [opcode \in {"movq", "MOVQ", "CALL"} |-> IF opcode = "movq" THEN "MOVQ" ELSE opcode]
MCWalks == {<<"a">>, <<"b", "a">>}
MCNames == {"p"}
MCLibraries == {"l"}

Tokens == {P, DefineAs("MOVQ", "CALL"), DefineAs("CALL", ""), UndefOf("MOVQ"),
           [kind |-> "define", name |-> "MOVQ", lexes |-> FALSE, value |-> ""],
           Ifdef("MOVQ"), Ifndef("MOVQ"), IncludeOf("b"),
           Simple("endif"), Simple("error"), Simple("junk"), Simple("stuck"), Simple("endless"),
           [kind |-> "arch", arch |-> "arm64"]}

Nested ==
    {<<d, c1, P, c2, Q, Simple("endif"), e, P, Simple("endif"), Q>> :
        d \in {DefineAs("MOVQ", "movq"), Simple("pragma"), IncludeOf("b")},
        c1 \in {Ifdef("MOVQ"), Ifndef("MOVQ"), Ifdef("CALL")},
        c2 \in {Ifdef("MOVQ"), Ifndef("MOVQ")},
        e \in {Simple("pragma"), UndefOf("MOVQ"), Simple("endif")}}

Readable(tokens) == [lexes |-> TRUE, tokens |-> tokens]
As == {Readable(tokens) : tokens \in Nested \union UNION {[1..n -> Tokens] : n \in 0..MaxTokens}}
Bs == {[lexes |-> FALSE, tokens |-> <<>>]}
        \union {Readable(tokens) : tokens \in {
             <<P>>, <<DefineAs("MOVQ", "movq")>>, <<Ifdef("CALL")>>,
             <<IncludeOf("b")>>, <<IncludeOf("a"), Q>>}}

MCFileSystems == {[f \in {"a", "b"} |-> IF f = "a" THEN a ELSE b] : a \in As, b \in Bs}
=============================================================================
