---------------------------- MODULE MCFlatOutput ----------------------------
(* Streams of up to four instructions of two bytes, with or without a gap,   *)
(* any of them padding, and up to three disjoint matches in every order.     *)
EXTENDS FlatOutput

Addr(gap, k) == IF k > gap THEN 2 * k + 1 ELSE 2 * k
Streams ==
    UNION {{[k \in 1..n |-> [addr |-> Addr(gap, k), size |-> 2, noise |-> noise[k]]] :
              noise \in [1..n -> BOOLEAN], gap \in {2, 4}} : n \in 0..4}

(* A match of instructions a to b.                                           *)
MatchesOf(s) ==
    {[start |-> s[sp[1]].addr, end |-> s[sp[2]].addr + s[sp[2]].size] :
        sp \in {x \in (DOMAIN s) \X (DOMAIN s) : x[1] <= x[2]}}
MatchLists(s) == UNION {{ms \in [1..n -> MatchesOf(s)] : Disjoint(ms)} : n \in 0..3}

MCLayouts == UNION {{[stream |-> s, matches |-> ms] : ms \in MatchLists(s)} : s \in Streams}
=============================================================================
