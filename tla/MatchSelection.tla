--------------------------- MODULE MatchSelection ---------------------------
(***************************************************************************)
(* What Match promises its callers (pattern/matcher/matcher.go: "the best  *)
(* matches with minimal overlap"): raw matches are found one after the     *)
(* other, and then one set of them is returned, in one step, that is free  *)
(* of overlaps and leaves out nothing without a reason.                    *)
(***************************************************************************)
EXTENDS PatternMatch

CONSTANTS MaxRawMatches,    \* how many raw matches are found at most
          Unresolved        \* the value of result before there is one

VARIABLES raw, result

vars == <<raw, result>>

Disjoint(S) == \A m, n \in S : m # n => ~Overlap(raw[m], raw[n])

(* Every match left out gives way to a chosen one it does not outrank.     *)
Justified(S) ==
  \A m \in DOMAIN raw \ S :
    \E n \in S : Overlap(raw[m], raw[n]) /\ ~Outranks(raw[m], raw[n])

Init == raw = << >> /\ result = Unresolved

Find ==
  /\ result = Unresolved
  /\ Len(raw) < MaxRawMatches
  /\ Len(raw') = Len(raw) + 1
  /\ \A k \in DOMAIN raw : raw'[k] = raw[k]
  /\ UNCHANGED result

Select ==
  /\ result = Unresolved
  /\ result' \in {S \in SUBSET DOMAIN raw : Disjoint(S) /\ Justified(S)}
  /\ UNCHANGED raw

Next == Find \/ Select

Spec == Init /\ [][Next]_vars
=============================================================================
