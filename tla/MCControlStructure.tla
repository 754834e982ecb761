------------------------- MODULE MCControlStructure -------------------------
(* ControlStructure over graphs with the shape of code: a block goes on to *)
(* the next one, or returns, or jumps first to some block and goes on      *)
(* otherwise; the last one returns or jumps back.                          *)
EXTENDS ControlStructure

CONSTANT N              \* bound: the number of blocks

Exits(b) ==
  IF b = N THEN {<< >>} \cup {<<t>> : t \in 1 .. N - 1}
  ELSE {<< >>, <<b + 1>>} \cup {<<t, b + 1>> : t \in (1 .. N) \ {b + 1}}

MCGraphs ==
  LET upTo[b \in 0 .. N] == IF b = 0 THEN {<< >>}
                            ELSE {Append(g, exit) : g \in upTo[b - 1], exit \in Exits(b)}
  IN  upTo[N]

(* Six blocks are the fewest with which the slips of the second half of    *)
(* computeDominators show in a dominator that is none.                     *)
SixBlocks ==
  { << <<3, 2>>, <<5>>, <<2, 4>>, <<6, 5>>, <<4, 6>>, <<4>> >>,
    << <<5, 2>>, <<1, 3>>, <<6, 4>>, <<3, 5>>, <<2, 6>>, <<4>> >> }

CodeGraphs == MCGraphs \cup SixBlocks

OneEnding == {[cond |-> FALSE, last |-> "other"]}
=============================================================================
