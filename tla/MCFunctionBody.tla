--------------------------- MODULE MCFunctionBody ---------------------------
(* FunctionBody over all short functions: instructions of one byte each,   *)
(* at the addresses from 1, that branch within the function or just behind *)
(* it. In some functions the linear sweep lost the entry point, and the    *)
(* first instruction lies one byte behind it.                              *)
EXTENDS FunctionBody

CONSTANT N              \* bound: the number of instructions

Ops ==
  [op : {"other", "RET", "CALL"}, target : {0}]
    \cup [op : {"JCC", "JMP"}, target : 1 .. N]

Streams ==
  LET At(ops) == [k \in 1 .. N |-> [addr |-> k, size |-> 1,
                                    op |-> ops[k].op, target |-> ops[k].target]]
  IN  {At(ops) : ops \in [1 .. N -> Ops]}

Synced == {[insts |-> s, entry |-> 1, end |-> N + 1] : s \in Streams}

Lost ==
  {[insts |-> s, entry |-> 0, end |-> N + 1] :
     s \in {t \in Streams : t[1].op = "other" /\ t[2].op # "JCC"}}

MCFunctions == Synced \cup Lost

M(s, e) == [start |-> s, end |-> e]

MCLayouts ==
  {{},
   {M(k, k + 1) : k \in 1 .. N},
   {M(1, 3), M(3, 4), M(4, 6)},
   {M(2, 4), M(4, 5)}}
=============================================================================
