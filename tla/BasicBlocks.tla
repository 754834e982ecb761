---------------------------- MODULE BasicBlocks ----------------------------
(***************************************************************************)
(* BuildControlFlowGraph of disasm/cfg.go: it cuts an instruction stream   *)
(* into basic blocks and links them. It is a function of its arguments     *)
(* (the maps it ranges over are sorted or only looked up), so it is an     *)
(* operator here.                                                          *)
(*                                                                         *)
(* An instruction is a record                                              *)
(*   addr, size : where it lies                                            *)
(*   op         : "JCC", "JMP", "CALL", "RET" or "other"                   *)
(*   target     : its BranchTarget, 0 if it has none                       *)
(***************************************************************************)
EXTENDS Ascending

Operations == {"JCC", "JMP", "CALL", "RET", "other"}

After(inst) == inst.addr + inst.size

(* What a linear sweep decodes: instructions one behind the other, never   *)
(* across each other, though bytes may be left out between them.           *)
IsStream(insts) ==
  /\ insts \in Seq([addr : Nat \ {0}, size : Nat \ {0}, op : Operations, target : Nat])
  /\ insts # << >>
  /\ \A j, k \in DOMAIN insts : j < k => After(insts[j]) <= insts[k].addr

Addresses(insts) == {insts[k].addr : k \in DOMAIN insts}

Targets(insts) ==
  {insts[k].target : k \in {j \in DOMAIN insts : insts[j].op # "other"}} \ {0}

(* addrToIndex: a map from addresses to positions, the last one where an   *)
(* address occurs twice, and the first instruction where it does not occur.*)
IndexOf(insts, addr) ==
  Max({1} \cup {k \in DOMAIN insts : insts[k].addr = addr})

LeadersBehindOnly(insts, entry) ==                              \* a wrong Leaders
  {insts[1].addr, entry}
    \cup ({After(insts[k]) : k \in {j \in DOMAIN insts :
                                      insts[j].op \in {"RET", "JMP", "CALL"}}}
            \cap Addresses(insts))

(* Conditional jumps end no block: only what they jump to begins one.      *)
Leaders(insts, entry) ==
  {insts[1].addr, entry}
    \cup (Targets(insts) \cap Addresses(insts))
    \cup ({After(insts[k]) : k \in {j \in DOMAIN insts :
                                      insts[j].op \in {"RET", "JMP", "CALL"}}}
            \cap Addresses(insts))

SortedLeaders(insts, entry) ==
  InOrder(Leaders(insts, entry))

(* The instructions of a block are those at first .. last. A leader that   *)
(* is no instruction's address, which only the entry point can be, starts  *)
(* at the first instruction and ends nothing before it.                    *)
Cut(insts, leaders, i) ==
  [addr  |-> leaders[i],
   first |-> IndexOf(insts, leaders[i]),
   last  |-> IF i < Len(leaders) /\ leaders[i + 1] \in Addresses(insts)
             THEN IndexOf(insts, leaders[i + 1]) - 1
             ELSE Len(insts)]

BlocksOf(insts, entry) ==
  IF insts = << >> THEN << >>
  ELSE LET leaders == SortedLeaders(insts, entry)
       IN  [i \in DOMAIN leaders |-> Cut(insts, leaders, i)]

(* A block without instructions: the code indexes its last one and panics. *)
Panics(insts, entry) ==
  \E i \in DOMAIN BlocksOf(insts, entry) :
    BlocksOf(insts, entry)[i].last < BlocksOf(insts, entry)[i].first

EndAddr(insts, block) == After(insts[block.last])

BlockAt(blocks, addr) ==
  CHOOSE i \in DOMAIN blocks : blocks[i].addr = addr

IsBlock(blocks, addr) == \E i \in DOMAIN blocks : blocks[i].addr = addr

(* The successors in the order of addEdge: what the instructions jump to   *)
(* or call, as often as they do, and then the next block, unless the last  *)
(* instruction returns or jumps away.                                      *)
Successors(insts, blocks, i) ==
  LET last  == insts[blocks[i].last]
      taken == InOrder({k \in blocks[i].first .. blocks[i].last :
                          /\ insts[k].op # "other" /\ insts[k].target # 0
                          /\ IsBlock(blocks, insts[k].target)})
      next  == IF last.op \in {"RET", "JMP"} \/ ~IsBlock(blocks, After(last))
               THEN << >> ELSE <<BlockAt(blocks, After(last))>>
  IN  [k \in DOMAIN taken |-> BlockAt(blocks, insts[taken[k]].target)] \o next
=============================================================================
