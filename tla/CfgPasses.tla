------------------------------ MODULE CfgPasses ---------------------------
(***************************************************************************)
(* The passes that work on the control-flow graph, one after the other.    *)
(* Behind the dominator tree a program either has its variables converted  *)
(* (ir_mem2ssa), or goes on to the loops, code motion, scheduling and the  *)
(* order of its blocks, as ir_jit_compile and the compilers in the         *)
(* repository call them.  A graph may also come without instructions.      *)
(***************************************************************************)
EXTENDS BlockLayout, Mem2ssa

tree == vars
cfgVars == <<tree, nest, gcm, layout, m2s>>

CfgInit ==
  /\ Init /\ LoopsInit
  /\ \/ GcmInit /\ Mem2ssaNone
     \/ GcmNone /\ Mem2ssaInit
  /\ LayoutInit

Ended ==
  \/ phase = "converted"
  \/ stage = "found" /\ ir = NoCode
  \/ pass = "laid_out"

Done == Ended /\ UNCHANGED cfgVars

CfgNext ==
  \/ Next /\ UNCHANGED <<nest, gcm, layout, m2s>>
  \/ Mem2ssaNext /\ UNCHANGED <<tree, nest, gcm, layout>>
  \/ mem = NoMemory /\ LoopsNext /\ UNCHANGED <<tree, gcm, layout, m2s>>
  \/ (GcmNext \/ ScheduleNext) /\ UNCHANGED <<tree, nest, layout, m2s>>
  \/ BlocksNext /\ UNCHANGED <<tree, nest, motion, sched, m2s>>
  \/ Done

(* The code is sequential: the passes go on until they have ended.  Every  *)
(* other state has a next one (there is no deadlock), so that this is weak *)
(* fairness of CfgNext.                                                    *)
CfgSpec == CfgInit /\ [][CfgNext]_cfgVars /\ ([]<><<TRUE>>_cfgVars \/ <>[]Ended)

---------------------------------------------------------------------------
(* The properties of the tree and of the loops where the next pass begins: *)
(* none of them changes the tree or the loops.                             *)

(* However ir_build_dominators_tree comes to its end, the tree is the      *)
(* dominator tree and dom_depth the depth in it.                           *)
TreeRight == stage = "wait" /\ phase = "wait" => TreeIsDominatorTree

(* In every graph the members of a loop and its header reach one another,  *)
(* a block on a cycle is in a loop, and the depth counts the loops around  *)
(* a block, except around irreducible loops inside other loops.  In a      *)
(* reducible graph the loops are the natural loops, and the blocks marked  *)
(* irreducible are those through which control enters a loop with several  *)
(* entries.                                                                *)
LoopsRight ==
  pass = "wait" => LoopsCoverCycles /\ ReducibleLoopsAreNatural /\ IrreducibleAreEntries

(* Every pass comes to its end, and no assertion stops it: the fixed       *)
(* points of the dominator tree, the worklists of the loops and of the     *)
(* variables, and the traces of blocks.  It is claimed of the graphs with  *)
(* ScanGivesUp, since the others run into IR_ASSERT(k != 0) (see           *)
(* AssertKNotZero), and of blocks marked empty that form no loop           *)
(* (Acyclic): _ir_skip_empty_blocks does not return from such a loop.      *)
Terminates == <>Ended
===========================================================================
