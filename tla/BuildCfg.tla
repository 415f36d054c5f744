------------------------------ MODULE BuildCfg ----------------------------
(***************************************************************************)
(* The control flow graph of a sea-of-nodes graph (ir_cfg.c): ir_build_cfg *)
(* with the removal of inputs that no block has and of blocks that cannot  *)
(* be reached.                                                             *)
(***************************************************************************)
EXTENDS IterOpt

CONSTANT Unoptimized   \* graphs that neither SCCP nor the iterative optimisations have seen

VARIABLES blocks,         \* ctx->cfg_blocks: first and last instruction of each block
          succs, preds,   \* ctx->cfg_edges, by block
          flags           \* the blocks with IR_BB_UNREACHABLE

cfg == <<blocks, succs, preds, flags>>
cfgVars == <<iterVars, cfg>>

BBEnd == Terminator \cup {"END", "LOOP_END", "IF", "SWITCH"}

(* ir_next_control, until the end of the block *)
BlockEnd(h, start) ==
  LET follow[n \in 0 .. Cardinality(Refs(h))] ==
        IF n = 0 THEN start
        ELSE LET r == follow[n - 1] IN IF h.op[r] \in BBEnd THEN r ELSE NextControl(h, r)
  IN follow[Cardinality(Refs(h))]

BlockStart(h, end) ==
  LET follow[n \in 0 .. Cardinality(Refs(h))] ==
        IF n = 0 THEN h.in[end][1]
        ELSE LET r == follow[n - 1] IN IF h.op[r] \in BBStart THEN r ELSE h.in[r][1]
  IN follow[Cardinality(Refs(h))]

(* _ir_add_predecessors: the instructions before the start of a block *)
Inputs(h, start) ==
  CASE h.op[start] = "START" -> {}
    [] h.op[start] \in Merge -> ToSet(h.in[start])
    [] OTHER -> {h.in[start][1]} \ {0}

(* What a search that starts from S and goes from x to to[x] visits *)
Closure(to, S) ==
  LET search[n \in 0 .. Cardinality(Refs(g))] ==
        IF n = 0 THEN [visited |-> S, list |-> S]
        ELSE LET w == search[n - 1]
                 new == UNION {to[x] : x \in w.list} \ w.visited
             IN [visited |-> w.visited \cup new, list |-> new]
  IN search[Cardinality(Refs(g))].visited

(* Mutant: the forward search starts from START only. *)
FoundStarts_entry(h) ==
  LET ends == Closure([e \in Refs(h) |-> Inputs(h, BlockStart(h, e))], ToSet(h.terms))
      back == {BlockStart(h, e) : e \in ends}
  IN back \cup Closure([s \in Refs(h) |-> ToSet(h.use[BlockEnd(h, s)]) \ back], {1} \ back)

(* What a backward search from the terminators meets, and then, because an *)
(* endless loop has none, a forward search from START and from the         *)
(* branches the first one left open.                                       *)
FoundStarts(h) ==
  LET ends == Closure([e \in Refs(h) |-> Inputs(h, BlockStart(h, e))], ToSet(h.terms))
      back == {BlockStart(h, e) : e \in ends}
      split == {e \in ends : Len(h.use[e]) > 1 \/ h.op[e] \in Terminator}
      leaks == {1} \cup UNION {ToSet(h.use[e]) : e \in split}
  IN back \cup Closure([s \in Refs(h) |-> ToSet(h.use[BlockEnd(h, s)]) \ back], leaks \ back)

FindBlocks ==
  /\ pc = "finished"
  /\ blocks' = LET starts == SelectSeq([r \in Refs(g) |-> r], LAMBDA r : r \in FoundStarts(g))
                IN [b \in DOMAIN starts |-> [start |-> starts[b], end |-> BlockEnd(g, starts[b])]]
  /\ flags' = IF cfg_reachable THEN {} ELSE 2 .. Cardinality(FoundStarts(g))
  /\ pc' = "blocks"
  /\ UNCHANGED <<source, g, values, work, iter, mem2ssa, i, cfg_reachable, succs, preds>>

---------------------------------------------------------------------------
(* The block of the end of a block; 0 for none *)
CfgMap(bs, e) ==
  IF \E b \in DOMAIN bs : bs[b].end = e THEN CHOOSE b \in DOMAIN bs : bs[b].end = e ELSE 0

PredsOf(h, bs, b) ==
  LET s == bs[b].start
  IN CASE h.op[s] = "START" \/ h.in[s] = <<0>> -> << >>
       [] h.op[s] \in Merge -> [k \in DOMAIN h.in[s] |-> CfgMap(bs, h.in[s][k])]
       [] OTHER -> <<CfgMap(bs, h.in[s][1])>>

(* The successors of a block, in the order in which the blocks that follow *)
(* it enter themselves                                                     *)
SuccsOf(pr, p) ==
  FlattenSeq([b \in DOMAIN pr |-> [k \in 1 .. Cardinality({j \in DOMAIN pr[b] : pr[b][j] = p}) |-> b]])

Edges(h, bs) ==
  LET pr == [b \in DOMAIN bs |-> PredsOf(h, bs, b)]
  IN [pred |-> pr, succ |-> [b \in DOMAIN bs |-> SuccsOf(pr, b)]]

(* ir_remove_phis_inputs *)
RemovePhisInputs(h, m, life) ==
  FoldLeft(LAMBDA q, u : IF h.op[u] = "PHI" THEN Compress(q, u, life) ELSE q, h, h.use[m])

(* The merge m keeps the inputs in "life". *)
KeepInputs(h, m, life) ==
  LET ins == SelectSeq([k \in DOMAIN h.in[m] |-> IF k \in life THEN h.in[m][k] ELSE 0], LAMBDA x : x # 0)
      h1 == [h EXCEPT !.in[m] = ins, !.op[m] = IF Len(ins) = 1 THEN "BEGIN" ELSE @]
      gone == {h.in[m][k] : k \in DOMAIN h.in[m] \ life}
  IN [RemovePhisInputs(h1, m, life) EXCEPT
        !.use = [r \in DOMAIN @ |-> IF r \in gone THEN << >> ELSE @[r]]]

(* ir_cfg_remove_dead_inputs *)
RemoveDeadInputs(h, bs) ==
  FoldLeft(LAMBDA q, b :
             LET m == b.start
                 life == {k \in DOMAIN q.in[m] : CfgMap(bs, q.in[m][k]) # 0}
             IN IF q.op[m] \notin Merge \/ life = DOMAIN q.in[m] THEN q ELSE KeepInputs(q, m, life),
           h, bs)

(* The edges are counted from both of their ends. *)
LinkCfg ==
  LET out == FoldLeft(LAMBDA n, b : n + Len(g.use[b.end]), 0, blocks)
      in == FoldLeft(LAMBDA n, b : n + Len(PredsOf(g, blocks, b)), 0, [b \in DOMAIN blocks |-> b])
      h == IF out = in THEN g ELSE RemoveDeadInputs(g, blocks)
  IN /\ pc = "blocks"
     /\ g' = h
     /\ preds' = Edges(h, blocks).pred /\ succs' = Edges(h, blocks).succ
     /\ pc' = IF cfg_reachable THEN "built" ELSE "mark"
     /\ UNCHANGED <<source, values, work, iter, mem2ssa, i, cfg_reachable, blocks, flags>>

---------------------------------------------------------------------------
MarkReachable ==
  LET reach == Closure([b \in DOMAIN blocks |-> ToSet(succs[b])], {1})
  IN /\ pc = "mark"
     /\ flags' = DOMAIN blocks \ reach
     /\ pc' = IF reach = DOMAIN blocks THEN "built" ELSE "remove"
     /\ UNCHANGED <<source, g, values, work, iter, mem2ssa, i, cfg_reachable, blocks, succs, preds>>

(* What a block that is not reachable leaves: an input of the merges it    *)
(* went to, or a terminator                                                *)
Detached(h, b) ==
  IF succs[b] = << >> THEN [h EXCEPT !.terms = Without(@, blocks[b].end)]
  ELSE FoldLeft(LAMBDA q, s :
                  LET m == blocks[s].start
                  IN IF s \in flags THEN q
                     ELSE KeepInputs(q, m, {k \in DOMAIN q.in[m] : q.in[m][k] # blocks[b].end}),
                h, succs[b])

(* ir_remove_unreachable_blocks *)
RemoveUnreachable ==
  LET h == FoldLeft(LAMBDA q, b : IF b \in flags THEN Detached(q, b) ELSE q,
                    g, [b \in DOMAIN blocks |-> b])
      bs == FoldLeft(LAMBDA s, b : IF b \in flags THEN s ELSE Append(s, blocks[b]),
                     << >>, [b \in DOMAIN blocks |-> b])
  IN /\ pc = "remove"
     /\ g' = h /\ blocks' = bs
     /\ preds' = Edges(h, bs).pred /\ succs' = Edges(h, bs).succ
     /\ flags' = {} /\ pc' = "built"
     /\ UNCHANGED <<source, values, work, iter, mem2ssa, i, cfg_reachable>>

---------------------------------------------------------------------------
(* At -O2 the graph comes from SCCP and the iterative optimisations; below *)
(* that it is the one the frontend made.                                   *)
Init ==
  /\ blocks = << >> /\ succs = << >> /\ preds = << >> /\ flags = {}
  /\ cfg_reachable = FALSE
  /\ \/ SccpInit
     \/ /\ source \in Unoptimized
        /\ g = source /\ values = [r \in Refs(source) |-> Top] /\ work = {} /\ iter = {} /\ mem2ssa = FALSE
        /\ pc = "finished" /\ i = 1

Built == pc = "built" /\ UNCHANGED cfgVars

Next ==
  \/ SccpNext /\ UNCHANGED <<cfg_reachable, cfg>>
  \/ IterNext /\ UNCHANGED cfg
  \/ FindBlocks \/ LinkCfg \/ MarkReachable \/ RemoveUnreachable \/ Built

Spec == Init /\ [][Next]_cfgVars

(* The passes keep running until the last is done: weak fairness of Next,  *)
(* written out for a next-state relation that is enabled in every state.   *)
FairSpec == Spec /\ ([]<>(pc = "built") \/ []<><<TRUE>>_cfgVars)

---------------------------------------------------------------------------
(* What ir_check asks of the graph that SCCP leaves, of the one the        *)
(* iterative optimisations leave and of the one the CFG is built for: no   *)
(* operand refers to a removed instruction, the use lists mirror the       *)
(* operands, and the list of terminators is that of the terminators that   *)
(* remain.  Only the start of a block that was cut off has no predecessor, *)
(* and IR_CFG_REACHABLE is set only if every block can be reached.         *)
GraphWellFormed ==
  pc \in {"done", "finished", "built"} =>
    LET live == {r \in Refs(g) : g.op[r] # "NOP"}
        reach == Closure([c \in Refs(g) |-> ControlUsers(g, c)], {1})
        returns == {r \in live : g.op[r] \in Terminator}
    IN /\ \A r \in live : \A x \in ToSet(g.in[r]) :
            IF x = 0 THEN pc # "done" /\ g.op[r] = "BEGIN" ELSE x > 0 => x \in live
       /\ \A r \in live : \A u \in ToSet(g.use[r]) : r \in ToSet(g.in[u])
       /\ \A u \in live : \A r \in ToSet(g.in[u]) \cap live :
            Cardinality({k \in DOMAIN g.use[r] : g.use[r][k] = u})
              = Cardinality({k \in DOMAIN g.in[u] : g.in[u][k] = r})
       /\ ToSet(g.terms) = IF pc = "built" THEN returns \cap reach ELSE returns
       /\ cfg_reachable => \A r \in live : g.op[r] \in BBStart => r \in reach

(* After SCCP and at the end the graph computes what the graph SCCP was    *)
(* given does, for every value of its parameters, loads and addresses.     *)
SameResult ==
  pc \in {"done", "built"} =>
    LET free == {r \in Refs(source) : source.op[r] \in {"PARAM", "LOAD", "ADDR"}}
        fuel == 2 * Cardinality(Refs(source))
    IN \A arg \in [free -> Val] :
         LET env == [r \in Refs(source) |-> IF r \in free THEN arg[r] ELSE 0]
             before == Execute(source, env, fuel)
         IN before # "running" => Execute(g, env, fuel) = before

(* The blocks are those that control can reach from START; the             *)
(* predecessors of a block are the inputs of its first instruction, in     *)
(* their order, and its successors the users of its last.                  *)
CfgMatchesGraph ==
  pc = "built" =>
    LET reach == Closure([c \in Refs(g) |-> ControlUsers(g, c)], {1})
    IN /\ {blocks[b].start : b \in DOMAIN blocks} = {r \in reach : g.op[r] \in BBStart}
       /\ \A b \in DOMAIN blocks :
            LET ins == IF g.op[blocks[b].start] \in Merge THEN g.in[blocks[b].start]
                       ELSE SubSeq(g.in[blocks[b].start], 1, IF b = 1 THEN 0 ELSE 1)
                outs == ControlUsers(g, blocks[b].end)
            IN /\ Len(preds[b]) = Len(ins)
               /\ \A k \in DOMAIN ins : preds[b][k] \in DOMAIN blocks /\ blocks[preds[b][k]].end = ins[k]
               /\ {blocks[s].start : s \in ToSet(succs[b])} = outs
               /\ Len(succs[b]) = Cardinality(outs)

(* SCCP reaches its fixed point, the worklist of the iterative             *)
(* optimisations runs empty, and the CFG is built.                         *)
Terminates == <>(pc = "built")
===========================================================================
