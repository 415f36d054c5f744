----------------------------- MODULE Dominators ---------------------------
(***************************************************************************)
(* ir_build_dominators_tree and the two algorithms it falls back to.       *)
(*                                                                         *)
(* One step is the treatment of one block by one of the loops.  The single *)
(* pass relies on the block order; ir_build_dominators_tree_slow orders    *)
(* the blocks itself but starts from the immediate dominators the single   *)
(* pass has found so far; ir_build_dominators_tree_iterative iterates over *)
(* the existing order.                                                     *)
(*                                                                         *)
(* The graph is as ir_build_cfg leaves it.  Blocks are numbered 1 .. n by  *)
(* the position of their first instruction; block 1 is START.  preds[b]    *)
(* lists the predecessors in the order of the operands of BEGIN, MERGE or  *)
(* LOOP_BEGIN.  The successors of a block are listed by block number,      *)
(* because ir_build_cfg appends them while it visits the blocks in order.  *)
(***************************************************************************)
EXTENDS Integers, Sequences, FiniteSets, SequencesExt

SuccSet(preds, b) == {s \in DOMAIN preds : b \in ToSet(preds[s])}

Succs(preds, b) == SetToSortSeq(SuccSet(preds, b), <)

(* ctx->cfg_edges: the successors and then the predecessors of each block  *)
Edges(preds) == FlattenSeq([b \in DOMAIN preds |-> Succs(preds, b) \o preds[b]])

(* bb->predecessors, counted from 1 *)
PredsAt(preds, b) ==
  1 + Len(Succs(preds, b))
    + Len(FlattenSeq([c \in 1 .. b - 1 |-> Succs(preds, c) \o preds[c]]))

(* The entry of cfg_edges behind the predecessors of block b. *)
Behind(preds, b) == Edges(preds)[PredsAt(preds, b) + Len(preds[b])]

---------------------------------------------------------------------------
(* Reference definitions *)

(* The blocks a path from one of "from" reaches inside "within". *)
ReachIn(preds, from, within) ==
  LET reach[k \in 0 .. Len(preds)] ==
        IF k = 0 THEN from \cap within
        ELSE LET r == reach[k - 1]
             IN r \cup {s \in within : ToSet(preds[s]) \cap r # {}}
  IN reach[Len(preds)]

(* Every path from START to b passes d. *)
Dominates(preds, d, b) ==
  d = b \/ b \notin ReachIn(preds, {1}, DOMAIN preds \ {d})

(* The strict dominator of b that all others dominate. *)
ImmediateDominator(preds, b) ==
  LET strict == {d \in DOMAIN preds \ {b} : Dominates(preds, d, b)}
  IN CHOOSE d \in strict : \A e \in strict : Dominates(preds, e, d)

StrictDominators(preds, b) == {d \in DOMAIN preds \ {b} : Dominates(preds, d, b)}

(* b lies on a cycle. *)
OnCycle(preds, b) == b \in ReachIn(preds, SuccSet(preds, b), DOMAIN preds)

---------------------------------------------------------------------------
(* Depth-first search with a worklist that marks a block when it is        *)
(* pushed: the blocks in the order in which they are entered and left.     *)
Dfs(preds) ==
  LET Blocks == DOMAIN preds
      run[r \in [stack : Seq(Blocks), entered : Seq(Blocks), left : Seq(Blocks)]] ==
        IF r.stack = << >> THEN r
        ELSE LET into == SelectSeq(Succs(preds, Last(r.stack)),
                                   LAMBDA s : s \notin ToSet(r.entered))
             IN IF into = << >>
                  THEN run[[r EXCEPT !.stack = Front(@), !.left = Append(@, Last(r.stack))]]
                  ELSE run[[r EXCEPT !.stack = Append(@, into[1]),
                                     !.entered = Append(@, into[1])]]
  IN run[[stack |-> <<1>>, entered |-> <<1>>, left |-> << >>]]

---------------------------------------------------------------------------
(* The graphs of n blocks that instructions can form, by the successors of *)
(* each block.  A block ends with a terminator, with END or LOOP_END and   *)
(* one successor, or with IF and two successors which have no other        *)
(* predecessor.  An ENTRY block has one predecessor, and that does not end *)
(* with IF.  InOrder(out, T) says which targets T the next block may have. *)
Shapes(n, entry, InOrder(_, _)) ==
  LET Outs == {T \in SUBSET (2 .. n) :
                 Cardinality(T \ entry) <= 2 /\ Cardinality(T \cap entry) <= 1
                 /\ (Cardinality(T \ entry) = 2 => T \cap entry = {})}
      Single(T) == IF Cardinality(T \ entry) = 2 THEN T ELSE T \cap entry
      Fits(out, T) ==
        \A i \in DOMAIN out : Single(T) \cap out[i] = {} /\ T \cap Single(out[i]) = {}
      shapes[k \in 0 .. n] ==
        IF k = 0 THEN {<< >>}
        ELSE UNION {{Append(out, T) : T \in {T \in Outs : InOrder(out, T) /\ Fits(out, T)}}
                      : out \in shapes[k - 1]}
      Reached(out) ==
        LET reach[k \in 0 .. n] ==
              IF k = 0 THEN {1}
              ELSE LET r == reach[k - 1] IN r \cup UNION {out[b] : b \in r}
        IN reach[n] = 1 .. n
  IN {out \in shapes[n] : Reached(out)}

AnyOrder(out, T) == TRUE

(* Blocks numbered breadth-first: one graph for each shape. *)
BreadthFirst(out, T) ==
  LET seen == {1} \cup UNION ToSet(out)
  IN Len(out) < Cardinality(seen) /\ T \cup seen = 1 .. Cardinality(T \cup seen)

PredSets(out) == [b \in DOMAIN out |-> {c \in DOMAIN out : b \in out[c]}]

(* The graphs for which the single pass gives up as it is meant to: at the *)
(* first block that precedes all its predecessors, the edge behind them    *)
(* does not pass for one that precedes the block.                          *)
ScanGivesUp(preds) ==
  LET late == {b \in 2 .. Len(preds) : \A p \in ToSet(preds[b]) : p >= b}
  IN late # {} => Len(preds[Min(late)]) = 1 \/ Behind(preds, Min(late)) >= Min(late)

---------------------------------------------------------------------------
CONSTANT Graphs     \* the graphs to explore: [preds, entry]

VARIABLES
  preds,        \* the graph
  entry,        \* the blocks with IR_BB_ENTRY
  at,           \* the loop that runs: fast, check, iterate, slow, done, assert
  b,            \* the block, or the index into rpo[], it has come to
  idom,         \* 0 where not known
  dom_depth,
  back,         \* worklist of the sources of back-edges
  no_loops,     \* IR_NO_LOOPS
  changed,
  rpo           \* the blocks in post-order, for the slow algorithm

vars == <<preds, entry, at, b, idom, dom_depth, back, no_loops, changed, rpo>>

N == Len(preds)

Init ==
  /\ \E g \in Graphs : preds = g.preds /\ entry = g.entry
  /\ at = "fast"
  /\ b = 2
  /\ idom = [i \in 1 .. N |-> IF i = 1 THEN 1 ELSE 0]
  /\ dom_depth = [i \in 1 .. N |-> 0]
  /\ back = {}
  /\ no_loops = TRUE
  /\ changed = FALSE
  /\ rpo = << >>

(* The nearest common ancestor of x and y: climb from the block of the     *)
(* higher rank.                                                            *)
Intersect(x, y, rank) ==
  LET meet[p \in (1 .. N) \X (1 .. N)] ==
        IF p[1] = p[2] THEN p[1]
        ELSE IF rank[p[1]] < rank[p[2]] THEN meet[<<p[1], idom[p[2]]>>]
        ELSE meet[<<idom[p[1]], p[2]>>]
  IN meet[<<x, y>>]

IntersectAll(s, rank) ==
  FoldLeft(LAMBDA x, y : Intersect(x, y, rank), Head(s), Tail(s))

(* In the slow algorithm the rank falls with postnum. *)
ByNumber  == [c \in 1 .. N |-> c]
ByPostnum == [c \in 1 .. N |-> N - SelectInSeq(rpo, LAMBDA d : d = c)]

---------------------------------------------------------------------------
(* The single pass *)

Forward == SelectSeq(preds[b], LAMBDA p : p < b)

(* All predecessors come later in the block order.  The scan of several    *)
(* predecessors looks at the entry behind them before it gives up.         *)
FastNoForward ==
  /\ at = "fast" /\ b <= N
  /\ Forward = << >>
  /\ no_loops' = FALSE
  /\ IF Len(preds[b]) > 1 /\ Behind(preds, b) < b
       THEN at' = "assert" /\ UNCHANGED <<b, rpo>>
       ELSE at' = "slow" /\ rpo' = Dfs(preds).left /\ b' = N - 1
  /\ UNCHANGED <<preds, entry, idom, dom_depth, back, changed>>

Fast ==
  LET backs == {p \in ToSet(preds[b]) : p >= b}
  IN /\ at = "fast" /\ b <= N
     /\ Forward # << >>
     /\ LET d == IntersectAll(Forward, ByNumber)
        IN /\ idom' = [idom EXCEPT ![b] = d]
           /\ dom_depth' = [dom_depth EXCEPT ![b] = dom_depth[d] + 1]
     /\ back' = back \cup backs
     /\ no_loops' = (no_loops /\ backs = {})
     /\ b' = b + 1
     /\ UNCHANGED <<preds, entry, at, changed, rpo>>

FastEnd ==
  /\ at = "fast" /\ b = N + 1
  /\ at' = IF back = {} THEN "done" ELSE "check"
  /\ idom' = [idom EXCEPT ![1] = 0]
  /\ UNCHANGED <<preds, entry, b, dom_depth, back, no_loops, changed, rpo>>

---------------------------------------------------------------------------
(* "Check if all the back-edges lead to the loop headers" *)

(* The target of the back-edge from block w, 0 if w may have several: "END *)
(* may be linked with the following ENTRY by a fake edge".                 *)
BackTarget(w) ==
  LET s == Succs(preds, w)
  IN IF Len(s) = 1 THEN s[1]
     ELSE IF Len(s) # 2 THEN 0
     ELSE IF s[1] \in entry THEN s[2]
     ELSE IF s[2] \in entry THEN s[1]
     ELSE 0

(* The ancestor of w (or w itself) at most as deep as depth. *)
AncestorAt(w, depth) ==
  LET climb[c \in 1 .. N] == IF dom_depth[c] > depth THEN climb[idom[c]] ELSE c
  IN climb[w]

(* Mutant: a back-edge is taken for a loop's when its target is less deep. *)
LeadsToHeader_shallow(w) ==
  LET t == BackTarget(w)
  IN t # 0 /\ dom_depth[t] <= dom_depth[w]

LeadsToHeader(w) ==
  LET t == BackTarget(w)
  IN t # 0 /\ AncestorAt(w, dom_depth[t]) = t

Check ==
  /\ at = "check"
  /\ IF \A w \in back : LeadsToHeader(w)
       THEN at' = "done" /\ UNCHANGED <<b, idom, dom_depth, changed>>
       ELSE /\ at' = "iterate"
            /\ b' = 2
            /\ dom_depth' = [i \in 1 .. N |-> 0]
            /\ idom' = [idom EXCEPT ![1] = 1]
            /\ changed' = FALSE
  /\ back' = {}
  /\ UNCHANGED <<preds, entry, no_loops, rpo>>

---------------------------------------------------------------------------
(* ir_build_dominators_tree_iterative *)

Known(c) == SelectSeq(preds[c], LAMBDA p : idom[p] > 0)

Iterate ==
  LET known == Known(b)
      d     == IF known = << >> THEN idom[b] ELSE IntersectAll(known, ByNumber)
  IN /\ at = "iterate" /\ b <= N
     /\ idom' = [idom EXCEPT ![b] = d]
     /\ changed' = (changed \/ d # idom[b])
     /\ b' = b + 1
     /\ UNCHANGED <<preds, entry, at, dom_depth, back, no_loops, rpo>>

(* Mutant: the flag is not cleared for the next round. *)
IterateAgain_dirty ==
  /\ at = "iterate" /\ b = N + 1 /\ changed
  /\ b' = 2
  /\ UNCHANGED <<preds, entry, at, idom, dom_depth, back, no_loops, changed, rpo>>

IterateAgain ==
  /\ at = "iterate" /\ b = N + 1 /\ changed
  /\ b' = 2
  /\ changed' = FALSE
  /\ UNCHANGED <<preds, entry, at, idom, dom_depth, back, no_loops, rpo>>

(* The fixed point is reached; the depths follow in block order. *)
IterateEnd ==
  LET tree == [idom EXCEPT ![1] = 0]
      depth[c \in 1 .. N] == IF c = 1 THEN 0 ELSE depth[tree[c]] + 1
  IN /\ at = "iterate" /\ b = N + 1 /\ ~changed
     /\ idom' = tree
     /\ dom_depth' = depth
     /\ at' = "done"
     /\ UNCHANGED <<preds, entry, b, back, no_loops, changed, rpo>>

---------------------------------------------------------------------------
(* ir_build_dominators_tree_slow: b counts down the reverse post-order *)

Slow ==
  LET c     == rpo[b]
      known == Known(c)
      d     == IF known = << >> THEN idom[c] ELSE IntersectAll(known, ByPostnum)
  IN /\ at = "slow" /\ b > 0
     /\ idom' = [idom EXCEPT ![c] = d]
     /\ changed' = (changed \/ d # idom[c])
     /\ b' = b - 1
     /\ UNCHANGED <<preds, entry, at, dom_depth, back, no_loops, rpo>>

SlowAgain ==
  /\ at = "slow" /\ b = 0 /\ changed
  /\ b' = N - 1
  /\ changed' = FALSE
  /\ UNCHANGED <<preds, entry, at, idom, dom_depth, back, no_loops, rpo>>

(* "Recalculate dom_depth for all blocks" *)
SlowEnd ==
  LET tree == [idom EXCEPT ![1] = 0]
      depth[c \in 1 .. N] == IF tree[c] = 0 THEN 0 ELSE depth[tree[c]] + 1
  IN /\ at = "slow" /\ b = 0 /\ ~changed
     /\ idom' = tree
     /\ dom_depth' = depth
     /\ at' = "done"
     /\ UNCHANGED <<preds, entry, b, back, no_loops, changed, rpo>>

Next ==
  \/ FastNoForward \/ Fast \/ FastEnd \/ Check
  \/ Iterate \/ IterateAgain \/ IterateEnd
  \/ Slow \/ SlowAgain \/ SlowEnd

Spec == Init /\ [][Next]_vars

---------------------------------------------------------------------------
(* The shapes of the tree under construction.  The passes that climb by    *)
(* block number keep every block above its immediate dominator.            *)
TypeOK ==
  /\ at \in {"fast", "check", "iterate", "slow", "done", "assert"}
  /\ b \in 0 .. N + 1
  /\ idom \in [1 .. N -> 0 .. N]
  /\ at \in {"fast", "check", "iterate"} => \A c \in 2 .. N : idom[c] < c
  /\ dom_depth \in [1 .. N -> 0 .. N - 1]
  /\ back \subseteq 1 .. N
  /\ no_loops \in BOOLEAN /\ changed \in BOOLEAN
  /\ rpo = << >> \/ (Len(rpo) = N /\ ToSet(rpo) = 1 .. N)

(* However ir_build_dominators_tree comes to its end - the single pass,    *)
(* the iteration in block order, whose comment says "this algorithm may be *)
(* incorrect", or the slow algorithm seeded by an aborted single pass -    *)
(* the tree is the dominator tree and dom_depth the depth in it.           *)
TreeIsDominatorTree ==
  at = "done" =>
    /\ idom[1] = 0 /\ dom_depth[1] = 0
    /\ \A c \in 2 .. N : /\ idom[c] = ImmediateDominator(preds, c)
                         /\ dom_depth[c] = Cardinality(StrictDominators(preds, c))

(* IR_ASSERT(k != 0) behind the scan for a predecessor that precedes its   *)
(* block: the scan stops at such a predecessor, or gives up.               *)
AssertKNotZero == at # "assert"
===========================================================================
