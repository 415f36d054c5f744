-------------------------------- MODULE Loops -----------------------------
(***************************************************************************)
(* ir_find_loops and ir_collect_irreducible_loops: loop headers, the       *)
(* innermost loop of each block, loop depths and the loops that contain an *)
(* ENTRY, from the control-flow graph and the dominator tree that          *)
(* ir_build_dominators_tree has left.                                      *)
(*                                                                         *)
(* One step treats one block: of the bottom-up scan of the dominator tree, *)
(* of a worklist that collects the members of a loop, or of the final      *)
(* top-down pass.                                                          *)
(***************************************************************************)
EXTENDS Dominators

VARIABLES
  stage,              \* wait, scan, collect, irreducible, members, depths, found
  order,              \* sorted_blocks and the times of the DFS
  n,                  \* index into sorted_blocks
  hdr, work, visited, \* the loop under collection
  irreducible_list, irreducible_depth,
  loop_header, loop_depth,
  header,             \* blocks with IR_BB_LOOP_HEADER
  irreducible,        \* blocks with IR_BB_IRREDUCIBLE_LOOP
  with_entry,         \* blocks with IR_BB_LOOP_WITH_ENTRY
  merge,              \* blocks that start with IR_MERGE
  has_loops           \* IR_CFG_HAS_LOOPS

loop  == <<hdr, work, visited>>
irr   == <<irreducible_list, irreducible_depth>>
flags == <<header, irreducible, merge, has_loops>>
nest  == <<stage, order, n, loop, irr, loop_header, loop_depth, flags, with_entry>>

---------------------------------------------------------------------------
(* The set-up of ir_find_loops *)

(* Breadth-first search of the dominator tree. *)
SortedBlocks ==
  LET Children(c) == SetToSortSeq({d \in 1 .. N : idom[d] = c}, <)
      level[k \in 0 .. N] ==
        IF k = 0 THEN <<1>>
        ELSE LET up == level[k - 1] IN FlattenSeq([i \in DOMAIN up |-> Children(up[i])])
  IN FlattenSeq([k \in 1 .. N |-> level[k - 1]])

Position(s) == [c \in ToSet(s) |-> SelectInSeq(s, LAMBDA d : d = c)]

LoopsInit ==
  /\ stage = "wait" /\ order = << >> /\ n = 0
  /\ hdr = 0 /\ work = << >> /\ visited = {}
  /\ irreducible_list = << >> /\ irreducible_depth = 0
  /\ loop_header = [c \in 1 .. N |-> 0] /\ loop_depth = [c \in 1 .. N |-> 0]
  /\ header = {} /\ irreducible = {} /\ with_entry = {} /\ has_loops = FALSE
  /\ merge = {c \in 1 .. N : Len(preds[c]) > 1}

(* ENTRY_TIME and EXIT_TIME are only compared among themselves. *)
FindLoops ==
  /\ stage = "wait" /\ at = "done"
  /\ IF no_loops THEN stage' = "found" /\ UNCHANGED <<order, n>>
     ELSE /\ stage' = "scan" /\ n' = N + 1
          /\ \E dfs \in {Dfs(preds)} :
               order' = [sorted |-> SortedBlocks, enter |-> Position(dfs.entered), exit |-> Position(dfs.left)]
  /\ UNCHANGED <<loop, irr, loop_header, loop_depth, flags, with_entry>>

(* ir_dominates *)
DominatesInTree(b1, b2) ==
  LET climb[c \in 1 .. N] ==
        IF dom_depth[c] > dom_depth[b1] THEN climb[idom[c]] ELSE c
  IN climb[b2] = b1

Descendant(p, m) == order.enter[p] >= order.enter[m] /\ order.exit[p] <= order.exit[m]

(* The outermost of the loops found so far around p. *)
Outermost(p, headers) ==
  LET climb[c \in 1 .. N] == IF headers[c] = 0 THEN c ELSE climb[headers[c]]
  IN climb[p]

(* ir_worklist_push in the order of s *)
PushAll(s) == SelectSeq(s, LAMBDA p : p \notin visited)

---------------------------------------------------------------------------
(* The bottom-up scan *)

B == order.sorted[n - 1]

Backs == SelectSeq(preds[B], LAMBDA p : Descendant(p, B))

ScanPlain ==
  /\ stage = "scan" /\ n > 1 /\ dom_depth[B] >= irreducible_depth
  /\ Len(preds[B]) <= 1 \/ Backs = << >>
  /\ n' = n - 1
  /\ UNCHANGED <<stage, order, loop, irr, loop_header, loop_depth, flags, with_entry>>

(* "In a loop back-edge, the successor dominates the predecessor" *)
ScanHeader ==
  /\ stage = "scan" /\ n > 1 /\ dom_depth[B] >= irreducible_depth
  /\ Len(preds[B]) > 1 /\ Backs # << >>
  /\ \A p \in ToSet(Backs) : DominatesInTree(B, p)
  /\ n' = n - 1 /\ stage' = "collect"
  /\ hdr' = B /\ work' = Backs /\ visited' = ToSet(Backs) \cup {B}
  /\ header' = header \cup {B} /\ merge' = merge \ {B} /\ has_loops' = TRUE
  /\ loop_depth' = [loop_depth EXCEPT ![B] = 1]
  /\ UNCHANGED <<order, irr, loop_header, irreducible, with_entry>>

(* "Delay processing of all irreducible loops after all reducible loops    *)
(* with the same dominator tree depth"                                     *)
ScanIrreducible ==
  /\ stage = "scan" /\ n > 1 /\ dom_depth[B] >= irreducible_depth
  /\ Len(preds[B]) > 1
  /\ \E p \in ToSet(Backs) : ~DominatesInTree(B, p)
  /\ n' = n - 1
  /\ irreducible' = irreducible \cup {B} /\ has_loops' = TRUE
  /\ irreducible_depth' = dom_depth[B]
  /\ irreducible_list' = Append(irreducible_list, B)
  /\ UNCHANGED <<stage, order, loop, loop_header, loop_depth, header, merge, with_entry>>

(* The delayed loops, the last one in DFS order first *)
ScanFlush ==
  /\ stage = "scan" /\ n > 1 /\ dom_depth[B] < irreducible_depth
  /\ stage' = "irreducible"
  /\ irreducible_list' =
       SortSeq(irreducible_list, LAMBDA c, d : order.enter[c] < order.enter[d])
  /\ UNCHANGED <<order, n, loop, irreducible_depth, loop_header, loop_depth, flags, with_entry>>

ScanEnd ==
  /\ stage = "scan" /\ n = 1
  /\ stage' = IF has_loops THEN "depths" ELSE "found"
  /\ UNCHANGED <<order, n, loop, irr, loop_header, loop_depth, flags, with_entry>>

---------------------------------------------------------------------------
(* Members of a reducible loop *)

Claim(m) == [loop_header EXCEPT ![m] = IF @ = 0 THEN hdr ELSE @]

(* Mutant: predecessors in an inner loop are passed over. *)
Standing_skip(m) ==
  SelectSeq(preds[m], LAMBDA p : p \notin visited /\ loop_header[p] = 0)

(* What the predecessors of m that are not visited stand for: themselves   *)
(* or the loops around them.  Those in the loop m heads are passed over.   *)
Standing(m) ==
  LET outer == SelectSeq(preds[m], LAMBDA p : p \notin visited /\ Claim(m)[p] # m)
  IN [i \in DOMAIN outer |-> Outermost(outer[i], Claim(m))]

Distinct(s) ==
  SelectSeq([i \in DOMAIN s |-> IF \E j \in 1 .. i - 1 : s[j] = s[i] THEN 0 ELSE s[i]],
            LAMBDA c : c # 0)

Collect ==
  LET m   == Last(work)
      new == Distinct(PushAll(Standing(m)))
  IN /\ stage = "collect" /\ work # << >>
     /\ IF m = hdr THEN work' = Front(work) /\ UNCHANGED <<visited, loop_header>>
        ELSE /\ loop_header' = Claim(m)
             /\ work' = Front(work) \o new
             /\ visited' = visited \cup ToSet(new)
     /\ UNCHANGED <<stage, order, n, hdr, irr, loop_depth, flags, with_entry>>

CollectEnd ==
  /\ stage = "collect" /\ work = << >>
  /\ stage' = "scan"
  /\ UNCHANGED <<order, n, loop, irr, loop_header, loop_depth, flags, with_entry>>

---------------------------------------------------------------------------
(* Members of an irreducible loop *)

Irreducible ==
  LET h     == Last(irreducible_list)
      backs == SelectSeq(preds[h], LAMBDA p : p # h /\ Descendant(p, h))
  IN /\ stage = "irreducible" /\ irreducible_list # << >>
     /\ irreducible_list' = Front(irreducible_list)
     /\ header' = header \cup {h} /\ merge' = merge \ {h}
     /\ loop_depth' = [loop_depth EXCEPT ![h] = 1]
     /\ hdr' = h /\ work' = backs /\ visited' = ToSet(backs) \cup {h}
     /\ stage' = "members"
     /\ UNCHANGED <<order, n, irreducible_depth, loop_header, irreducible, has_loops, with_entry>>

Member ==
  LET m      == Last(work)
      pushed == SelectSeq(Standing(m), LAMBDA p : p # hdr /\ Descendant(p, hdr))
      new    == Distinct(PushAll(pushed))
      other  == Len(preds[m]) > 1 /\ \E p \in ToSet(Standing(m)) : p = hdr \/ ~Descendant(p, hdr)
  IN /\ stage = "members" /\ work # << >>
     /\ loop_header' = Claim(m)
     /\ work' = Front(work) \o new
     /\ visited' = visited \cup ToSet(new)
     /\ irreducible' = IF other THEN irreducible \cup {m} ELSE irreducible
     /\ merge' = IF other THEN merge \ {m} ELSE merge
     /\ UNCHANGED <<stage, order, n, hdr, irr, loop_depth, header, has_loops, with_entry>>

MembersEnd ==
  /\ stage = "members" /\ work = << >>
  /\ stage' = "irreducible"
  /\ UNCHANGED <<order, n, loop, irr, loop_header, loop_depth, flags, with_entry>>

IrreducibleEnd ==
  /\ stage = "irreducible" /\ irreducible_list = << >>
  /\ stage' = "scan" /\ irreducible_depth' = 0
  /\ UNCHANGED <<order, n, loop, irreducible_list, loop_header, loop_depth, flags, with_entry>>

---------------------------------------------------------------------------
(* The top-down pass; n is the index of the block it has come to *)

C == order.sorted[n]

DepthOutside ==
  /\ stage = "depths" /\ n <= N /\ loop_header[C] = 0
  /\ n' = n + 1
  /\ UNCHANGED <<stage, order, loop, irr, loop_header, loop_depth, flags, with_entry>>

(* The loop that flags "all the enclosing loops" visits loop_header[l]     *)
(* only, which is 0 (the unused block) for an outermost loop l.            *)
Depth ==
  LET l     == loop_header[C]
      depth == loop_depth[l] + (IF C \in header THEN 1 ELSE 0)
  IN /\ stage = "depths" /\ n <= N /\ l # 0
     /\ loop_depth' = [loop_depth EXCEPT ![C] = depth]
     /\ with_entry' = IF C \in entry \cup with_entry
                        THEN with_entry \cup {l} \cup (IF depth > 1 THEN {loop_header[l]} ELSE {})
                        ELSE with_entry
     /\ n' = n + 1
     /\ UNCHANGED <<stage, order, loop, irr, loop_header, flags>>

DepthEnd ==
  /\ stage = "depths" /\ n = N + 1
  /\ stage' = "found"
  /\ UNCHANGED <<order, n, loop, irr, loop_header, loop_depth, flags, with_entry>>

LoopsNext ==
  \/ FindLoops
  \/ ScanPlain \/ ScanHeader \/ ScanIrreducible \/ ScanFlush \/ ScanEnd
  \/ Collect \/ CollectEnd
  \/ Irreducible \/ Member \/ MembersEnd \/ IrreducibleEnd
  \/ DepthOutside \/ Depth \/ DepthEnd

---------------------------------------------------------------------------
Blocks == 1 .. N

(* The shapes of what ir_find_loops builds. *)
LoopsTypeOK ==
  /\ stage \in {"wait", "scan", "collect", "irreducible", "members", "depths", "found"}
  /\ n \in 0 .. N + 1
  /\ hdr \in 0 .. N /\ work \in Seq(Blocks) /\ visited \subseteq Blocks
  /\ irreducible_list \in Seq(Blocks) /\ irreducible_depth \in 0 .. N
  /\ loop_header \in [Blocks -> 0 .. N] /\ loop_depth \in [Blocks -> 0 .. N]
  /\ header \subseteq Blocks /\ irreducible \subseteq Blocks /\ merge \subseteq Blocks
  /\ with_entry \subseteq 0 .. N
  /\ has_loops \in BOOLEAN

(* The loop of h in a reducible graph: h and what reaches a back-edge of h *)
(* without passing h.                                                      *)
BackEdges(h) == {p \in ToSet(preds[h]) : Dominates(preds, h, p)}

NaturalLoop(h) ==
  {h} \cup {c \in Blocks \ {h} : ReachIn(preds, {c}, Blocks \ {h}) \cap BackEdges(h) # {}}

Headers == {h \in Blocks : BackEdges(h) # {}}

Around(c) == {h \in Headers : c \in NaturalLoop(h)}

(* without the edges to headers that dominate their source no cycle is left *)
Reducible ==
  LET fwd == [c \in Blocks |-> SelectSeq(preds[c], LAMBDA p : ~Dominates(preds, c, p))]
  IN \A c \in Blocks : ~OnCycle(fwd, c)

(* In a reducible graph the headers, the innermost header around each      *)
(* block and the loop depths are those of the natural loops.               *)
ReducibleLoopsAreNatural ==
  stage = "found" /\ Reducible =>
    /\ header = Headers /\ irreducible = {}
    /\ \A c \in Blocks :
         /\ loop_depth[c] = Cardinality(Around(c))
         /\ Around(c) \ {c} = {} <=> loop_header[c] = 0
         /\ loop_header[c] # 0 =>
              /\ loop_header[c] \in Around(c) \ {c}
              /\ \A h \in Around(c) \ {c} : Dominates(preds, h, loop_header[c])

Mutual(c, d) == /\ c \in ReachIn(preds, SuccSet(preds, d), Blocks)
                /\ d \in ReachIn(preds, SuccSet(preds, c), Blocks)

Loops(c) ==
  LET chain[d \in 0 .. N] == IF d = 0 THEN {} ELSE {d} \cup chain[loop_header[d]]
  IN chain[c] \cap header

(* There is an irreducible loop inside another loop. *)
NestedIrreducible(Among) == \E h \in Among \cap irreducible : loop_header[h] # 0

(* In every graph, irreducible ones included: a loop's members and its     *)
(* header reach one another, a block on a cycle belongs to a loop, and the *)
(* depth counts the loops around a block.  Irreducible loops inside other  *)
(* loops are excepted: what enters them beside the header is not collected *)
(* (ReducibleLoopsCollectMembers), and since the header need not dominate  *)
(* the members, the top-down pass may treat them before it.                *)
LoopsCoverCycles ==
  stage = "found" =>
    \A c \in Blocks :
      /\ loop_header[c] # 0 => loop_header[c] \in header /\ Mutual(c, loop_header[c])
      /\ OnCycle(preds, c) => c \in header \/ loop_header[c] # 0 \/ NestedIrreducible(header)
      /\ loop_depth[c] = Cardinality(Loops(c)) \/ NestedIrreducible(Loops(c) \ {c})

(* "collect members of the reducible loop" *)
ReducibleLoopsCollectMembers ==
  stage = "found" => \A h \in Headers \ irreducible : \A c \in NaturalLoop(h) : h \in Loops(c)

(* The blocks with IR_BB_IRREDUCIBLE_LOOP, which code motion treats with   *)
(* care, begin with LOOP_BEGIN.  When no irreducible loop lies inside      *)
(* another loop they are the blocks through which control enters a loop    *)
(* that has several entries.                                               *)
EntersLoop(c, h) ==
  h \in Loops(c) /\ \E p \in ToSet(preds[c]) : h \notin Loops(p)

IrreducibleAreEntries ==
  stage = "found" =>
    /\ irreducible \cap merge = {}
    /\ NestedIrreducible(header) \/
       irreducible = {c \in Blocks : \E h \in header : /\ EntersLoop(c, h)
                                                     /\ \E d \in Blocks \ {c} : EntersLoop(d, h)}

(* "Set IR_BB_LOOP_WITH_ENTRY flag for all the enclosing loops" *)
EntryFlagsEnclosingLoops ==
  stage = "found" => \A e \in entry : Loops(e) \subseteq with_entry
===========================================================================
