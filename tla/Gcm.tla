-------------------------------- MODULE Gcm -------------------------------
(***************************************************************************)
(* ir_gcm: global code motion.  The nodes that control pins to a block     *)
(* keep it; every other live node first gets the earliest block where its  *)
(* operands are known, and then moves down to its uses and out of loops.   *)
(* A node whose value is not needed on every path from there is split, and *)
(* each clone serves some of the uses.                                     *)
(*                                                                         *)
(* ir_schedule: the nodes of each block in one sequence, every node behind *)
(* its operands, the blocks in an order where control reaches a block from *)
(* an earlier one, and the instructions renumbered accordingly.            *)
(*                                                                         *)
(* The instructions are ir.op, ir.in and ir.use, as in Sccp; block c       *)
(* extends along the first operands from ir.end[c] up to ir.start[c], and  *)
(* ir.bound are the references bound to variables.  Constants are negative *)
(* references, ir.consts.                                                  *)
(***************************************************************************)
EXTENDS Loops

CONSTANT CodesOf(_, _)     \* the instructions a graph may have, or NoCode

VARIABLES
  source,           \* the instructions before the pass
  ir,
  blk,              \* ctx->cfg_map, 0 for a node that is not placed
  early,            \* the nodes with IR_GCM_IS_SCHEDULED_EARLY
  queue_early, queue_late,
  pass,             \* wait, early, late, placed, reorder, sort, linear, ...
  blocks,           \* descriptors: the edges, the place in the dominator tree and in the
                    \* loops, and insns, the part of the _next list from start to end
  linear,           \* the scheduled nodes: _xlat is the position in it
  marked,           \* the constants with a mark in _xlat
  sorted            \* the number of blocks scheduled so far

sched  == <<blocks, linear, marked, sorted>>
motion == <<source, ir, blk, early, queue_early, queue_late>>
gcm    == <<motion, pass, sched>>

NoCode == [op |-> << >>]

Region == {"PHI", "PI"}
Local  == {"PARAM", "VAR"}
Leading == Region \cup Local
WithOverflow == {"ADD_OV", "SUB_OV", "MUL_OV"}
Commutative == {"ADD", "ADD_OV", "MUL_OV"}

Refs == DOMAIN ir.op

MotionInit ==
  /\ ir = source
  /\ blk = << >> /\ early = {}
  /\ queue_early = << >> /\ queue_late = << >>
  /\ pass = "wait"
  /\ blocks = << >> /\ linear = << >> /\ marked = {} /\ sorted = 0

GcmInit == source \in CodesOf(preds, entry) /\ MotionInit

GcmNone == source = NoCode /\ MotionInit

---------------------------------------------------------------------------
(* The nodes that control pins *)

(* The control chain of block c from its end up to its start. *)
Chain(c) ==
  LET up[r \in Refs] == IF r = ir.start[c] THEN <<r>> ELSE <<r>> \o up[ir.in[r][1]]
  IN up[ir.end[c]]

RegionsOf(c) ==
  SelectSeq(ir.use[ir.start[c]], LAMBDA u : ir.op[u] \in Region /\ ir.use[u] # << >>)

LocalsOf(c) == {u \in ToSet(ir.use[ir.start[c]]) : ir.op[u] \in Local}

PinnedTo(c) ==
  ToSet(Chain(c)) \cup
  (IF Len(ir.use[ir.start[c]]) > 1 THEN ToSet(RegionsOf(c)) \cup LocalsOf(c) ELSE {})

WithInputs(c) ==
  SelectSeq(Front(Chain(c)), LAMBDA r : Len(ir.in[r]) > 1)
  \o (IF Len(ir.use[ir.start[c]]) > 1 THEN RegionsOf(c) ELSE << >>)

(* The operands of the nodes in s and theirs, and so on *)
LiveFrom(s) ==
  LET In(r) == {i \in ToSet(ir.in[r]) : i > 0}
      live[k \in 0 .. Len(ir.op)] ==
        IF k = 0 THEN s ELSE LET l == live[k - 1] IN l \cup UNION {In(r) : r \in l}
  IN live[Len(ir.op)]

(* "Place all live nodes to the first block" *)
GcmOneBlock ==
  /\ pass = "wait" /\ stage = "found" /\ ir # NoCode /\ N = 1
  /\ LET live == LiveFrom(ToSet(Chain(1)) \cup LocalsOf(1))
     IN blk' = [r \in Refs |-> IF r \in live THEN 1 ELSE 0]
  /\ pass' = "placed"
  /\ UNCHANGED <<source, ir, early, queue_early, queue_late, sched>>

(* "pin and collect control and control depended instructions", from the   *)
(* last block to the first                                                 *)
GcmPin ==
  /\ pass = "wait" /\ stage = "found" /\ ir # NoCode /\ N > 1
  /\ \E pinned \in {[c \in 1 .. N |-> PinnedTo(c)]} :
       blk' = [r \in Refs |-> LET home == {c \in 1 .. N : r \in pinned[c]}
                              IN IF home = {} THEN 0 ELSE CHOOSE c \in home : TRUE]
  /\ queue_early' = FlattenSeq([k \in 1 .. N |-> WithInputs(N + 1 - k)])
  /\ pass' = "early"
  /\ UNCHANGED <<source, ir, early, queue_late, sched>>

---------------------------------------------------------------------------
(* ir_gcm_schedule_early *)

(* s is [blk, late]: what ctx->cfg_map and queue_late have become.  The    *)
(* node goes to the block of its deepest operand.                          *)
RECURSIVE Early(_, _)
Early(s, ref) ==
  LET inputs == SelectSeq(ir.in[ref], LAMBDA i : i > 0)
      t      == FoldLeft(LAMBDA u, i : IF u.blk[i] = 0 THEN Early(u, i) ELSE u, s, inputs)
      homes  == {1} \cup {t.blk[i] : i \in ToSet(inputs)}
      result == CHOOSE c \in homes : \A d \in homes : dom_depth[d] <= dom_depth[c]
  IN [blk |-> [t.blk EXCEPT ![ref] = result], late |-> Append(t.late, ref)]

GcmEarly ==
  LET ref  == Last(queue_early)
      data == SelectSeq(Tail(ir.in[ref]), LAMBDA i : i > 0)
      s    == FoldLeft(LAMBDA u, i : IF u.blk[i] = 0 THEN Early(u, i) ELSE u,
                       [blk |-> blk, late |-> queue_late], data)
  IN /\ pass = "early" /\ queue_early # << >>
     /\ queue_early' = Front(queue_early)
     /\ blk' = s.blk /\ queue_late' = s.late
     /\ early' = ToSet(s.late)
     /\ UNCHANGED <<source, ir, pass, sched>>

GcmEarlyEnd ==
  /\ pass = "early" /\ queue_early = << >>
  /\ pass' = "late"
  /\ UNCHANGED <<motion, sched>>

---------------------------------------------------------------------------
(* The dominator tree and the loops.  Block 0 stands for a node that is    *)
(* not placed; its descriptor is all zeros.                                *)

DepthOf(c)  == IF c = 0 THEN 0 ELSE dom_depth[c]
ParentOf(c) == IF c = 0 THEN 0 ELSE idom[c]

(* ir_gcm_find_lca *)
FindLca(b1, b2) ==
  LET meet[p \in (0 .. N) \X (0 .. N)] ==
        LET x == p[1]
            y == p[2]
        IN IF x = y THEN x
           ELSE IF DepthOf(x) > DepthOf(y) THEN meet[<<ParentOf(x), y>>]
           ELSE IF DepthOf(x) < DepthOf(y) THEN meet[<<x, ParentOf(y)>>]
           ELSE meet[<<ParentOf(x), ParentOf(y)>>]
  IN meet[<<b1, b2>>]

Join(lca, c) == IF lca = 0 THEN c ELSE FindLca(lca, c)

LoopOf(c) == IF c \in header THEN c ELSE loop_header[c]

(* The block to which a node moves on its way from lca up to top: out of   *)
(* every loop, until a pair <<best, c>> of "stops" holds it below block c. *)
HoistTo(lca, top, stops) ==
  LET up[p \in (1 .. N) \X (1 .. N)] ==
        LET best == p[1]
            c    == idom[p[2]]
        IN IF loop_depth[c] >= loop_depth[best] THEN IF c = top THEN best ELSE up[<<best, c>>]
           ELSE IF <<best, c>> \in stops THEN best
           ELSE IF loop_depth[c] = 0 \/ c = top THEN c
           ELSE up[<<c, c>>]
  IN IF loop_depth[lca] = 0 THEN lca ELSE up[<<lca, lca>>]

(* ir_gcm_select_best_block: "Don't move loop invariant code across an OSR *)
(* ENTRY if we can't restore it", "Avoid LICM if LOOP doesn't have a       *)
(* pre-header block"                                                       *)
SelectBestBlock(ref, lca, top) ==
  LET Barred(c) == LoopOf(c) \in with_entry /\ ref \notin ir.bound
      NoPreheader(best, c) ==
        LET into == preds[LoopOf(best)] IN Len(into) > 2 /\ c \notin ToSet(into)
  IN IF loop_depth[lca] > 0 /\ Barred(lca) THEN lca
     ELSE HoistTo(lca, top, {p \in (1 .. N) \X (1 .. N) :
                              IF loop_depth[p[2]] = 0 THEN NoPreheader(p[1], p[2]) ELSE Barred(p[2])})

---------------------------------------------------------------------------
(* ir_split_partially_dead_node.  s is [ir, blk, early].                   *)

(* Mutant: a PHI uses its operands in its own block. *)
PhiUses_own(s, phi, ref) == <<[use |-> phi, block |-> s.blk[phi]]>>

(* The uses of ref, with the block where each needs the value: for a PHI,  *)
(* the sources of the edges that bring it.                                 *)
PhiUses(s, phi, ref) ==
  LET m  == s.ir.in[phi][1]
      ks == SelectSeq([k \in DOMAIN s.ir.in[phi] |-> k],
                      LAMBDA k : k > 1 /\ s.ir.in[phi][k] = ref)
  IN [i \in DOMAIN ks |-> [use |-> phi, block |-> s.blk[s.ir.in[m][ks[i] - 1]]]]

UsesAt(s, ref) ==
  LET use == s.ir.use[ref]
      At(i) == IF s.ir.op[use[i]] # "PHI" THEN <<[use |-> use[i], block |-> s.blk[use[i]]]>>
               ELSE IF \E j \in 1 .. i - 1 : use[j] = use[i] THEN << >>
               ELSE PhiUses(s, use[i], ref)
  IN FlattenSeq([i \in DOMAIN use |-> At(i)])

(* The blocks where the value is needed, and those from which every way    *)
(* leads to them.                                                          *)
TotallyUseful(used) ==
  LET grow[k \in 0 .. N] ==
        IF k = 0 THEN used
        ELSE LET g == grow[k - 1]
             IN g \cup {c \in 1 .. N : SuccSet(preds, c) # {} /\ SuccSet(preds, c) \subseteq g}
  IN grow[N]

FirstOfEach(s) ==
  LET ks == SelectSeq([i \in DOMAIN s |-> i], LAMBDA i : \A j \in 1 .. i - 1 : s[j] # s[i])
  IN [i \in DOMAIN ks |-> s[ks[i]]]

(* "Split the USEs into partitions" by the top of the useful region above  *)
(* each use, "Select best blocks to insert clones" and sink the clone of a *)
(* single use.                                                             *)
Partitions(uses, useful) ==
  LET top[c \in 0 .. N] == IF ParentOf(c) \in useful THEN top[idom[c]] ELSE c
      tops == FirstOfEach([i \in DOMAIN uses |-> top[uses[i].block]])
      Part(t) ==
        LET own == SelectSeq(uses, LAMBDA u : top[u.block] = t)
            lca == FoldLeft(LAMBDA x, u : FindLca(x, u.block), own[1].block, Tail(own))
            to  == IF t = lca THEN t ELSE HoistTo(lca, t, {})
            sink == to # 0 /\ Len(own) = 1 /\ loop_depth[to] >= loop_depth[own[1].block]
        IN [uses |-> own, block |-> IF sink THEN own[1].block ELSE to]
  IN [i \in DOMAIN tops |-> Part(tops[i])]

(* Give use u, which needs the value in block u.block, the clone in block  *)
(* c.                                                                      *)
Redirect(s, ref, clone, c, u) ==
  LET in == s.ir.in[u.use]
      m  == in[1]
      Below(d) == LET climb[x \in 1 .. N] == IF dom_depth[x] > dom_depth[c] THEN climb[idom[x]] ELSE x
                  IN climb[d] = c
      ks == IF s.ir.op[u.use] = "PHI"
              THEN {k \in 2 .. Len(in) : s.blk[s.ir.in[m][k - 1]] = u.block /\ Below(u.block)}
              ELSE {k \in DOMAIN in : in[k] = ref}
  IN IF ks = {} THEN s
     ELSE [s EXCEPT !.ir.in[u.use] = [in EXCEPT ![Min(ks)] = clone]]

(* The clone of part i: the node itself serves the first part. *)
AddClone(s, ref, i, part) ==
  LET clone == IF i = 1 THEN ref ELSE Len(s.ir.op) + 1
      serve == Reverse(part.uses)
      users == [k \in DOMAIN serve |-> serve[k].use]
      ins   == SelectSeq(s.ir.in[ref], LAMBDA x : x > 0)
      t == IF i = 1 THEN [s EXCEPT !.ir.use[ref] = users, !.blk[ref] = part.block]
           ELSE [s EXCEPT !.ir.op  = Append(@, s.ir.op[ref]),
                          !.ir.in  = Append(@, s.ir.in[ref]),
                          !.ir.use = Append(FoldLeft(LAMBDA use, x : [use EXCEPT ![x] = Append(@, clone)],
                                                     @, ins), users),
                          !.blk    = Append(@, part.block)]
  IN IF i = 1 THEN t
     ELSE FoldLeft(LAMBDA v, u : Redirect(v, ref, clone, part.block, u), t, serve)

CanSplit(s, ref, lca) ==
  lca \notin TotallyUseful({u.block : u \in ToSet(UsesAt(s, ref))} \ {0})

Split(s, ref) ==
  LET uses  == UsesAt(s, ref)
      parts == Partitions(uses, TotallyUseful({u.block : u \in ToSet(uses)} \ {0}))
  IN FoldLeft(LAMBDA t, i : AddClone(t, ref, i, parts[i]), s, [i \in DOMAIN parts |-> i])

---------------------------------------------------------------------------
(* ir_gcm_schedule_late *)

(* "OVERFLOW is a projection of ADD/SUB/MUL_OV and must be scheduled into  *)
(* the same block"                                                         *)
MoveTo(s, ref, c) ==
  LET flag == SelectSeq(s.ir.use[ref], LAMBDA u : s.ir.op[u] = "OVERFLOW")
      t    == [s EXCEPT !.blk[ref] = c]
  IN IF s.ir.op[ref] \in WithOverflow /\ flag # << >> THEN [t EXCEPT !.blk[flag[1]] = c] ELSE t

(* The uses are placed first; the list grows when a use is split. *)
RECURSIVE Late(_, _), LateUses(_, _, _, _)
LateUses(s, ref, k, lca) ==
  IF k > Len(s.ir.use[ref]) THEN [s |-> s, lca |-> lca]
  ELSE LET use == s.ir.use[ref][k]
       IN IF use \in s.early
            THEN LET t == Late(s, use) IN LateUses(t, ref, k + 1, Join(lca, t.blk[use]))
          ELSE IF s.blk[use] = 0 THEN LateUses(s, ref, k + 1, lca)
          ELSE IF s.ir.op[use] = "PHI"
            THEN LateUses(s, ref, k + 1,
                          FoldLeft(LAMBDA x, u : Join(x, u.block), lca, PhiUses(s, use, ref)))
          ELSE LateUses(s, ref, k + 1, Join(lca, s.blk[use]))

Late(s0, ref) ==
  LET r   == LateUses([s0 EXCEPT !.early = @ \ {ref}], ref, 1, 0)
      s   == r.s
      top == s.blk[ref]
  IN IF Len(s.ir.use[ref]) > 1 /\ CanSplit(s, ref, r.lca) THEN Split(s, ref)
     ELSE IF r.lca = top THEN s
     ELSE MoveTo(s, ref, SelectBestBlock(ref, r.lca, top))

GcmLate ==
  /\ pass = "late" /\ queue_late # << >>
  /\ queue_late' = Front(queue_late)
  /\ LET ref == Last(queue_late)
         s   == [ir |-> ir, blk |-> blk, early |-> early]
         t   == IF ref \in early THEN Late(s, ref) ELSE s
     IN ir' = t.ir /\ blk' = t.blk /\ early' = t.early
  /\ UNCHANGED <<source, queue_early, pass, sched>>

GcmEnd ==
  /\ pass = "late" /\ queue_late = << >>
  /\ pass' = "placed"
  /\ UNCHANGED <<motion, sched>>

GcmNext == GcmOneBlock \/ GcmPin \/ GcmEarly \/ GcmEarlyEnd \/ GcmLate \/ GcmEnd

---------------------------------------------------------------------------
(* ir_schedule *)

(* ir_is_good_bb_order *)
GoodOrder(c) ==
  \/ c = 1
  \/ \A p \in ToSet(preds[c]) :
       \/ p < c
       \/ Len(preds[c]) > 1 /\ c \in header /\ (p = c \/ loop_header[p] = c)
       \/ Len(preds[c]) > 1 /\ c \in irreducible /\ loop_header[p] = loop_header[c]

Linked(c) ==
  LET s == ir.start[c]
      e == ir.end[c]
  IN [start |-> s, end |-> e, preds |-> preds[c], succs |-> Succs(preds, c),
      idom |-> idom[c], loop_header |-> loop_header[c], loop_depth |-> loop_depth[c], header |-> c \in header,
      insns |-> <<s>> \o SelectSeq([r \in Refs |-> r], LAMBDA r : blk[r] = c /\ r \notin {s, e}) \o <<e>>]

LinkBlocks ==
  /\ pass = "placed"
  /\ blocks' = [c \in 1 .. N |-> Linked(c)]
  /\ pass' = IF \A c \in 1 .. N : GoodOrder(c) THEN "sort" ELSE "reorder"
  /\ UNCHANGED <<motion, linear, marked, sorted>>

---------------------------------------------------------------------------
(* ir_fix_bb_order: "Place block only after all its successors (except     *)
(* back-edges) are placed."  Of several successors the one in the          *)
(* outermost loop goes first.                                              *)

SideEntry(c, s) == s \in irreducible /\ loop_header[s] # LoopOf(c)

BestSuccessor(open) ==
  LET depth == Min({loop_depth[s] : s \in ToSet(open)})
  IN Last(SelectSeq(open, LAMBDA s : loop_depth[s] = depth))

BlockOrder ==
  LET run[r \in [stack : Seq(1 .. N), seen : SUBSET (1 .. N), out : Seq(1 .. N)]] ==
        IF r.stack = << >> THEN r.out
        ELSE LET c    == Last(r.stack)
                 open == SelectSeq(Succs(preds, c), LAMBDA s : s \notin r.seen /\ ~SideEntry(c, s))
             IN IF open = << >>
                  THEN run[[r EXCEPT !.stack = Front(@), !.out = <<c>> \o @]]
                  ELSE run[[r EXCEPT !.stack = Append(@, BestSuccessor(open)),
                                     !.seen = @ \cup {BestSuccessor(open)}]]
  IN run[[stack |-> <<1>>, seen |-> {1}, out |-> << >>]]

FixOrder ==
  LET new(c) == IF c = 0 THEN 0 ELSE SelectInSeq(BlockOrder, LAMBDA d : d = c)
      All(s) == [i \in DOMAIN s |-> new(s[i])]
  IN /\ pass = "reorder"
     /\ blocks' = [i \in DOMAIN BlockOrder |->
                     LET d == blocks[BlockOrder[i]]
                     IN [d EXCEPT !.preds = All(@), !.succs = All(@), !.idom = new(@), !.loop_header = new(@)]]
     /\ blk' = All(blk)
     /\ pass' = "sort"
     /\ UNCHANGED <<source, ir, early, queue_early, queue_late, linear, marked, sorted>>

---------------------------------------------------------------------------
(* "Simple Stable Topological Sort": an operand that is still missing is   *)
(* fetched in front of the node that needs it.                             *)
RECURSIVE TopSort(_, _, _)
TopSort(c, rest, done) ==
  IF rest = << >> THEN << >>
  ELSE LET i    == Head(rest)
           late == SelectSeq(ir.in[i], LAMBDA x : x > 0 /\ x \notin done /\ blk[x] = c)
       IN IF late = << >> THEN <<i>> \o TopSort(c, Tail(rest), done \cup {i})
          ELSE TopSort(c, <<late[1]>> \o SelectSeq(rest, LAMBDA x : x # late[1]), done)

(* Mutant: a condition that is not in the block is put there as well. *)
ConditionLast_any(c, body) ==
  LET e    == blocks[c].end
      cond == ir.in[e][2]
  IN IF Len(blocks[c].succs) > 1 /\ ir.op[e] = "IF" /\ cond > 0
       THEN SelectSeq(body, LAMBDA x : x # cond) \o <<cond>> ELSE body

(* "Move condition closer to IF" *)
ConditionLast(c, body) ==
  LET e    == blocks[c].end
      cond == ir.in[e][2]
  IN IF /\ Len(blocks[c].succs) > 1 /\ ir.op[e] = "IF"
        /\ cond \in ToSet(body) /\ (ir.op[cond] = "LOAD" => ir.in[e][1] = cond)
     THEN SelectSeq(body, LAMBDA x : x # cond) \o <<cond>>
     ELSE body

(* PARAM, VAR, PI and PHI follow the start of the block: those that do so  *)
(* in the list, then the others as they are listed among its uses.         *)
LeadOf(c) ==
  LET b0    == blocks[c]
      Run(k, ops) == LET stop == {j \in k .. Len(b0.insns) : ir.op[b0.insns[j]] \notin ops} IN Min(stop)
      i     == Run(Run(2, Leading \ {"PHI"}), {"PHI"})
      first == SubSeq(b0.insns, 2, i - 1)
  IN first \o SelectSeq(ir.use[b0.start], LAMBDA u : /\ ir.op[u] \in Leading /\ blk[u] # 0
                                                     /\ u \notin ToSet(first))

(* Constants are marked where an operand of a scheduled node is looked at. *)
Constants(s) == {x \in ToSet(s) : x < 0}

ScheduleBlock ==
  LET c    == sorted + 1
      b0   == blocks[c]
      lead == LeadOf(c)
      body == SelectSeq(b0.insns, LAMBDA x : x \notin ToSet(lead) \cup {b0.start, b0.end})
      done == ToSet(linear) \cup {b0.start} \cup ToSet(lead)
  IN /\ pass = "sort" /\ sorted < N
     /\ linear' = linear \o <<b0.start>> \o lead \o TopSort(c, ConditionLast(c, body), done) \o <<b0.end>>
     /\ marked' = marked
          \cup (IF ir.op[b0.start] = "CASE_VAL" THEN Constants(ir.in[b0.start]) ELSE {})
          \cup UNION {Constants(Tail(ir.in[x])) : x \in {y \in ToSet(lead) : ir.op[y] = "PHI"}}
          \cup UNION {Constants(ir.in[x]) : x \in ToSet(body)}
          \cup (IF Len(ir.in[b0.end]) = 2 THEN Constants(<<ir.in[b0.end][2]>>) ELSE {})
     /\ sorted' = sorted + 1
     /\ UNCHANGED <<motion, pass, blocks>>

---------------------------------------------------------------------------
(* The new instructions *)

Xlat(x) ==
  IF x > 0 THEN SelectInSeq(linear, LAMBDA y : y = x)
  ELSE IF x \in marked THEN -Cardinality({y \in marked : y >= x}) ELSE 0

Mirrored == [LT |-> "GT", GT |-> "LT"]

(* "Swap operands according to folding rules" *)
CopyInsn(x) ==
  LET op == ir.op[x]
      in == [k \in DOMAIN ir.in[x] |-> Xlat(ir.in[x][k])]
  IN IF Len(in) = 2 /\ in[1] < in[2] /\ op \in Commutative \cup DOMAIN Mirrored
       THEN [op |-> IF op \in Commutative THEN op ELSE Mirrored[op], in |-> <<in[2], in[1]>>]
       ELSE [op |-> op, in |-> in]

CopyUses(x) ==
  LET use == SelectSeq(ir.use[x], LAMBDA u : u \in ToSet(linear))
  IN [k \in DOMAIN use |-> Xlat(use[k])]

Modified == marked # ir.consts \/ linear # [i \in Refs |-> i]

SwitchTo ==
  /\ pass = "sort" /\ sorted = N
  /\ IF Modified
       THEN /\ ir' = [op    |-> [i \in DOMAIN linear |-> CopyInsn(linear[i]).op],
                      in    |-> [i \in DOMAIN linear |-> CopyInsn(linear[i]).in],
                      use   |-> [i \in DOMAIN linear |-> CopyUses(linear[i])],
                      start |-> [c \in 1 .. N |-> Xlat(blocks[c].start)],
                      end   |-> [c \in 1 .. N |-> Xlat(blocks[c].end)],
                      bound |-> {Xlat(x) : x \in ir.bound \cap ToSet(linear)},
                      consts |-> {Xlat(x) : x \in marked}]
            /\ blk' = [i \in DOMAIN linear |-> blk[linear[i]]]
       ELSE UNCHANGED <<ir, blk>>
  /\ pass' = "linear"
  /\ UNCHANGED <<source, early, queue_early, queue_late, sched>>

ScheduleNext == LinkBlocks \/ FixOrder \/ ScheduleBlock \/ SwitchTo

---------------------------------------------------------------------------
(* What a node computes, as an expression over the nodes control pins. *)
Floating == {"ADD", "SUB", "LT", "GT", "OVERFLOW"} \cup WithOverflow

(* c are instructions and Old gives the names their nodes and constants    *)
(* have in the source.  Operands that may change places are a set, and GT  *)
(* is LT with the operands exchanged.                                      *)
Expression(c, r, Old(_)) ==
  LET tree[x \in DOMAIN c.op] ==
        LET opnd == [k \in DOMAIN c.in[x] |-> IF c.in[x][k] > 0 THEN tree[c.in[x][k]]
                                              ELSE <<"const", Old(c.in[x][k])>>]
        IN CASE c.op[x] \notin Floating -> <<"node", Old(x)>>
             [] c.op[x] \in Commutative -> <<c.op[x], {opnd[1], opnd[2]}>>
             [] c.op[x] = "GT" -> <<"LT", Reverse(opnd)>>
             [] OTHER -> <<c.op[x], opnd>>
  IN IF r > 0 THEN tree[r] ELSE <<"const", Old(r)>>

Same(x) == x

MirrorsOperands ==
  \A x, u \in Refs :
    Cardinality({k \in DOMAIN ir.use[x] : ir.use[x][k] = u})
      = Cardinality({k \in DOMAIN ir.in[u] : ir.in[u][k] = x})

(* Every placed node finds its operands: they are placed in blocks that    *)
(* dominate it or, for a PHI, the source of the edge.  Splitting leaves    *)
(* each pinned node with operands of the same value, and the use lists     *)
(* mirror the operands.                                                    *)
UsedAt(u, k) ==
  IF ir.op[u] = "PHI" THEN blk[ir.in[ir.in[u][1]][k - 1]] ELSE blk[u]

CodeMotionRight ==
  pass = "placed" =>
    /\ early = {}
    /\ \A u \in Refs : blk[u] # 0 => \A k \in DOMAIN ir.in[u] :
         LET x == ir.in[u][k]
         IN x > 0 /\ ir.op[x] \in Floating \cup Region \cup Local \cup {"LOAD"} =>
              /\ blk[x] # 0
              /\ DominatesInTree(blk[x], UsedAt(u, k))
    /\ \A u \in DOMAIN source.op : ir.op[u] \notin Floating /\ blk[u] # 0 =>
         \A k \in DOMAIN ir.in[u] :
           Expression(ir, ir.in[u][k], Same) = Expression(source, source.in[u][k], Same)
    /\ MirrorsOperands

(* "OVERFLOW is a projection of ADD/SUB/MUL_OV and must be scheduled into  *)
(* the same block": it is where the flags of its operation still are.      *)
OverflowStays ==
  pass = "placed" => \A u \in Refs : ir.op[u] = "OVERFLOW" /\ blk[u] # 0 => blk[u] = blk[ir.in[u][1]]

---------------------------------------------------------------------------
(* The nodes and constants of the new instructions as they were before. *)
Before(x) ==
  IF x > 0 THEN linear[x]
  ELSE IF x = 0 THEN 0
  ELSE CHOOSE y \in marked : -x = Cardinality({z \in marked : z >= y})

(* The linear instructions are those of the graph: every node that was     *)
(* placed comes once, with operands of the same value, behind its operands *)
(* and, but for the edges that close a loop, behind its control; PHIs and  *)
(* parameters follow the start of their block; the operands of a MERGE     *)
(* come from the predecessors in order; a block follows its dominator.     *)
LinearRight ==
  pass = "linear" =>
    /\ Len(blocks) = N /\ ir.start[1] = 1 /\ ir.end[N] = Len(ir.op)
    /\ \A c \in 1 .. N :
         LET s == ir.start[c]
             lead == {u \in ToSet(ir.use[s]) : ir.op[u] \in Leading}
         IN /\ s < ir.end[c] /\ (c < N => ir.start[c + 1] = ir.end[c] + 1)
            /\ \A r \in s .. ir.end[c] : blk[r] = c
            /\ lead = s + 1 .. s + Cardinality(lead)
            /\ [k \in DOMAIN ir.in[s] |-> blk[ir.in[s][k]]] = blocks[c].preds
            /\ c > 1 => blocks[c].idom < c
    /\ \A u \in Refs : ir.op[u] # "PHI" /\ u \notin ToSet(ir.start) =>
         \A x \in ToSet(ir.in[u]) : x < u
    /\ \A u \in DOMAIN source.op : source.op[u] \notin Floating \cup Leading => u \in ToSet(linear)
    /\ \A i \in Refs : ir.op[i] \notin Floating =>
         LET u == linear[i]
         IN /\ source.op[u] = ir.op[i] /\ Len(source.in[u]) = Len(ir.in[i])
            /\ \A k \in DOMAIN ir.in[i] :
                 Expression(ir, ir.in[i][k], Before) = Expression(source, source.in[u][k], Same)
    /\ MirrorsOperands
===========================================================================
