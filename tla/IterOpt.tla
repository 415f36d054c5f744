------------------------------ MODULE IterOpt -----------------------------
(***************************************************************************)
(* The iterative optimisations that follow SCCP (ir_sccp.c, ir_iter_opt):  *)
(* one action per kind of instruction taken from the worklist "iter".      *)
(* Graph and worklist are edited together, as t = [g |-> .., w |-> ..].    *)
(***************************************************************************)
EXTENDS Sccp

CONSTANT IR_OPT_CFG   \* the flag that allows changes of control flow

VARIABLE cfg_reachable   \* IR_CFG_REACHABLE: no block has been cut off

iterVars == <<vars, cfg_reachable>>

---------------------------------------------------------------------------
(* Edits of one use *)

UnuseBy(h, x, u) == IF x > 0 THEN [h EXCEPT !.use[x] = Without(@, u)] ELSE h
UseBy(h, x, u) == IF x > 0 THEN [h EXCEPT !.use[x] = Append(@, u)] ELSE h
UseMoves(h, x, u, v) == IF x > 0 THEN [h EXCEPT !.use[x] = FirstAs(@, u, v)] ELSE h

Nops(h, S) == FoldSet(LAMBDA r, q : Nop(q, r), h, S)

Queue(t, S) == [t EXCEPT !.w = @ \cup S]

QueueUses(t, r) == Queue(t, ToSet(t.g.use[r]))

(* A block start that may now be joined or folded with its neighbour *)
QueueBlock(t, r) == IF t.g.op[r] \in {"BEGIN", "MERGE"} THEN Queue(t, {r}) ELSE t

(* r stops using x; x may have died, or may be a PHI that its merge can    *)
(* now turn into a conditional operation.                                  *)
IterUnuse(t, x, r) ==
  LET h == UnuseBy(t.g, x, r)
  IN IF x <= 0 THEN t
     ELSE [g |-> h,
           w |-> IF IsDead(h, x) THEN t.w \cup {x}
                 ELSE IF h.op[x] = "PHI" /\ Len(h.use[x]) = 1 THEN t.w \cup {h.in[x][1]}
                 ELSE t.w]

UnuseDead(t, x, r) ==
  LET h == UnuseBy(t.g, x, r)
  IN [g |-> h, w |-> IF x > 0 /\ IsDead(h, x) THEN t.w \cup {x} ELSE t.w]

IterRemoveInsn(t, r) ==
  FoldLeft(LAMBDA q, x : IterUnuse(q, x, r), [t EXCEPT !.g = Nop(t.g, r)], t.g.in[r])

(* ir_iter_add_related_uses: the only use of an ADD or SUB whose operand   *)
(* has become constant                                                     *)
RelatedUses(h, u) ==
  IF h.op[u] \in {"ADD", "SUB"} /\ Len(h.use[u]) = 1 THEN {h.use[u][1]} ELSE {}

IterReplace(t, uses, r, new) ==
  FoldLeft(LAMBDA q, u :
             LET h == [q.g EXCEPT !.in[u] = FirstAs(@, r, new)]
             IN IF new <= 0 THEN [g |-> h, w |-> q.w \cup {u} \cup RelatedUses(h, u)]
                ELSE [g |-> UseBy(h, new, u), w |-> q.w \cup {u}],
           t, uses)

IterReplaceInsn(t, r, new) == IterReplace(IterRemoveInsn(t, r), t.g.use[r], r, new)

IterUpdateOp(t, r, k, new) ==
  LET old == t.g.in[r][k]
  IN UnuseDead([t EXCEPT !.g = [UseBy(t.g, new, r) EXCEPT !.in[r][k] = new]], old, r)

---------------------------------------------------------------------------
(* ir_iter_fold *)

AllBottom == [r \in Refs(g) |-> [op |-> "BOTTOM"]]

Inverse_(op) == CASE op = "EQ" -> "NE" [] op = "NE" -> "EQ" [] op = "LT" -> "GE"
                  [] op = "GE" -> "LT" [] op = "LE" -> "GT" [] op = "GT" -> "LE"
Mirrored(op) == CASE op = "LT" -> "GT" [] op = "GT" -> "LT" [] op = "LE" -> "GE"
                  [] op = "GE" -> "LE" [] OTHER -> op

IsZero(r) == r < 0 /\ ConstVal(r) = 0

(* What the rules that restart turn an instruction into *)
RECURSIVE Rewritten(_, _)
Rewritten(op, ins) ==
  LET a == ins[1]
      b == ins[2]
      Of(x, ops) == x > 0 /\ g.op[x] \in ops
  IN CASE op = "NOT" /\ Of(a, Cmp) -> Rewritten(Inverse_(g.op[a]), g.in[a])
       [] op = "ABS" /\ Of(a, {"NEG"}) -> Rewritten("ABS", g.in[a])
       [] op = "SUB" /\ IsZero(a) -> Rewritten("NEG", <<b>>)
       [] op \in {"ADD", "SUB"} /\ Of(a, {"ADD"}) /\ b < 0 /\ g.in[a][2] < 0 ->
            Rewritten("ADD", <<g.in[a][1], Const(Arith(op, ConstVal(g.in[a][2]), ConstVal(b)))>>)
       [] op \in Binary \ {"SUB"} /\ a < b -> Rewritten(Mirrored(op), <<b, a>>)
       [] op = "COND" /\ Of(a, {"NE"}) /\ IsZero(g.in[a][2]) ->
            Rewritten("COND", <<g.in[a][1], b, ins[3]>>)
       [] op = "COND" /\ Of(a, {"EQ"}) /\ IsZero(g.in[a][2]) ->
            Rewritten("COND", <<g.in[a][1], ins[3], b>>)
       [] OTHER -> [op |-> op, in |-> ins]

(* An equal instruction before r, among the uses of the operand that has   *)
(* the fewest; the ones after r that the search meets are looked at later. *)
FindCse(r, n) ==
  LET refs == {k \in DOMAIN n.in : n.in[k] > 0}
      Count(k) == Len(g.use[n.in[k]])
      best == Min({k \in refs : \A j \in refs : Count(k) <= Count(j)})
      equal == SelectSeq(g.use[n.in[best]],
                         LAMBDA u : u # r /\ g.op[u] = n.op /\ g.in[u] = n.in)
      before == {k \in DOMAIN equal : equal[k] < r}
  IN IF refs = {} THEN [copy |-> 0, later |-> {}]
     ELSE IF before = {} THEN [copy |-> 0, later |-> ToSet(equal)]
     ELSE [copy |-> equal[Min(before)],
           later |-> {equal[k] : k \in {j \in DOMAIN equal : \A b \in before : j < b}}]

(* r gets the operation and the operands of n. *)
Reshaped(t, r, n) ==
  LET At(s, k) == IF k \in DOMAIN s THEN s[k] ELSE 0
      Change(q, k) ==
        LET old == At(g.in[r], k)
            new == At(n.in, k)
            h == UnuseBy(q.g, old, r)
        IN IF old = new THEN q
           ELSE [g |-> UseBy(h, new, r),
                 w |-> IF old > 0 /\ h.use[old] = << >> THEN q.w \cup {old} ELSE q.w]
      q1 == FoldLeft(Change, t, <<1, 2, 3>>)
  IN IF g.op[r] = n.op /\ g.in[r] = n.in THEN t
     ELSE QueueUses([q1 EXCEPT !.g.op[r] = n.op, !.g.in[r] = n.in], r)

IterFold(t, r) ==
  LET n == Rewritten(g.op[r], g.in[r])
      res == Fold(AllBottom, n.op, n.in)
      cse == FindCse(r, n)
  IN IF res.to # "emit" THEN IterReplaceInsn(t, r, res.r)
     ELSE IF cse.copy # 0 THEN IterReplaceInsn(Queue(t, cse.later), r, cse.copy)
     ELSE Reshaped(Queue(t, cse.later), r, n)

---------------------------------------------------------------------------
(* ir_merge_blocks: a block with one successor that has one predecessor *)

MergeBlocks(t, begin) ==
  LET end == t.g.in[begin][1]
      prev == t.g.in[end][1]
      next == t.g.use[begin][1]
      h == Nops(t.g, {begin, end})
  IN QueueBlock([t EXCEPT !.g = UseMoves([h EXCEPT !.in[next][1] = prev], prev, end, next)], prev)

---------------------------------------------------------------------------
(* Diamonds: a branch all of whose blocks are empty and meet in merge m *)

Ctrl(h, r) == IF h.in[r] = << >> THEN 0 ELSE h.in[r][1]

Ends(h, m) == ToSet(h.in[m])
Starts(h, m) == {Ctrl(h, e) : e \in Ends(h, m)}
Roots(h, m) == {Ctrl(h, s) : s \in Starts(h, m)}
Root(h, m) == CHOOSE r \in Roots(h, m) : TRUE

JoinsOne(h, m) ==
  /\ \A e \in Ends(h, m) : h.op[e] = "END"
  /\ Cardinality(Roots(h, m)) = 1 /\ Root(h, m) > 0

EmptyDiamond(h, m) ==
  /\ JoinsOne(h, m)
  /\ LET n == Len(h.in[m])
     IN IF n = 2 THEN \/ h.op[Root(h, m)] = "IF"
                      \/ (h.op[Root(h, m)] = "SWITCH" /\ Len(h.use[Root(h, m)]) = 2)
        ELSE /\ \A s \in Starts(h, m) : h.op[s] \in {"CASE_VAL", "CASE_DEFAULT"}
             /\ Len(h.use[Root(h, m)]) = n

(* ir_remove_unused_vars for all its blocks *)
UnusedVars(h, m) ==
  {v \in UNION {ToSet(h.use[s]) : s \in Starts(h, m)} : h.op[v] = "VAR"}

(* The diamond is removed: its predecessor goes on with "next". *)
Collapsed(t, m, next) ==
  LET root == Root(t.g, m)
      prev == t.g.in[root][1]
      h == [t.g EXCEPT !.in[next][1] = prev]
      h1 == UseMoves(h, prev, root, next)
      gone == {root, m} \cup Starts(h, m) \cup Ends(h, m) \cup UnusedVars(h, m)
  IN QueueBlock([t EXCEPT !.g = Nops(h1, gone)], prev)

RemoveEmptyDiamond(t, m) ==
  LET root == Root(t.g, m)
      cond == t.g.in[root][2]
      next == t.g.use[m][1]
  IN Collapsed(UnuseDead(t, cond, root), m, next)

---------------------------------------------------------------------------
(* ir_optimize_phi: MIN, MAX, ABS or COND for a diamond with one PHI p *)

(* ir_fix_min_max_const: x <= c - 1 is x < c, x >= c + 1 is x > c *)
FixesConst(op, c1, c) ==
  CASE op = "LE" -> ConstVal(c1) = (ConstVal(c) - 1) % WIDTH
    [] op = "GE" -> ConstVal(c1) = (ConstVal(c) + 1) % WIDTH
    [] OTHER -> FALSE

Ordering == {"LT", "LE", "GT", "GE"}
Less == {"LT", "LE"}

(* The condition compares x, the one value of the PHI, with y, the other. *)
Selects(h, cond, x, y) ==
  LET c == h.in[cond]
  IN /\ h.op[cond] \in Ordering /\ x = c[1]
     /\ y = c[2] \/ (c[2] < 0 /\ y < 0 /\ FixesConst(h.op[cond], c[2], y))

(* x = -y, and the condition tells the sign of y; neg says whether x is    *)
(* taken when the condition holds.                                         *)
Negates(h, cond, x, y, neg) ==
  LET c == h.in[cond]
      less == h.op[cond] \in Less
  IN /\ h.op[cond] \in Ordering
     /\ x > 0 /\ h.op[x] = "NEG" /\ Len(h.use[x]) = 1 /\ h.in[x][1] = y
     /\ \/ c[1] = y /\ IsZero(c[2]) /\ less = neg
        \/ c[2] = y /\ IsZero(c[1]) /\ less # neg

(* The condition loses the branch that used it. *)
UnuseCond(h, cond, root, xs) ==
  IF Len(h.use[cond]) = 1
    THEN Nop(FoldLeft(LAMBDA q, x : UnuseBy(q, x, cond), h, xs), cond)
    ELSE UnuseBy(h, cond, root)

(* p becomes the smaller or the larger of x and y, compared by cond. *)
MinMaxPhi(t, m, p, cond, x, y, first, next) ==
  LET h == t.g
      other == IF Selects(h, cond, x, y) THEN y ELSE x
      small == IF h.op[cond] \in Less THEN h.in[cond][1] ELSE other
      ins == IF x > y THEN <<x, y>> ELSE <<y, x>>
      h1 == [h EXCEPT !.op[p] = IF small = (IF first THEN x ELSE y) THEN "MIN" ELSE "MAX",
                      !.in[p] = ins, !.in[cond][2] = other]
  IN Collapsed([t EXCEPT !.g = UnuseCond(h1, cond, Root(h, m), ins)], m, next)

(* p becomes the absolute value of x, which neg negates. *)
AbsPhi(t, m, p, cond, neg, x, next) ==
  LET h == t.g
      h1 == Nop(UnuseBy([h EXCEPT !.op[p] = "ABS", !.in[p] = <<x>>], x, neg), neg)
  IN Collapsed([t EXCEPT !.g = UnuseCond(h1, cond, Root(h, m), <<x>>)], m, next)

(* p chooses between x and y, both computed before the branch. *)
CondPhi(t, m, p, cond, x, y, first, next) ==
  LET ins == IF first THEN <<cond, x, y>> ELSE <<cond, y, x>>
      h == [t.g EXCEPT !.op[p] = "COND", !.in[p] = ins]
  IN Queue(Collapsed([t EXCEPT !.g = UseMoves(h, cond, Root(h, m), p)], m, next), {p})

OptimizePhi(t, m, p, next) ==
  LET h == t.g
      root == Root(h, m)
      cond == h.in[root][2]
      x == h.in[p][2]
      y == h.in[p][3]
      first == h.op[Ctrl(h, h.in[m][1])] = "IF_TRUE"
      neg == IF x > 0 /\ h.op[x] = "NEG" THEN x ELSE y
  IN IF ~JoinsOne(h, m) \/ h.op[root] # "IF" \/ cond <= 0 THEN t
     ELSE IF Selects(h, cond, x, y) \/ Selects(h, cond, y, x)
       THEN MinMaxPhi(t, m, p, cond, x, y, first, next)
     ELSE IF Negates(h, cond, x, y, first) \/ Negates(h, cond, y, x, ~first)
       THEN AbsPhi(t, m, p, cond, neg, IF neg = x THEN y ELSE x, next)
     ELSE IF x <= root /\ y <= root
       THEN CondPhi(t, m, p, cond, x, y, first, next)
     ELSE t

---------------------------------------------------------------------------
(* ir_try_split_if and ir_try_split_if_cmp: the branch r at the end of     *)
(* merge m tests PHI p of a constant and x.  c is its condition: p itself, *)
(* or a comparison of p with a constant.                                   *)

Branch(h, r, yes) ==
  CHOOSE u \in ToSet(h.use[r]) : h.op[u] = (IF yes THEN "IF_TRUE" ELSE "IF_FALSE")

(* Both operands are constants that take different branches: a goes to     *)
(* "there", b to "elsewhere".                                              *)
SeparateWays(t, gone, m, a, b, there, elsewhere) ==
  LET h == UseMoves(UseMoves(t.g, a, m, there), b, m, elsewhere)
  IN Queue([t EXCEPT !.g = [Nops(h, gone) EXCEPT !.op[there] = "BEGIN", !.in[there] = <<a>>,
                                                 !.op[elsewhere] = "BEGIN", !.in[elsewhere] = <<b>>]],
           {there, elsewhere})

(* Both operands are constants that take the same branch; the other one    *)
(* becomes unreachable.                                                    *)
SameWay(t, gone, m, a, b, there, elsewhere) ==
  LET h == UseMoves(UseMoves(t.g, a, m, there), b, m, there)
  IN Queue([t EXCEPT !.g = [Nops(h, gone) EXCEPT !.op[there] = "MERGE", !.in[there] = <<a, b>>,
                                                 !.op[elsewhere] = "BEGIN", !.in[elsewhere] = <<0>>]],
           {there})

(* Only a knows its way; b tests its own operand.  The merge turns into    *)
(* the block from b to "there", and the branch into its END.               *)
OneTest(t, m, r, p, c, x, a, b, there, elsewhere) ==
  LET h == t.g
      user == IF c = p THEN b ELSE c
      h1 == UseMoves(UnuseBy(UnuseBy(h, m, p), r, elsewhere), x, p, user)
      h2 == UseBy(UseMoves(IF c = p THEN h1 ELSE UseMoves(h1, c, r, b), a, m, there), b, elsewhere)
      h3 == Nop(IF c = p THEN h2 ELSE [h2 EXCEPT !.in[c][1] = x], p)
      h4 == [h3 EXCEPT !.op[b] = "IF", !.in[b] = <<h.in[b][1], IF c = p THEN x ELSE c>>,
                       !.op[m] = h.op[there], !.in[m] = <<b>>,
                       !.op[r] = "END", !.in[r] = <<m>>,
                       !.in[elsewhere] = <<b>>,
                       !.op[there] = "MERGE", !.in[there] = <<a, r>>]
  IN QueueBlock(Queue([t EXCEPT !.g = h4], {b, there}), h4.in[b][1])

(* Does the constant k make the condition c, which tests p, true? *)
Holds(h, c, p, k) ==
  IF c = p THEN ConstVal(k) # 0 ELSE Compare(h.op[c], ConstVal(k), ConstVal(h.in[c][2]))

MaySplit(h, m, r, p, c) ==
  /\ h.op[p] = "PHI" /\ Len(h.in[p]) = 3 /\ h.in[p][1] = m /\ h.in[r][1] = m
  /\ h.in[p][2] < 0 \/ h.in[p][3] < 0
  /\ \A e \in Ends(h, m) : h.op[e] = "END"
  /\ c # p => /\ h.op[c] \in Cmp /\ h.in[c][1] = p /\ h.in[c][2] < 0
              /\ Len(h.use[c]) = 1

SplitIf(t, m, r, p, c) ==
  LET h == t.g
      k == IF h.in[p][2] < 0 THEN 1 ELSE 2           \* the edge with the constant
      x == h.in[p][4 - k]
      a == h.in[m][k]
      b == h.in[m][3 - k]
      yes == Holds(h, c, p, h.in[p][k + 1])
      there == Branch(h, r, yes)
      elsewhere == Branch(h, r, ~yes)
      gone == {m, p, c, r}
  IN IF x > 0 THEN OneTest(t, m, r, p, c, x, a, b, there, elsewhere)
     ELSE IF Holds(h, c, p, x) # yes THEN SeparateWays(t, gone, m, a, b, there, elsewhere)
     ELSE SameWay(t, gone, m, a, b, there, elsewhere)

---------------------------------------------------------------------------
(* ir_iter_optimize_merge *)

OptimizeMerge(t, m) ==
  LET h == t.g
      uses == h.use[m]
      phis == SelectSeq(uses, LAMBDA u : h.op[u] = "PHI")
      p == phis[1]
      next == CHOOSE u \in ToSet(uses) : h.op[u] # "PHI"
      c == h.in[next][2]
  IN IF Len(uses) = 1 THEN IF EmptyDiamond(h, m) THEN RemoveEmptyDiamond(t, m) ELSE t
     ELSE IF Len(uses) # 2 \/ Len(h.in[m]) # 2 \/ Len(phis) # 1 THEN t
     ELSE IF h.op[next] = "IF" /\ Len(h.use[p]) = 1 /\ c > 0 /\ MaySplit(h, m, next, p, c)
       THEN SplitIf(t, m, next, p, c)
     ELSE OptimizePhi(t, m, p, next)

---------------------------------------------------------------------------
(* ir_check_dominating_predicates: what the branches and guards above      *)
(* "ref" say about the condition c                                         *)

RECURSIVE Dominating(_, _, _, _, _)
Dominating(h, ref, prev, c, limit) ==
  IF ref <= limit THEN c
  ELSE IF h.op[ref] \in Guard /\ h.in[ref][2] = c
    THEN Const(IF h.op[ref] = "GUARD" THEN 1 ELSE 0)
  ELSE IF h.op[ref] = "IF" /\ h.in[ref][2] = c /\ h.op[prev] \in {"IF_TRUE", "IF_FALSE"}
    THEN Const(IF h.op[prev] = "IF_TRUE" THEN 1 ELSE 0)
  ELSE IF h.op[ref] \in {"START", "MERGE", "LOOP_BEGIN"} THEN c
  ELSE Dominating(h, h.in[ref][1], ref, c, limit)

(* ir_iter_optimize_condition *)
Condition(h, control, cond) ==
  LET Is(x, ops) == x > 0 /\ h.op[x] \in ops
      negated == Is(cond, {"NOT"})
      c1 == IF negated THEN h.in[cond][1] ELSE cond
      zero == Is(c1, {"EQ", "NE"}) /\ IsZero(h.in[c1][2])
      one == Is(c1, {"EQ"}) /\ h.in[c1][2] = Const(1) /\ Is(h.in[c1][1], Cmp \cup {"NOT"})
      c2 == IF zero \/ one THEN h.in[c1][1] ELSE c1
  IN [cond |-> IF c2 > 0 /\ Len(h.use[c2]) > 1
                 THEN Dominating(h, control, 0, c2, IF c2 < control THEN c2 ELSE 1)
                 ELSE c2,
      swap |-> negated # (zero /\ h.op[c1] = "EQ")]

(* ir_iter_optimize_if *)
OptimizeIf(t, r) ==
  LET c == Condition(t.g, t.g.in[r][1], t.g.in[r][2])
      yes == Branch(t.g, r, ~c.swap)
      no == Branch(t.g, r, c.swap)
      h == [t.g EXCEPT !.op[yes] = "IF_TRUE", !.op[no] = "IF_FALSE"]
      old == h.in[r][2]
      stays == IF ConstVal(c.cond) # 0 THEN yes ELSE no
      cut == IF stays = yes THEN no ELSE yes
      h1 == [UnuseBy(UnuseBy(h, old, r), r, cut) EXCEPT
               !.op[r] = "END", !.in[r] = <<@[1]>>,
               !.op[yes] = "BEGIN", !.op[no] = "BEGIN", !.in[cut] = <<0>>]
  IN IF c.cond < 0 THEN Queue([t EXCEPT !.g = h1], {stays} \cup ({old} \cap Refs(h)))
     ELSE IF c.cond = old THEN [t EXCEPT !.g = h]
     ELSE IterUpdateOp([t EXCEPT !.g = h], r, 2, c.cond)

(* ir_next_control *)
NextControl(h, r) == CHOOSE u \in ControlUsers(h, r) : TRUE

(* A guard that always holds goes, and the snapshot made for it too. *)
RemoveGuard(t, r) ==
  LET next == NextControl(t.g, r)
      snap == t.g.in[r][1]
      own == t.g.op[snap] = "SNAPSHOT"
      prev == IF own THEN t.g.in[snap][1] ELSE snap
      h == UnuseBy(t.g, r, next)
      t1 == IF own
              THEN IterRemoveInsn([t EXCEPT !.g = UseMoves(UnuseBy(h, snap, r), prev, snap, next)], snap)
              ELSE [t EXCEPT !.g = UseMoves(h, prev, r, next)]
      t2 == [t1 EXCEPT !.g.in[next][1] = prev]
      t3 == UnuseDead(UnuseDead(t2, t.g.in[r][2], r), t.g.in[r][3], r)
  IN [t3 EXCEPT !.g = Nop(t3.g, r)]

(* ir_iter_optimize_guard *)
OptimizeGuard(t, r) ==
  LET c == Condition(t.g, t.g.in[r][1], t.g.in[r][2])
      op == IF ~c.swap THEN t.g.op[r] ELSE IF t.g.op[r] = "GUARD" THEN "GUARD_NOT" ELSE "GUARD"
      t1 == [t EXCEPT !.g.op[r] = op]
      true == ConstVal(c.cond) # 0
      cond == IF c.cond > 0 THEN c.cond ELSE Const(IF true THEN 1 ELSE 0)
  IN IF c.cond < 0 /\ true = (op = "GUARD") THEN RemoveGuard(t1, r)
     ELSE IF cond = t.g.in[r][2] THEN t1
     ELSE IterUpdateOp(t1, r, 2, cond)

---------------------------------------------------------------------------
(* ir_iter_opt *)

StartIter ==
  /\ pc = "done"
  /\ pc' = "iter" /\ cfg_reachable' = TRUE
  /\ UNCHANGED <<source, g, values, work, iter, mem2ssa, i>>

Take(r) == pc = "iter" /\ iter # {} /\ r = Min(iter)

Taken(r) == [g |-> g, w |-> iter \ {r}]

(* A block that lost its predecessor is not reachable any more. *)
CutOff(h) == \E r \in Refs(h) : h.op[r] = "BEGIN" /\ h.in[r] = <<0>>

Leaves(t) ==
  /\ g' = t.g /\ iter' = t.w
  /\ cfg_reachable' = (cfg_reachable /\ ~CutOff(t.g))
  /\ UNCHANGED <<source, values, work, mem2ssa, pc, i>>

IterDead(r) ==
  /\ Take(r) /\ g.op[r] \in Foldable /\ g.use[r] = << >>
  /\ Leaves(IterRemoveInsn(IF g.op[r] = "PHI" THEN Queue(Taken(r), {g.in[r][1]}) ELSE Taken(r), r))

IterFoldInsn(r) ==
  /\ Take(r) /\ g.op[r] \in Foldable \ {"PHI"} /\ g.use[r] # << >>
  /\ Leaves(IterFold(Taken(r), r))

IterBegin(r) ==
  /\ Take(r) /\ g.op[r] = "BEGIN" /\ IR_OPT_CFG
  /\ g.in[r][1] # 0 /\ Len(g.use[r]) = 1 /\ g.op[g.in[r][1]] = "END"
  /\ Leaves(MergeBlocks(Taken(r), r))

IterMerge(r) ==
  Take(r) /\ g.op[r] = "MERGE" /\ IR_OPT_CFG /\ Leaves(OptimizeMerge(Taken(r), r))

(* A load that nobody uses leaves the control chain. *)
IterDeadLoad(r) ==
  LET next == g.use[r][1]
      prev == g.in[r][1]
      h == UseMoves([g EXCEPT !.in[next][1] = prev, !.in[r][1] = 0], prev, r, next)
  IN /\ Take(r) /\ g.op[r] \in Load /\ Len(g.use[r]) = 1
     /\ Leaves(IterRemoveInsn([Taken(r) EXCEPT !.g = h], r))

IterIf(r) == Take(r) /\ g.op[r] = "IF" /\ Leaves(OptimizeIf(Taken(r), r))

IterGuard(r) == Take(r) /\ g.op[r] \in Guard /\ Leaves(OptimizeGuard(Taken(r), r))

(* Nothing is done for a PHI, for a load that is used, and for other       *)
(* control instructions.                                                   *)
IterOther(r) ==
  /\ Take(r)
  /\ \/ g.op[r] = "PHI" /\ g.use[r] # << >>
     \/ g.op[r] \in Load /\ Len(g.use[r]) # 1
     \/ g.op[r] = "BEGIN" /\ ~(IR_OPT_CFG /\ g.in[r][1] # 0 /\ Len(g.use[r]) = 1
                               /\ g.op[g.in[r][1]] = "END")
     \/ g.op[r] = "MERGE" /\ ~IR_OPT_CFG
     \/ g.op[r] \notin Foldable \cup Load \cup Guard \cup {"BEGIN", "MERGE", "IF"}
  /\ Leaves(Taken(r))

IterDone ==
  /\ pc = "iter" /\ iter = {}
  /\ pc' = "finished"
  /\ UNCHANGED <<source, g, values, work, iter, mem2ssa, i, cfg_reachable>>

IterOpt ==
  \E r \in iter :
    \/ IterDead(r)  \/ IterFoldInsn(r) \/ IterBegin(r) \/ IterMerge(r)
    \/ IterDeadLoad(r) \/ IterIf(r)    \/ IterGuard(r) \/ IterOther(r)

IterNext == StartIter \/ IterOpt \/ IterDone
===========================================================================
