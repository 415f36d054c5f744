---------------------------- MODULE SccpAnalysis ---------------------------
(***************************************************************************)
(* The analysis of sparse conditional constant and copy propagation        *)
(* (ir_sccp_analyze in ir_sccp.c), one action per kind of instruction      *)
(* taken from the worklist.                                                *)
(*                                                                         *)
(* values[i] is ir_sccp_val: op is TOP, CONST, COPY or BOTTOM for data,    *)
(* TOP, MERGE or BOTTOM for a merge, TOP, IF or BOTTOM for IF and SWITCH,  *)
(* TOP or BOTTOM for other control.  word is the union of copy,            *)
(* unfeasible_inputs, single_output and visited.  ring is the set of       *)
(* instructions on the circular list of equal values through i.            *)
(***************************************************************************)
EXTENDS Integers, Sequences, FiniteSets, FiniteSetsExt, Functions

(***************************************************************************)
(* Small sea-of-nodes graphs.                                              *)
(*                                                                         *)
(* A graph g has the instructions 1 .. n: g.op[i] is the operation,        *)
(* g.in[i] lists the operands, g.use[i] the users (ctx->use_lists), and    *)
(* g.terms is the list of terminators that starts at START.op1.  An        *)
(* operand is a positive reference, or a constant: a negative number, as   *)
(* in ir_base.  The first operand of an instruction of the control chain   *)
(* is its control input; that of PHI and PARAM is the region it belongs to.*)
(***************************************************************************)

CONSTANT WIDTH   \* values are 0 .. WIDTH - 1, arithmetic wraps around

Val == 0 .. WIDTH - 1

(* The reference of a constant and its value. *)
Const(c) == -(c + 1)
ConstVal(r) == -r - 1

---------------------------------------------------------------------------
(* Properties of operations (ir_op_flags) *)

Cmp == {"EQ", "NE", "LT", "GE", "LE", "GT"}
Binary == {"ADD", "SUB", "MIN", "MAX"} \cup Cmp
Unary == {"NEG", "NOT", "ABS"}
Foldable == {"NOP", "ADDR", "PHI", "COPY", "COND"} \cup Binary \cup Unary
Data == (Foldable \ {"NOP"}) \cup {"PARAM", "VAR"}
Merge == {"MERGE", "LOOP_BEGIN"}
BBStart == Merge \cup {"START", "BEGIN", "IF_TRUE", "IF_FALSE", "CASE_VAL", "CASE_DEFAULT"}
Load == {"LOAD"}
Terminator == {"RETURN"}

Refs(g) == DOMAIN g.op

---------------------------------------------------------------------------
(* Arithmetic *)

(* A value read as a signed integer *)
Signed(a) == IF 2 * a >= WIDTH THEN a - WIDTH ELSE a

Compare(op, a, b) ==
  CASE op = "EQ" -> a = b
    [] op = "NE" -> a # b
    [] op = "LT" -> Signed(a) < Signed(b)
    [] op = "GE" -> Signed(a) >= Signed(b)
    [] op = "LE" -> Signed(a) <= Signed(b)
    [] op = "GT" -> Signed(a) > Signed(b)

Arith(op, a, b) ==
  CASE op = "ADD" -> (a + b) % WIDTH
    [] op = "SUB" -> (a - b) % WIDTH
    [] op = "MIN" -> IF Signed(a) < Signed(b) THEN a ELSE b
    [] op = "MAX" -> IF Signed(a) < Signed(b) THEN b ELSE a
    [] op \in Cmp -> IF Compare(op, a, b) THEN 1 ELSE 0

Arith1(op, a) ==
  CASE op = "NEG" -> (-a) % WIDTH
    [] op = "NOT" -> IF a = 0 THEN 1 ELSE 0
    [] op = "ABS" -> IF Signed(a) < 0 THEN (-a) % WIDTH ELSE a

---------------------------------------------------------------------------

CONSTANT Programs   \* the graphs on which the pass may start, with IR_MEM2SSA_VARS

(* What ir_check asks of a graph, and what the builder and the assertions  *)
(* of the pass add: only a PHI uses a value that is computed later, and a  *)
(* branch is used by its targets.                                          *)
IrCheck(h) ==
  LET D == 1 .. Len(h.op)
      Operand(x) == IF x < 0 THEN ConstVal(x) \in Val ELSE x \in D /\ h.op[x] \in Data \cup Load
      Arity(o) == IF o \in Binary THEN 2 ELSE IF o = "COND" THEN 3 ELSE 1
  IN /\ Refs(h) = D /\ DOMAIN h.in = D /\ DOMAIN h.use = D
     /\ 1 \in D /\ h.op[1] = "START"
     /\ \A r \in D : /\ h.in[r] \in Seq(Int) /\ h.use[r] \in Seq(D)
                     /\ \A u \in Range(h.use[r]) : h.op[u] # "NOP"
                     /\ \A x \in Range(h.in[r]) : x > 0 => x \in D /\ h.op[x] # "NOP"
                     /\ h.op[r] # "PHI" => r \notin Range(h.in[r])
     /\ \A r \in D :
          /\ h.op[r] \in Foldable \ {"PHI", "NOP"} =>
               /\ Len(h.in[r]) = Arity(h.op[r])
               /\ \A x \in Range(h.in[r]) : Operand(x) /\ (x < r \/ h.op[x] = "PHI")
          /\ h.op[r] = "PHI" =>
               /\ h.in[r] # << >> /\ h.in[r][1] \in D /\ h.op[h.in[r][1]] \in Merge
               /\ Len(h.in[r]) = Len(h.in[h.in[r][1]]) + 1
               /\ \A k \in 2 .. Len(h.in[r]) : Operand(h.in[r][k])
          /\ h.op[r] \in Merge => \A x \in Range(h.in[r]) : x > 0
          /\ h.op[r] \notin Data \cup BBStart \cup {"NOP"} => h.in[r] # << >> /\ h.in[r][1] > 0
          /\ h.op[r] \in {"IF", "SWITCH"} =>
               /\ Len(h.in[r]) >= 2 /\ Operand(h.in[r][2])
               /\ \A u \in Range(h.use[r]) : h.op[u] \in BBStart \ (Merge \cup {"START", "BEGIN"})

ASSUME WidthAssumption == WIDTH \in Nat \ {0, 1}
ASSUME ProgramsAssumption == \A p \in Programs : IrCheck(p[1]) /\ p[2] \in BOOLEAN

VARIABLES source,        \* the graph the pass was given
          g,             \* ctx->ir_base and ctx->use_lists
          values, work,  \* _values and the bits of the SCCP worklist
          iter,          \* the bits of the worklist of iterative optimisations
          mem2ssa,       \* IR_MEM2SSA_VARS
          pc, i          \* phase, and the instruction transformed next

vars == <<source, g, values, work, iter, mem2ssa, pc, i>>

Top == [op |-> "TOP", word |-> 0, val |-> 0, ring |-> {}]

SccpInit ==
  /\ \E p \in Programs : source = p[1] /\ mem2ssa = p[2]
  /\ g = source
  /\ values = [r \in Refs(source) |-> Top]
  /\ work = {1} /\ iter = {}
  /\ pc = "analyze" /\ i = 1

---------------------------------------------------------------------------
(* Operations on the analysis state s = [v |-> values, w |-> worklist] *)

Reachable(v, r) == v[r].op # "TOP"

AddUses(s, r) == [s EXCEPT !.w = @ \cup {u \in Range(g.use[r]) : s.v[u].op # "BOTTOM"}]

(* ir_sccp_add_input for every operand in S that is still TOP; only the    *)
(* first visit queues it.                                                  *)
AddInputs(s, S) ==
  LET new == {r \in S : r > 0 /\ s.v[r].op = "TOP" /\ s.v[r].word = 0}
  IN [v |-> [r \in DOMAIN s.v |-> IF r \in new THEN [s.v[r] EXCEPT !.word = 1] ELSE s.v[r]],
      w |-> s.w \cup new]

Identity(v, r) ==
  LET follow[x \in DOMAIN v] == IF v[x].op = "COPY" THEN follow[v[x].word] ELSE x
  IN IF r > 0 THEN follow[r] ELSE r

SetRing(v, ring) == [r \in DOMAIN v |-> IF r \in ring THEN [v[r] EXCEPT !.ring = ring] ELSE v[r]]

(* dst becomes a copy of src and joins the circle of src's identity. *)
AddIdentity(v, src, dst) ==
  LET root == Identity(v, src)
      circle == IF v[root].word = root THEN v[root].ring ELSE {root}
  IN SetRing([v EXCEPT ![dst].op = "COPY", ![dst].word = src, ![root].word = root],
             circle \cup {dst})

Split_stay(s, ref) ==
  LET old == s.v[ref].ring \ {ref}
      v1 == [s.v EXCEPT ![ref].op = "BOTTOM", ![ref].word = ref]
      v2 == SetRing(SetRing(v1, {ref}), old)
      again == old \cup UNION {Range(g.use[m]) : m \in old}
  IN [v |-> v2, w |-> s.w \cup {m \in again : v2[m].op # "BOTTOM"}]

(* ref is a copy no longer.  What is still a copy of ref leaves the old    *)
(* circle with it, and all members of the old circle are analysed again.   *)
Split(s, ref) ==
  LET old == s.v[ref].ring \ {ref}
      v1 == [s.v EXCEPT ![ref].op = "BOTTOM", ![ref].word = ref]
      mine == {m \in old : Identity(v1, m) = ref}
      v2 == SetRing(SetRing(v1, mine \cup {ref}), old \ mine)
      again == old \cup UNION {Range(g.use[m]) : m \in old}
  IN [v |-> v2, w |-> s.w \cup {m \in again : v2[m].op # "BOTTOM"}]

MakeBottom(s, r) == [s EXCEPT !.v[r].op = "BOTTOM"]

MakeBottomEx_retry(s, r) ==
  LET q == Split(s, r) IN IF s.v[r].op = "COPY" THEN [q EXCEPT !.v[r].op = "TOP"] ELSE MakeBottom(s, r)

MakeBottomEx(s, r) == IF s.v[r].op = "COPY" THEN Split(s, r) ELSE MakeBottom(s, r)

MeetConst(s, r, c) ==
  IF s.v[r].op = "TOP" THEN [s EXCEPT !.v[r].op = "CONST", !.v[r].val = c]
  ELSE IF s.v[r].op = "CONST" /\ s.v[r].val = c THEN s
  ELSE MakeBottomEx(s, r)

MeetCopy(s, r, src) ==
  IF s.v[r].op # "COPY" THEN [s EXCEPT !.v = AddIdentity(s.v, src, r)]
  ELSE IF Identity(s.v, r) = Identity(s.v, src) THEN s
  ELSE Split(s, r)

Propagate_always(old, new, r) == AddUses(new, r)

(* The uses of r follow when its value has changed. *)
Propagate(old, new, r) == IF new.v[r] = old.v[r] THEN new ELSE AddUses(new, r)

---------------------------------------------------------------------------
(* Folding of one instruction: some of the rules of ir_fold.h, with the    *)
(* operands known to be constant.  A rule may look through an operand at   *)
(* the operands of that instruction.                                       *)

Known(v, r) == r < 0 \/ v[r].op = "CONST"
KnownVal(v, r) == IF r < 0 THEN ConstVal(r) ELSE v[r].val

Emit == [to |-> "emit", r |-> 0]
ToConst(c) == [to |-> "const", r |-> Const(c)]
ToCopy(r) == [to |-> "copy", r |-> r]

(* x + c, where x may be y + c1 *)
FoldAddConst(v, x, c) ==
  LET fold[y \in Refs(g)] ==
        [d \in Val |-> IF Known(v, y) THEN ToConst((KnownVal(v, y) + d) % WIDTH)
                       ELSE IF g.op[y] = "ADD" /\ g.in[y][1] > 0 /\ g.in[y][2] < 0
                         THEN fold[g.in[y][1]][(d + ConstVal(g.in[y][2])) % WIDTH]
                       ELSE IF d = 0 THEN ToCopy(y) ELSE Emit]
  IN fold[x][c]

(* The result of a comparison or an operation whose operands are the same *)
FoldSame(op, a) ==
  CASE op \in Cmp -> ToConst(IF op \in {"EQ", "GE", "LE"} THEN 1 ELSE 0)
    [] op \in {"MIN", "MAX"} -> ToCopy(a)
    [] op = "SUB" -> ToConst(0)
    [] OTHER -> Emit

FoldBinary(v, op, a, b) ==
  IF Known(v, a) /\ Known(v, b) THEN ToConst(Arith(op, KnownVal(v, a), KnownVal(v, b)))
  ELSE IF op = "ADD" /\ Known(v, b) THEN FoldAddConst(v, a, KnownVal(v, b))
  ELSE IF op = "ADD" /\ Known(v, a)
    THEN IF KnownVal(v, a) = 0 THEN ToCopy(b)
         ELSE IF a < b THEN FoldAddConst(v, b, KnownVal(v, a))
         ELSE Emit
  ELSE IF op = "SUB" /\ Known(v, b) THEN FoldAddConst(v, a, (-KnownVal(v, b)) % WIDTH)
  ELSE IF a = b THEN FoldSame(op, a)
  ELSE IF op = "SUB" /\ ~Known(v, a) /\ g.op[a] = "ADD"
    THEN IF g.in[a][1] = b THEN ToCopy(g.in[a][2])
         ELSE IF g.in[a][2] = b THEN ToCopy(g.in[a][1]) ELSE Emit
  ELSE Emit

Fold(v, op, ins) ==
  LET a == ins[1]
      b == ins[2]
  IN CASE op = "COPY" -> ToCopy(a)
       [] op \in Unary -> IF Known(v, a) THEN ToConst(Arith1(op, KnownVal(v, a)))
                          ELSE IF op # "ABS" /\ g.op[a] = op THEN ToCopy(g.in[a][1])
                          ELSE IF op = "ABS" /\ g.op[a] = "ABS" THEN ToCopy(a)
                          ELSE Emit
       [] op = "COND" -> IF Known(v, a) THEN ToCopy(ins[IF KnownVal(v, a) # 0 THEN 2 ELSE 3])
                         ELSE IF b = ins[3] THEN ToCopy(b) ELSE Emit
       [] op \in Binary -> FoldBinary(v, op, a, b)
       [] OTHER -> Emit

(* ir_sccp_fold *)
SccpFold(s, r) ==
  LET Opnd(k) == IF k \in DOMAIN g.in[r] THEN Identity(s.v, g.in[r][k]) ELSE 0
      res == Fold(s.v, g.op[r], <<Opnd(1), Opnd(2), Opnd(3)>>)
  IN IF res.to = "emit" THEN MakeBottomEx(s, r)
     ELSE IF Known(s.v, res.r) THEN MeetConst(s, r, KnownVal(s.v, res.r))
     ELSE MeetCopy(s, r, res.r)

---------------------------------------------------------------------------
(* ir_sccp_analyze_phi: what the operands on feasible edges agree on.  The *)
(* scan stops at the first disagreement.                                   *)

AnalyzePhi(s, p) ==
  LET v == s.v
      me == Identity(v, p)
      merge == g.in[p][1]
      ins == Tail(g.in[p])
      Live(k) == Reachable(v, g.in[merge][k]) /\ ins[k] # p
      Same(x) == IF Known(v, x) THEN <<"const", KnownVal(v, x)>> ELSE <<"copy", Identity(v, x)>>
      Says(k) == Live(k) /\ ~(ins[k] > 0 /\ (v[ins[k]].op = "TOP" \/ Identity(v, ins[k]) = me))
      say == {k \in DOMAIN ins : Says(k)}
      first == ins[Min(say)]
      clash == {k \in say : Same(ins[k]) # Same(first)}
      scanned == {k \in DOMAIN ins : Live(k) /\ \A c \in clash : k <= c}
      s1 == AddInputs(s, {ins[k] : k \in scanned})
  IN IF ~Reachable(v, merge) THEN s
     ELSE IF say = {} THEN s1
     ELSE IF clash # {} THEN MakeBottomEx(s1, p)
     ELSE IF Known(v, first) THEN MeetConst(s1, p, KnownVal(v, first))
     ELSE MeetCopy(s1, p, IF v[first].op = "COPY" THEN v[first].word ELSE first)

---------------------------------------------------------------------------
(* ir_sccp_analyze *)

Pop(r) == pc = "analyze" /\ work # {} /\ r = Min(work)

Rest(r) == [v |-> values, w |-> work \ {r}]

Becomes(s) == values' = s.v /\ work' = s.w /\ UNCHANGED <<source, g, mem2ssa, pc, i>>

Quiet(s) == Becomes(s) /\ UNCHANGED iter

IsData(r, ops) == g.op[r] \in ops /\ g.use[r] # << >>

AnalyzeDead(r) ==
  Pop(r) /\ g.op[r] \in Data /\ g.use[r] = << >> /\ Quiet(Rest(r))

AnalyzePhiInsn(r) ==
  /\ Pop(r) /\ IsData(r, {"PHI"})
  /\ Quiet(Propagate(Rest(r), AnalyzePhi(Rest(r), r), r))

(* Folding waits for operands that are TOP, and is tried only when an      *)
(* operand is about to be replaced.                                        *)
AnalyzeFoldable(r) ==
  LET ins == {x \in Range(g.in[r]) : x > 0}
      s == Rest(r)
  IN /\ Pop(r) /\ IsData(r, Foldable \ {"PHI"})
     /\ IF \E x \in ins : values[x].op = "TOP" THEN Quiet(AddInputs(s, ins))
        ELSE IF values[r].op # "TOP" \/ g.op[r] = "COPY" \/ \E x \in ins : values[x].op # "BOTTOM"
          THEN Quiet(Propagate(s, SccpFold(s, r), r))
          ELSE Quiet(AddUses(MakeBottomEx(s, r), r))

AnalyzeParam(r) ==
  /\ Pop(r) /\ IsData(r, Data \ Foldable)
  /\ Quiet(AddUses(AddInputs(MakeBottomEx(Rest(r), r), Range(g.in[r])), r))

(* After mem2ssa the PHIs of a merge are analysed with it, because they    *)
(* were added behind all other instructions.                               *)
PhiNow(s, u) ==
  LET rest == [s EXCEPT !.w = @ \ {u}]
  IN IF s.v[u].op = "BOTTOM" THEN s
     ELSE IF g.op[u] # "PHI" THEN [s EXCEPT !.w = @ \cup {u}]
     ELSE IF g.use[u] = << >> THEN rest
     ELSE Propagate(rest, AnalyzePhi(rest, u), u)

PhisNow(s, r) ==
  LET after[k \in 0 .. Len(g.use[r])] ==
        IF k = 0 THEN s ELSE PhiNow(after[k - 1], g.use[r][k])
  IN after[Len(g.use[r])]

AnalyzeMerge(r) ==
  LET s == Rest(r)
      lost == Cardinality({k \in DOMAIN g.in[r] : ~Reachable(values, g.in[r][k])})
      s1 == IF lost = 0 THEN MakeBottom(s, r)
            ELSE [s EXCEPT !.v[r].op = "MERGE", !.v[r].word = lost]
  IN /\ Pop(r) /\ g.op[r] \in Merge
     /\ iter' = iter \cup {r}
     /\ IF s1 = s THEN Becomes(s)
        ELSE IF mem2ssa THEN Becomes(PhisNow(s1, r))
        ELSE Becomes(AddUses(s1, r))

AnalyzeBlockStart(r) ==
  /\ Pop(r) /\ g.op[r] \in BBStart \ Merge
  /\ iter' = IF g.op[r] = "BEGIN" THEN iter \cup {r} ELSE iter
  /\ Becomes(AddUses(MakeBottom(Rest(r), r), r))

Controlled(r) == Pop(r) /\ g.op[r] \notin Data \cup BBStart

AnalyzeUnreachable(r) ==
  Controlled(r) /\ ~Reachable(values, g.in[r][1]) /\ Quiet(Rest(r))

OutputFor_nobreak(r, c) ==
  LET out == Range(g.use[r])
      taken == IF g.op[r] = "IF" THEN {u \in out : (g.op[u] = "IF_TRUE") = (c # 0)}
               ELSE {u \in out : g.op[u] = "CASE_DEFAULT"}
  IN CHOOSE u \in taken : TRUE

(* The output of IF or SWITCH r when its condition is c; 0 for none. *)
OutputFor(r, c) ==
  LET out == Range(g.use[r])
      case == {u \in out : g.op[u] = "CASE_VAL" /\ ConstVal(g.in[u][2]) = c}
      taken == IF g.op[r] = "IF"
                 THEN {u \in out : (g.op[u] = "IF_TRUE") = (c # 0)}
               ELSE IF case # {} THEN case
               ELSE {u \in out : g.op[u] = "CASE_DEFAULT"}
  IN IF taken = {} THEN 0 ELSE CHOOSE u \in taken : TRUE

AnalyzeSplit(r) ==
  LET s == Rest(r)
      c == g.in[r][2]
      out == IF Known(values, c) THEN OutputFor(r, KnownVal(values, c)) ELSE 0
  IN /\ Controlled(r) /\ Reachable(values, g.in[r][1])
     /\ g.op[r] \in {"IF", "SWITCH"}
     /\ IF c > 0 /\ values[c].op = "TOP" THEN Quiet(AddInputs(s, {c}))
        ELSE IF out # 0 /\ values[r].op = "TOP"
          THEN Quiet([v |-> [values EXCEPT ![r].op = "IF", ![r].word = out], w |-> s.w \cup {out}])
        ELSE IF out # 0 /\ (IF g.op[r] = "IF" THEN values[r].op = "IF" /\ values[r].word = out
                            ELSE values[r].op = "IF" \/ values[r].word = out)
          THEN Quiet(s)
        ELSE /\ iter' = IF g.op[r] = "IF" THEN iter \cup {r} ELSE iter
             /\ Becomes(AddUses(MakeBottom(s, r), r))

AnalyzeControl(r) ==
  LET s == Rest(r)
      dead == g.op[r] \in Load /\ Len(g.use[r]) = 1
  IN /\ Controlled(r) /\ Reachable(values, g.in[r][1])
     /\ g.op[r] \notin {"IF", "SWITCH"}
     /\ iter' = IF dead THEN iter \cup {r} ELSE iter
     /\ Becomes(AddUses(MakeBottom(IF dead THEN s ELSE AddInputs(s, Range(Tail(g.in[r]))), r), r))

Analyzed ==
  /\ pc = "analyze" /\ work = {}
  /\ pc' = "transform"
  /\ UNCHANGED <<source, g, values, work, iter, mem2ssa, i>>

Analyze ==
  \E r \in work :
    \/ AnalyzeDead(r)       \/ AnalyzePhiInsn(r)     \/ AnalyzeFoldable(r) \/ AnalyzeParam(r)
    \/ AnalyzeMerge(r)      \/ AnalyzeBlockStart(r)  \/ AnalyzeUnreachable(r)
    \/ AnalyzeSplit(r)      \/ AnalyzeControl(r)

---------------------------------------------------------------------------
(* The circular list of a copy holds exactly its identity and everything   *)
(* else that is a copy of the same identity, and the identity is BOTTOM:   *)
(* however lists were merged and split, no copy is missed when its         *)
(* identity stops holding.                                                 *)
RingsMatchIdentities ==
  \A r \in DOMAIN values :
    values[r].op = "COPY" =>
      LET root == Identity(values, r)
      IN /\ values[root].op = "BOTTOM"
         /\ values[r].ring = {root} \cup {m \in DOMAIN values : values[m].op = "COPY" /\ Identity(values, m) = root}
         /\ values[root].ring = values[r].ring

(* Facts are only ever weakened: an instruction never becomes unreachable  *)
(* again, a constant never becomes another constant, and BOTTOM is final.  *)
Rank(op) == CASE op = "TOP" -> 3 [] op \in {"CONST", "IF", "MERGE"} -> 2
              [] op = "COPY" -> 1 [] op = "BOTTOM" -> 0
OnlyWeakened ==
  [][\A r \in DOMAIN values :
       /\ Rank(values'[r].op) <= Rank(values[r].op)
       /\ values[r].op = "CONST" /\ values'[r].op = "CONST" => values'[r].val = values[r].val
       /\ values[r].op = "MERGE" /\ values'[r].op = "MERGE" => values'[r].word <= values[r].word]_vars
===========================================================================
