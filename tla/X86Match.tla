------------------------------ MODULE X86Match ------------------------------
(***************************************************************************)
(* Instruction selection of the x86-64 back-end (ir_x86.dasc, ir_match in  *)
(* ir_emit.c), for integer code of 1, 4 and 8 bytes.                       *)
(*                                                                         *)
(* A scheduled function s is                                               *)
(*   insn   its instructions; a reference is a position of this sequence,  *)
(*          a negative one is a constant, 0 is no operand                  *)
(*   con    its constants: type and value (the content of the cell)        *)
(*   start  the first instruction of the block of every instruction        *)
(*   stack  the parameters that the calling convention passes in memory    *)
(*   rules  the rule of every instruction, the empty name for none yet     *)
(*   bb     bb_start, the beginning of the block that is being matched     *)
(* Left out: symbols, floating point, 2-byte types, and the hints          *)
(* IR_MAY_SWAP and IR_MAY_REUSE to the coalescing of registers.            *)
(***************************************************************************)
EXTENDS X86Machine

Rule(n, f) == [n |-> n, f |-> f]
NoRule     == Rule("", {})
Fused      == {"FUSED", "SIMPLE"}

Set(s, ref, n)      == [s EXCEPT !.rules[ref] = Rule(n, {})]
SetF(s, ref, n, f)  == [s EXCEPT !.rules[ref] = Rule(n, f)]

IsConst(r)   == r < 0
Val(s, r)    == s.con[-r].v
TypeOf(s, r) == IF IsConst(r) THEN s.con[-r].t ELSE s.insn[r].t
OpOf(s, r)   == IF r > 0 THEN s.insn[r].op ELSE ""

Operands(q)    == <<q.op1, q.op2, q.op3>>
Users(s, r)    == {u \in DOMAIN s.insn : \E k \in 1 .. 3 : Operands(s.insn[u])[k] = r}
UseCount(s, r) == Cardinality({e \in (DOMAIN s.insn) \X (1 .. 3) : Operands(s.insn[e[1]])[e[2]] = r})

IsSigned32(n)  == -2^(Bits32 - 1) <= n /\ n < 2^(Bits32 - 1)
IsPowerOf2(v)  == v \in {2^k : k \in 0 .. Bits64 - 1}
Complement(v)  == 2^Bits64 - 1 - v

Commutative(op) == op \in {"EQ", "NE", "ADD", "MUL", "ADD_OV", "MUL_OV", "OR", "AND", "XOR", "MIN", "MAX"}

(* op ^= 3 and op ^= 1: the comparison of the swapped operands, and its negation *)
Swapped == [op \in Comparisons |->
              CASE op = "LT" -> "GT" [] op = "GT" -> "LT" [] op = "GE" -> "LE" [] op = "LE" -> "GE"
                [] op = "ULT" -> "UGT" [] op = "UGT" -> "ULT" [] op = "UGE" -> "ULE" [] op = "ULE" -> "UGE"
                [] OTHER -> op]
Negated == [op \in Comparisons |->
              CASE op = "EQ" -> "NE" [] op = "NE" -> "EQ" [] op = "LT" -> "GE" [] op = "GE" -> "LT"
                [] op = "LE" -> "GT" [] op = "GT" -> "LE" [] op = "ULT" -> "UGE" [] op = "UGE" -> "ULT"
                [] op = "ULE" -> "UGT" [] op = "UGT" -> "ULE"]

MayFuseAddr(s, r) == IsSigned32(I64(Val(s, r)))
MayFuseImm(s, r)  == Size[TypeOf(s, r)] <= 4 \/ IsSigned32(I64(Val(s, r)))

InSameBlock(s, r) == r > s.bb

SwapOps(s, ref) == [s EXCEPT !.insn[ref].op1 = s.insn[ref].op2, !.insn[ref].op2 = s.insn[ref].op1]

RECURSIVE Match(_, _)

Matched(s, r) == IF s.rules[r] = NoRule THEN Match(s, r) ELSE s

---------------------------------------------------------------------------
(* Fusion of loads and addresses *)

(* a mutant: a load moves past every store *)
NoMemDeps(s, ref, root) == FALSE

(* a STORE or CALL between the load and the root of the fusion *)
HasMemDeps(s, ref, root) == \E p \in ref + 1 .. root - 1 : s.insn[p].op \in {"STORE", "VSTORE", "CALL"}

FusableLoad(s, ref, root) ==
  /\ InSameBlock(s, ref)
  /\ s.insn[ref].op \in {"LOAD", "VLOAD"}
  /\ UseCount(s, ref) = 2
  /\ ~ HasMemDeps(s, ref, root)
  /\ IsConst(s.insn[ref].op2) => MayFuseAddr(s, s.insn[ref].op2)

Leas == {"LEA_OB", "LEA_SI", "LEA_SIB", "LEA_IB", "LEA_OB_I", "LEA_I_OB", "LEA_SI_O", "LEA_SIB_O",
         "LEA_IB_O", "LEA_OB_SI", "LEA_SI_OB", "LEA_B_SI", "LEA_SI_B", "LEA_B_SI_O", "LEA_SI_B_O"}

(* what a try reports: the load is fused, or the operand is in memory anyway *)
TryFuse(s, ref, root) ==
  \/ FusableLoad(s, ref, root)
  \/ /\ ~ (InSameBlock(s, ref) /\ OpOf(s, ref) \in {"LOAD", "VLOAD"})
     /\ OpOf(s, ref) = "PARAM" /\ UseCount(s, ref) = 1 /\ ref \in s.stack

RECURSIVE FuseAddr(_, _)

FuseLoad(s, ref, root) ==
  IF ~ FusableLoad(s, ref, root) THEN s
  ELSE FuseAddr(SetF(s, ref, "LOAD", Fused), s.insn[ref].op2)

(* An addition that becomes a LEA is taken back to an ADD when one of its  *)
(* operands is a load that can be fused.                                   *)
Reverts(s, ref) == LET q == s.insn[ref] IN q.op1 # q.op2 /\ (TryFuse(s, q.op2, ref) \/ TryFuse(s, q.op1, ref))

RevertLeaToAdd(s, ref) ==
  LET q == s.insn[ref]
  IN CASE ~ Reverts(s, ref) -> s
       [] Reverts(s, ref) /\ TryFuse(s, q.op2, ref) -> Set(FuseLoad(s, q.op2, ref), ref, "BINOP_INT")
       [] OTHER -> Set(SwapOps(FuseLoad(s, q.op1, ref), ref), ref, "BINOP_INT")

(* An address computed by a LEA is folded into the memory operand; if it   *)
(* has more uses, all of them must be loads from it or stores to it.       *)
FoldAddr(s, addr) ==
  LET r == s.rules[addr]
      access(q) == q.op = "LOAD" \/ (q.op = "STORE" /\ q.op3 # addr)
  IN CASE ~ (r.n \in Leas /\ r.f = {}) -> s
       [] r = Rule("LEA_IB", {}) /\ Reverts(s, addr) -> RevertLeaToAdd(s, addr)
       [] OTHER -> IF UseCount(s, addr) > 1 /\ \E u \in Users(s, addr) : ~ access(s.insn[u]) THEN s
                   ELSE SetF(s, addr, r.n, Fused)

FuseAddr(s, addr) == IF IsConst(addr) THEN s ELSE FoldAddr(Matched(s, addr), addr)

FuseLoadCommutative(s, ref, root) ==
  LET q == s.insn[ref]
  IN CASE IsConst(q.op2) /\ MayFuseImm(s, q.op2) -> s
       [] ~ (IsConst(q.op2) /\ MayFuseImm(s, q.op2)) /\ TryFuse(s, q.op2, root) -> FuseLoad(s, q.op2, root)
       [] OTHER -> IF TryFuse(s, q.op1, root) THEN SwapOps(FuseLoad(s, q.op1, root), ref) ELSE s

FuseLoadTest(s, ref, root) ==
  LET q == s.insn[ref]
  IN CASE IsConst(q.op2) /\ MayFuseImm(s, q.op2) -> FuseLoad(s, q.op1, root)
       [] ~ (IsConst(q.op2) /\ MayFuseImm(s, q.op2)) /\ TryFuse(s, q.op2, root) -> FuseLoad(s, q.op2, root)
       [] OTHER -> IF TryFuse(s, q.op1, root) THEN SwapOps(FuseLoad(s, q.op1, root), ref) ELSE s

(* as for a test, and the comparison follows the swap *)
CompareSwapped(s, t, ref) ==
  IF t.insn[ref].op1 = s.insn[ref].op1 THEN t ELSE [t EXCEPT !.insn[ref].op = Swapped[@]]

FuseLoadCmp(s, ref, root) == CompareSwapped(s, FuseLoadTest(s, ref, root), ref)

---------------------------------------------------------------------------
(* Additions as addresses *)

MayFuseSI(s, ref, use) ==
  LET q == s.insn[use]
  IN /\ q.op = "ADD"
     /\ \/ q.op1 = ref /\ (IF IsConst(q.op2) THEN IsSigned32(I64(Val(s, q.op2))) ELSE q.op2 # ref)
        \/ q.op1 # ref /\ q.op2 = ref

Scaled(s, ref) == LET q == s.insn[ref] IN q.op = "MUL" /\ IsConst(q.op2) /\ Val(s, q.op2) \in {2, 4, 8}

(* The operand of an addition as a part of an address: it may be when this *)
(* is its only use, or when it is a scaled index in all of its uses.       *)
LonePart(s, x) == [ok |-> UseCount(s, x) = 1, s |-> IF UseCount(s, x) = 1 THEN Matched(s, x) ELSE s]

AddressPart(s, x) ==
  LET marked == s.rules[x] = NoRule /\ Scaled(s, x)
      all    == \/ s.rules[x] = Rule("LEA_SI", Fused)
                \/ marked /\ \A u \in Users(s, x) : MayFuseSI(s, x, u)
  IN IF UseCount(s, x) = 1 THEN LonePart(s, x)
     ELSE LET t == IF marked THEN Set(s, x, "LEA_SI") ELSE s
          IN [ok |-> all, s |-> IF all THEN Matched(t, x) ELSE t]

IsLea(s, x, n) == s.rules[x] \in {Rule(n, {}), Rule(n, Fused)}
Fuse(s, x)     == [s EXCEPT !.rules[x].f = Fused]

WithOffset == [n \in {"LEA_SI", "LEA_SIB", "LEA_IB", "LEA_B_SI", "LEA_SI_B"} |->
                 CASE n = "LEA_SI" -> "LEA_SI_O" [] n = "LEA_SIB" -> "LEA_SIB_O" [] n = "LEA_IB" -> "LEA_IB_O"
                   [] n = "LEA_B_SI" -> "LEA_B_SI_O" [] n = "LEA_SI_B" -> "LEA_SI_B_O"]
AfterOffset == [n \in {"LEA_SI"} |-> "LEA_OB_SI"]
AfterIndex  == [n \in {"LEA_OB"} |-> "LEA_SI_OB"]
AfterBase   == [n \in {"LEA_OB", "LEA_SI"} |-> IF n = "LEA_OB" THEN "LEA_I_OB" ELSE "LEA_B_SI"]

(* ref becomes the address named by the part x that it absorbs, if x is one *)
(* of those in names, and otherwise the plain address                      *)
Absorb(p, ref, x, names, plain) ==
  IF p.ok /\ \E n \in DOMAIN names : IsLea(p.s, x, n)
  THEN Set(Fuse(p.s, x), ref, names[p.s.rules[x].n])
  ELSE Set(p.s, ref, plain)

LeaOffset(s, ref) == Absorb(AddressPart(s, s.insn[ref].op1), ref, s.insn[ref].op1, WithOffset, "LEA_OB")

(* the operands x and y of ref, of which x was examined as a part, p *)
SumOfParts(p, ref, x, y) ==
  CASE p.ok /\ p.s.rules[x] = Rule("LEA_OB", {}) ->
         Absorb(AddressPart(Fuse(p.s, x), y), ref, y, AfterOffset, "LEA_OB_I")
    [] p.ok /\ IsLea(p.s, x, "LEA_SI") ->
         Absorb(LonePart(Fuse(p.s, x), y), ref, y, AfterIndex, "LEA_SI_B")
    [] OTHER -> Absorb(AddressPart(p.s, y), ref, y, AfterBase, "LEA_IB")

LeaPair(s, ref) ==
  LET x == s.insn[ref].op1
      y == s.insn[ref].op2
  IN IF x = y THEN Set(s, ref, "LEA_IB") ELSE SumOfParts(AddressPart(s, x), ref, x, y)

---------------------------------------------------------------------------
(* Arithmetic *)

MatchBinop(s, ref) ==
  IF Commutative(s.insn[ref].op) THEN Set(FuseLoadCommutative(s, ref, ref), ref, "BINOP_INT")
  ELSE Set(FuseLoad(s, s.insn[ref].op2, ref), ref, "BINOP_INT")

MatchAdd(s, ref) ==
  LET q == s.insn[ref]
      n == I64(Val(s, q.op2))
      k == IF q.op = "ADD" THEN n ELSE -n
  IN CASE IsConst(q.op2) /\ n # 0 /\ Size[q.t] >= 4 /\ IsSigned32(k) /\ IsSigned32(n) -> LeaOffset(s, ref)
       [] IsConst(q.op2) /\ n # 0 /\ Size[q.t] < 4 /\ k \in {1, -1} -> Set(s, ref, IF k = 1 THEN "INC" ELSE "DEC")
       [] ~ IsConst(q.op2) /\ q.op = "ADD" /\ Size[q.t] >= 4 -> LeaPair(s, ref)
       [] OTHER -> MatchBinop(s, ref)

MatchMul(s, ref) ==
  LET q == s.insn[ref]
      v == Val(s, q.op2)
      c == IsConst(q.op2) /\ v \notin {0, 1}
      a == Size[q.t] >= 4
  IN CASE c /\ a /\ v \in {2, 4, 8} -> Set(s, ref, "LEA_SI")
       [] c /\ a /\ v \in {3, 5, 9} -> Set(s, ref, "LEA_SIB")
       [] c /\ ~ (a /\ v \in {2, 4, 8}) /\ IsPowerOf2(v) -> Set(s, ref, "MUL_PWR2")
       [] c /\ ~ (a /\ v \in {3, 5, 9}) /\ ~ IsPowerOf2(v) /\ q.t \in Signed /\ a /\ IsSigned32(I64(v)) ->
            Set(FuseLoad(s, q.op1, ref), ref, "IMUL3")
       [] OTHER -> IF a THEN MatchBinop(s, ref) ELSE Set(FuseLoad(s, q.op2, ref), ref, "MUL_INT")

MatchMulOv(s, ref) ==
  LET q == s.insn[ref]
      two == q.t \in Signed /\ Size[q.t] # 1
      imm == IsConst(q.op2) /\ IsSigned32(I64(Val(s, q.op2)))
  IN CASE two /\ imm -> Set(FuseLoad(s, q.op1, ref), ref, "IMUL3")
       [] two /\ ~ imm -> MatchBinop(s, ref)
       [] OTHER -> Set(FuseLoad(s, q.op2, ref), ref, "MUL_INT")

MatchDiv(s, ref) ==
  LET q == s.insn[ref]
  IN IF IsConst(q.op2) /\ Val(s, q.op2) # 1 /\ IsPowerOf2(Val(s, q.op2))
     THEN Set(s, ref, IF q.t \in Unsigned THEN "DIV_PWR2" ELSE "SDIV_PWR2")
     ELSE Set(FuseLoad(s, q.op2, ref), ref, "DIV_INT")

MatchMod(s, ref) ==
  LET q == s.insn[ref]
  IN IF IsConst(q.op2) /\ IsPowerOf2(Val(s, q.op2))
     THEN Set(s, ref, IF q.t \in Unsigned THEN "MOD_PWR2" ELSE "SMOD_PWR2")
     ELSE Set(FuseLoad(s, q.op2, ref), ref, "MOD_INT")

MatchNot(s, ref) ==
  LET q == s.insn[ref]
  IN Set(s, ref, CASE q.t # "BOOL" -> "OP_INT"
                   [] q.t = "BOOL" /\ TypeOf(s, q.op1) = "BOOL" -> "BOOL_NOT"
                   [] OTHER -> "BOOL_NOT_INT")

(* a 64-bit constant with a single bit beyond the reach of an immediate *)
LoneBit(t, v) == Size[t] = 8 /\ ~ IsSigned32(I64(v)) /\ IsPowerOf2(v)

MatchOr(s, ref) ==
  LET q == s.insn[ref]
  IN IF IsConst(q.op2) /\ LoneBit(q.t, Val(s, q.op2)) THEN Set(s, ref, "BIT_OP") ELSE MatchBinop(s, ref)

MatchAnd(s, ref) ==
  LET q == s.insn[ref]
      v == Val(s, q.op2)
  IN CASE IsConst(q.op2) /\ I64(v) \notin {0, -1} /\ Size[q.t] = 8 /\ ~ IsSigned32(I64(v))
            /\ IsPowerOf2(Complement(v)) -> Set(s, ref, "BIT_OP")
       [] IsConst(q.op2) /\ v \in {2^Bits8 - 1, 2^Bits32 - 1} -> Set(s, ref, "AND_ZEXT")
       [] OTHER -> MatchBinop(s, ref)

MatchShift(s, ref) == Set(s, ref, IF IsConst(s.insn[ref].op2) THEN "SHIFT_CONST" ELSE "SHIFT")

---------------------------------------------------------------------------
(* Comparisons *)

(* a mutant: ADD and SUB leave the flags that a comparison with 0 would *)
SetsFlagsForAny(op, cmp) == op \in {"OR", "AND", "XOR", "ADD", "SUB"}

(* v = BINOP(_, _) leaves in Z and S what the comparison of v with 0 tests *)
SetsFlagsFor(op, cmp) == op \in {"OR", "AND", "XOR"} \/ (op \in {"ADD", "SUB"} /\ cmp \in {"EQ", "NE", "LT", "GE"})

ComparesZero(s, c) == LET q == s.insn[c] IN IsConst(q.op2) /\ Val(s, q.op2) = 0

(* the fused test of AND(_, _) and the form of its root *)
FuseTest(s, v, ref, int, bit) ==
  LET q == s.insn[v]
      b == IsConst(q.op2) /\ LoneBit(q.t, Val(s, q.op2))
  IN Set(SetF(s, v, IF b THEN "TEST_BIT" ELSE "TEST_INT", {"FUSED"}), ref, IF b THEN bit ELSE int)

BinopForFlags(s, v, root, fuse) ==
  LET t == CASE ~ fuse -> s
             [] fuse /\ Commutative(s.insn[v].op) -> FuseLoadCommutative(s, v, root)
             [] OTHER -> FuseLoad(s, s.insn[v].op2, root)
  IN Set(t, v, "BINOP_INT")

MatchCompare(s, ref) ==
  LET q == s.insn[ref]
      v == q.op1
      prev == ComparesZero(s, ref) /\ v = ref - 1
  IN CASE prev /\ s.insn[v].op = "AND" /\ UseCount(s, v) = 1 ->
            FuseTest(FuseLoadTest(s, v, ref), v, ref, "TESTCC_INT", "TESTCC_BIT")
       [] prev /\ ~ (s.insn[v].op = "AND" /\ UseCount(s, v) = 1) /\ SetsFlagsFor(s.insn[v].op, q.op) ->
            Set(BinopForFlags(s, v, ref, TRUE), ref, "SETCC_INT")
       [] OTHER -> Set(FuseLoadCmp(s, ref, ref), ref, "CMP_INT")

---------------------------------------------------------------------------
(* Stores that modify a location in place *)

(* v = OP(LOAD(a), _) ... STORE(a, v): the number of the operand that is the load, or 0 *)
InPlace(s, st, load_op) ==
  LET w == s.insn[st]
      v == s.insn[w.op3]
      loaded(l) == w.op1 = l /\ OpOf(s, l) = load_op /\ s.insn[l].op2 = w.op2 /\ UseCount(s, l) = 2
  IN CASE loaded(v.op1) -> 1
       [] ~ loaded(v.op1) /\ Commutative(v.op) /\ loaded(v.op2) -> 2
       [] OTHER -> 0

MemRules == [n \in {"INC", "DEC", "MUL_PWR2", "DIV_PWR2", "MOD_PWR2", "SHIFT_CONST", "OP_INT"} |->
               CASE n = "INC" -> "MEM_INC" [] n = "DEC" -> "MEM_DEC" [] n = "MUL_PWR2" -> "MEM_MUL_PWR2"
                 [] n = "DIV_PWR2" -> "MEM_DIV_PWR2" [] n = "MOD_PWR2" -> "MEM_MOD_PWR2"
                 [] n = "SHIFT_CONST" -> "MEM_SHIFT_CONST" [] n = "OP_INT" -> "MEM_OP_INT"]

(* A load fused into the operation is a load of its own again, for the     *)
(* location itself becomes the memory operand.                             *)
MemBinop(s, st, load_op, k) ==
  LET v == s.insn[st].op3
      t == IF k = 2 THEN SwapOps(s, v) ELSE s
      q == t.insn[v]
      u == SetF(SetF(t, v, "BINOP_INT", {"FUSED"}), q.op1, load_op, {"SKIPPED"})
  IN Set(IF k = 1 /\ ~ IsConst(q.op2) /\ u.rules[q.op2] = Rule("LOAD", Fused) THEN Set(u, q.op2, "LOAD_INT") ELSE u,
         st, "MEM_BINOP_INT")

OwnValue(s, v) ==
  InSameBlock(s, v) /\ (UseCount(s, v) = 1 \/ (UseCount(s, v) = 2 /\ s.insn[v].op \in {"ADD_OV", "SUB_OV"}))

MatchStoreOf(s, st, own, store_rule, load_op) ==
  LET v == s.insn[st].op3
      r == s.rules[v]
      k == InPlace(s, st, load_op)
      l == s.insn[v].op1
      skip(n, f, to) == Set(SetF(SetF(s, v, n, f), l, load_op, {"SKIPPED"}), st, to)
  IN CASE own /\ k # 0 /\ ((r.n = "BINOP_INT" /\ s.insn[v].op # "MUL") \/ r \in {Rule("LEA_OB", {}), Rule("LEA_IB", {})}) ->
            MemBinop(s, st, load_op, k)
       [] own /\ k = 1 /\ r.f = {} /\ r.n \in DOMAIN MemRules -> skip(r.n, {"SKIPPED"}, MemRules[r.n])
       [] own /\ k = 1 /\ r = Rule("SHIFT", {}) -> skip("SHIFT", {"FUSED"}, "MEM_SHIFT")
       [] own /\ r = Rule("CMP_INT", {}) /\ load_op = "LOAD" ->
            Set(SetF(s, v, "CMP_INT", {"FUSED"}), st, "CMP_AND_STORE_INT")
       [] OTHER -> Set(s, st, store_rule)

MatchStoreInt(s, st, store_rule, load_op) ==
  LET v == s.insn[st].op3
  IN MatchStoreOf(IF OwnValue(s, v) THEN Matched(s, v) ELSE s, st, OwnValue(s, v), store_rule, load_op)

MatchStore(s, ref)  == MatchStoreInt(FuseAddr(s, s.insn[ref].op2), ref, "STORE_INT", "LOAD")
MatchVstore(s, ref) == MatchStoreInt(s, ref, "VSTORE_INT", "VLOAD")
MatchLoad(s, ref)   == Set(FuseAddr(s, s.insn[ref].op2), ref, "LOAD_INT")

(* the same before a branch on the stored value v: STORE st modifies in place *)
ModifiedLoad(s, v, st) ==
  LET q == s.insn[v]
      w == s.insn[st]
      from(l) == OpOf(s, l) = "LOAD" /\ s.insn[l].op2 = w.op2
      lone(l) == InSameBlock(s, l) /\ UseCount(s, l) = 2 /\ w.op1 = l
  IN CASE from(q.op1) -> IF lone(q.op1) THEN 1 ELSE 0
       [] ~ from(q.op1) /\ Commutative(q.op) /\ from(q.op2) -> IF lone(q.op2) THEN 2 ELSE 0
       [] OTHER -> 0

FuseModify(s, v, st) ==
  LET t == IF ModifiedLoad(s, v, st) = 2 THEN SwapOps(s, v) ELSE s
      u == SetF(SetF(t, v, "BINOP_INT", {"FUSED"}), t.insn[v].op1, "LOAD", {"SKIPPED"})
  IN Set(FuseAddr(u, s.insn[st].op2), st, "MEM_BINOP_INT")

---------------------------------------------------------------------------
(* Branches, guards and selections *)

AllUsagesFusable(s, c) ==
  /\ OpOf(s, c) \in Comparisons
  /\ \A u \in Users(s, c) : LET q == s.insn[u]
                            IN q.op \in {"IF", "GUARD", "GUARD_NOT"} \/ (q.op = "COND" /\ q.op2 # c /\ q.op3 # c)

FusableCondition(s, c) == ~ IsConst(c) /\ (UseCount(s, c) = 1 \/ AllUsagesFusable(s, c))

(* the comparison is done by the instruction that uses it *)
FuseCompare(s, c, ref, n) ==
  Set(SetF(IF UseCount(s, c) = 1 THEN FuseLoadCmp(s, c, ref) ELSE s, c, "CMP_INT", {"FUSED"}), ref, n)

MatchIfCompare(s, ref) ==
  LET c == s.insn[ref].op2
      v == s.insn[c].op1
      prev == ComparesZero(s, c) /\ v = c - 1
      lone == UseCount(s, c) = 1
  IN CASE prev /\ s.insn[v].op = "AND" /\ UseCount(s, v) = 1 ->
            SetF(FuseTest(IF lone THEN FuseLoadTest(s, v, ref) ELSE s, v, ref, "TEST_AND_BRANCH_INT", "TEST_AND_BRANCH_BIT"),
                 c, "NOP", Fused)
       [] prev /\ ~ (s.insn[v].op = "AND" /\ UseCount(s, v) = 1) /\ c = ref - 1 /\ SetsFlagsFor(s.insn[v].op, s.insn[c].op) ->
            Set(SetF(BinopForFlags(s, v, ref, lone), c, "CMP_INT", {"FUSED"}), ref, "JCC_INT")
       [] OTHER -> FuseCompare(s, c, ref, "CMP_AND_BRANCH_INT")

BranchOps == {"ADD", "SUB", "OR", "AND", "XOR"}

MatchIfValue(s, ref) ==
  LET q  == s.insn[ref]
      c  == q.op2
      st == q.op1
  IN CASE c = ref - 1 /\ OpOf(s, c) \in BranchOps ->
            Set(BinopForFlags(s, c, ref, TRUE), ref, "JCC_INT")
       [] /\ st = ref - 1 /\ c = ref - 2 /\ UseCount(s, c) = 2
          /\ s.insn[st].op = "STORE" /\ s.insn[st].op3 = c
          /\ s.insn[c].op \in BranchOps /\ ModifiedLoad(s, c, st) # 0 ->
            Set(FuseModify(s, c, st), ref, "JCC_INT")
       [] OTHER -> Set(FuseLoad(s, c, ref), ref, "IF_INT")

MatchIf(s, ref) ==
  LET c == s.insn[ref].op2
      f == FusableCondition(s, c)
  IN CASE f /\ OpOf(s, c) \in Comparisons -> MatchIfCompare(s, ref)
       [] f /\ OpOf(s, c) = "OVERFLOW" /\ InSameBlock(s, c) -> Set(SetF(s, c, "OVERFLOW", Fused), ref, "OVERFLOW_AND_BRANCH")
       [] f /\ OpOf(s, c) = "AND" ->
            FuseTest(FuseLoadTest(s, c, ref), c, ref, "TEST_AND_BRANCH_INT", "TEST_AND_BRANCH_BIT")
       [] OTHER -> MatchIfValue(s, ref)

MatchCond(s, ref) ==
  LET c == s.insn[ref].op1
      f == FusableCondition(s, c)
  IN CASE f /\ OpOf(s, c) \in Comparisons -> FuseCompare(s, c, ref, "COND_CMP_INT")
       [] f /\ OpOf(s, c) = "AND" -> FuseTest(FuseLoadTest(s, c, ref), c, ref, "COND_TEST_INT", "COND_TEST_BIT")
       [] OTHER -> Set(FuseLoad(s, c, ref), ref, "COND")

MatchGuardCompare(s, ref) ==
  LET c == s.insn[ref].op2
      q == s.insn[c]
      v == q.op1
      z == ComparesZero(s, c)
  IN CASE z /\ v = c - 1 /\ SetsFlagsFor(s.insn[v].op, q.op) ->
            Set(SetF(BinopForFlags(s, v, ref, UseCount(s, c) = 1), c, "CMP_INT", {"FUSED"}), ref, "GUARD_JCC_INT")
       [] /\ z /\ v = c - 2 /\ UseCount(s, c) = 1 /\ InSameBlock(s, v) /\ UseCount(s, v) = 2
          /\ s.insn[c - 1].op = "STORE" /\ s.insn[c - 1].op3 = v
          /\ SetsFlagsFor(s.insn[v].op, q.op) /\ ModifiedLoad(s, v, c - 1) # 0 ->
            Set(SetF(FuseModify(s, v, c - 1), c, "NOP", {"SKIPPED"}), ref, "GUARD_JCC_INT")
       [] OTHER -> FuseCompare(s, c, ref, "GUARD_CMP_INT")

MatchGuard(s, ref) ==
  LET c == s.insn[ref].op2
      f == FusableCondition(s, c)
  IN CASE f /\ OpOf(s, c) \in Comparisons -> MatchGuardCompare(s, ref)
       [] f /\ OpOf(s, c) = "OVERFLOW" /\ InSameBlock(s, c) -> Set(SetF(s, c, "OVERFLOW", Fused), ref, "GUARD_OVERFLOW")
       [] f /\ OpOf(s, c) = "AND" -> FuseTest(FuseLoadTest(s, c, ref), c, ref, "GUARD_TEST_INT", "GUARD_TEST_BIT")
       [] OTHER -> Set(FuseLoad(s, c, ref), ref, s.insn[ref].op)

---------------------------------------------------------------------------
(* The rule of an instruction *)

Conversions == {"SEXT", "ZEXT", "TRUNC", "BITCAST"}
BitCounts   == {"CTLZ", "CTTZ", "CTPOP"}

Match(s, ref) ==
  LET op == s.insn[ref].op
  IN CASE op \in Comparisons -> MatchCompare(s, ref)
       [] op \in {"ADD", "SUB"} -> MatchAdd(s, ref)
       [] op = "MUL" -> MatchMul(s, ref)
       [] op \in {"ADD_OV", "SUB_OV", "XOR"} -> MatchBinop(s, ref)
       [] op = "MUL_OV" -> MatchMulOv(s, ref)
       [] op = "DIV" -> MatchDiv(s, ref)
       [] op = "MOD" -> MatchMod(s, ref)
       [] op = "NOT" -> MatchNot(s, ref)
       [] op = "NEG" -> Set(s, ref, "OP_INT")
       [] op = "ABS" -> Set(s, ref, "ABS_INT")
       [] op = "OR" -> MatchOr(s, ref)
       [] op = "AND" -> MatchAnd(s, ref)
       [] op \in {"SHL", "SHR", "SAR", "ROL", "ROR"} -> MatchShift(s, ref)
       [] op \in {"MIN", "MAX"} -> Set(s, ref, "MIN_MAX_INT")
       [] op = "COPY" -> Set(s, ref, "COPY_INT")
       [] op \in {"VAR", "VADDR"} -> SetF(s, ref, "ALLOCA", {"SKIPPED", "FUSED", "SIMPLE"})
       [] op = "PARAM" -> SetF(s, ref, "PARAM", IF UseCount(s, ref) > 0 THEN {} ELSE {"SKIPPED"})
       [] op = "VSTORE" -> MatchVstore(s, ref)
       [] op = "STORE" -> MatchStore(s, ref)
       [] op = "LOAD" -> MatchLoad(s, ref)
       [] op \in {"START", "BEGIN", "IF_TRUE", "IF_FALSE"} -> SetF(s, ref, op, {"SKIPPED"})
       [] op = "RETURN" -> Set(s, ref, "RETURN_INT")
       [] op = "IF" -> MatchIf(s, ref)
       [] op = "COND" -> MatchCond(s, ref)
       [] op \in {"GUARD", "GUARD_NOT"} -> MatchGuard(s, ref)
       [] op \in Conversions -> Set(FuseLoad(s, s.insn[ref].op1, ref), ref, op)
       [] op \in BitCounts -> Set(FuseLoad(s, s.insn[ref].op1, ref), ref, "BIT_COUNT")
       [] op \in {"VLOAD", "OVERFLOW", "END"} -> Set(s, ref, op)

Settled(s, ref) == IF s.rules[ref] = Rule("LEA_IB", {}) THEN RevertLeaToAdd(s, ref) ELSE s

(* a step of ir_match, which goes backwards through every block *)
MatchStep(s0, ref) ==
  LET s == [s0 EXCEPT !.bb = s0.start[ref]]
  IN IF s.start[ref] = ref THEN SetF(s, ref, "NOP", {"SKIPPED"}) ELSE Settled(Matched(s, ref), ref)

---------------------------------------------------------------------------
(***************************************************************************)
(* What the selected rules ask of the register allocator                   *)
(* (ir_get_target_constraints in ir_x86.dasc), and the positions at which  *)
(* values are read and defined that ir_compute_live_ranges derives from it *)
(* (ir_ra.c; modelled in full by LiveRanges).                              *)
(***************************************************************************)

(* Positions inside an instruction *)
LOAD_SUB == 0
USE_SUB  == 1
DEF_SUB  == 2
SAVE_SUB == 3

(* def: the operands and result that must be in registers (0 is the        *)
(* result), REUSES and CONFLICTS; hints: preferred registers of operands;  *)
(* tmps: temporaries for an operand; kills: registers that are overwritten *)
Constraint(must, flags, hints, tmps, kills) ==
  [must |-> must, flags |-> flags, hints |-> hints, tmps |-> tmps, kills |-> kills, fixed |-> FALSE]

NoHints        == [k \in {} |-> NONE]
Hint(op, r)    == [k \in {op} |-> r]
Tmp(num, a, b) == {[num |-> num, s |-> a, e |-> b]}
Kill(r, a, b)  == {[r |-> r, s |-> a, e |-> b]}

Local(s, r) == r > 0 /\ s.rules[r].n = "ALLOCA"

(* a temporary for a constant that is no immediate *)
ConstTmp(s, r, num) == IF MayFuseImm(s, r) THEN {} ELSE Tmp(num, LOAD_SUB, DEF_SUB)

(* ... and for the address of a local variable *)
OperandTmp(s, r, num) ==
  CASE IsConst(r) -> ConstTmp(s, r, num)
    [] Local(s, r) -> Tmp(num, LOAD_SUB, DEF_SUB)
    [] OTHER -> {}

AnyConstTmp(s, r, num) == IF IsConst(r) \/ Local(s, r) THEN Tmp(num, LOAD_SUB, DEF_SUB) ELSE {}

BinopConstraint(s, ref) ==
  LET q == s.insn[ref]
  IN Constraint(IF "FUSED" \in s.rules[ref].f THEN {2} ELSE {0}, IF "FUSED" \in s.rules[ref].f THEN {} ELSE {"REUSES"},
                NoHints, OperandTmp(s, q.op2, 2), {})

ShiftConstraint(s, ref) ==
  LET f == "FUSED" \in s.rules[ref].f
  IN Constraint(IF f THEN {2} ELSE {0}, IF f THEN {} ELSE {"REUSES", "CONFLICTS"}, Hint(2, RCX), {},
                Kill(RCX, LOAD_SUB, DEF_SUB))

MulConstraint == [Constraint({}, {}, Hint(1, RAX), {}, Kill(RDX, USE_SUB, DEF_SUB) \cup Kill(RAX, LOAD_SUB, SAVE_SUB))
                    EXCEPT !.fixed = TRUE]

DivConstraint(s, ref) ==
  [Constraint({}, {}, Hint(1, RAX), AnyConstTmp(s, s.insn[ref].op2, 2),
              Kill(RDX, LOAD_SUB, DEF_SUB) \cup Kill(RAX, LOAD_SUB, SAVE_SUB)) EXCEPT !.fixed = TRUE]

ModConstraint(s, ref) ==
  [Constraint({}, {}, Hint(1, RAX), AnyConstTmp(s, s.insn[ref].op2, 2),
              Kill(RAX, LOAD_SUB, DEF_SUB) \cup Kill(RDX, LOAD_SUB, SAVE_SUB)) EXCEPT !.fixed = TRUE]

MinMaxConstraint(s, ref) == Constraint({0, 2}, {"REUSES"}, NoHints, AnyConstTmp(s, s.insn[ref].op2, 2), {})

CmpConstraint(s, ref) ==
  LET q == s.insn[ref]
      must == CASE IsConst(q.op2) -> {0}
                [] ~ IsConst(q.op2) /\ q.op1 > 0 /\ ~ Local(s, q.op1) /\ "FUSED" \in s.rules[q.op1].f -> {0, 2}
                [] OTHER -> {0, 1}
  IN Constraint(must, {}, NoHints, AnyConstTmp(s, q.op1, 1) \cup OperandTmp(s, q.op2, 2), {})

TestBitConstraint(s, ref) ==
  LET q == s.insn[ref]
  IN Constraint(IF q.op1 > 0 /\ ~ Local(s, q.op1) /\ "FUSED" \in s.rules[q.op1].f THEN {0, 2} ELSE {0, 1}, {}, NoHints,
                AnyConstTmp(s, q.op1, 1), {})

CondConstraint(s, ref) ==
  LET q == s.insn[ref]
      n == CASE IsConst(q.op3) \/ Local(s, q.op3) -> 3
             [] ~ (IsConst(q.op3) \/ Local(s, q.op3)) /\ (IsConst(q.op2) \/ Local(s, q.op2)) -> 2
             [] OTHER -> 0
  IN Constraint({0, 2, 3}, {}, NoHints, IF n = 0 THEN {} ELSE Tmp(n, LOAD_SUB, SAVE_SUB), {})

StoreConstraint(s, ref) ==
  LET q == s.insn[ref]
  IN Constraint({2, 3}, {}, NoHints, (IF IsConst(q.op2) THEN ConstTmp(s, q.op2, 2) ELSE {}) \cup OperandTmp(s, q.op3, 3), {})

VstoreConstraint(s, ref) == Constraint({3}, {}, NoHints, OperandTmp(s, s.insn[ref].op3, 3), {})

LoadConstraint(s, ref) ==
  LET a == s.insn[ref].op2
  IN Constraint({0, 2}, {}, NoHints, IF IsConst(a) THEN ConstTmp(s, a, 2) ELSE {}, {})

ReuseConstraint == Constraint({0}, {"REUSES"}, NoHints, {}, {})

(* the mask of a 64-bit power of two that is no immediate *)
MaskTmp(s, ref) ==
  LET q == s.insn[ref]
  IN IF Size[q.t] = 8 /\ ~ IsSigned32(I64(Wrap(Val(s, q.op2) - 1))) THEN Tmp(2, LOAD_SUB, DEF_SUB) ELSE {}

ModPwr2Constraint(s, ref)  == [ReuseConstraint EXCEPT !.tmps = MaskTmp(s, ref)]
SmodPwr2Constraint(s, ref) == [ReuseConstraint EXCEPT !.tmps = MaskTmp(s, ref) \cup Tmp(3, USE_SUB, SAVE_SUB)]
SdivPwr2Constraint(s, ref) == Constraint({0, 1}, {"CONFLICTS"}, NoHints, MaskTmp(s, ref), {})

BitCountConstraint(s, ref) ==
  LET q == s.insn[ref]
  IN Constraint(IF Size[q.t] = 1 THEN {0, 1} ELSE {0}, {}, NoHints,
                IF IsConst(q.op1) THEN Tmp(1, LOAD_SUB, DEF_SUB) ELSE {}, {})

AbsConstraint    == Constraint({0, 1}, {"CONFLICTS"}, NoHints, {}, {})
ParamConstraint  == Constraint({}, {}, NoHints, {}, {})
BranchConstraint == Constraint({}, {}, NoHints, {}, {})
ReturnConstraint == Constraint({}, {}, Hint(2, RAX), {}, {})
Imul3Constraint  == Constraint({0}, {}, NoHints, {}, {})
DefaultConstraint == Constraint({0, 1, 2, 3}, {}, NoHints, {}, {})

TargetConstraints(s, ref) ==
  LET n == s.rules[ref].n
  IN CASE n = "BINOP_INT" -> BinopConstraint(s, ref)
       [] n = "IMUL3" -> Imul3Constraint
       [] n = "SHIFT" -> ShiftConstraint(s, ref)
       [] n = "MUL_INT" -> MulConstraint
       [] n = "DIV_INT" -> DivConstraint(s, ref)
       [] n = "MOD_INT" -> ModConstraint(s, ref)
       [] n = "MIN_MAX_INT" -> MinMaxConstraint(s, ref)
       [] n \in {"CMP_INT", "TEST_INT"} -> CmpConstraint(s, ref)
       [] n = "TEST_BIT" -> TestBitConstraint(s, ref)
       [] n \in {"COND", "COND_CMP_INT", "COND_TEST_INT", "COND_TEST_BIT"} -> CondConstraint(s, ref)
       [] n = "VSTORE_INT" -> VstoreConstraint(s, ref)
       [] n = "STORE_INT" -> StoreConstraint(s, ref)
       [] n \in {"LOAD_INT", "MEM_OP_INT", "MEM_INC", "MEM_DEC", "MEM_MUL_PWR2", "MEM_DIV_PWR2", "MEM_MOD_PWR2",
                 "MEM_BINOP_INT", "MEM_SHIFT", "MEM_SHIFT_CONST", "CMP_AND_STORE_INT"} -> LoadConstraint(s, ref)
       [] n \in {"SHIFT_CONST", "INC", "DEC", "MUL_PWR2", "DIV_PWR2", "OP_INT", "BIT_OP",
                 "COPY_INT", "SEXT", "ZEXT", "AND_ZEXT", "TRUNC", "BITCAST"} -> ReuseConstraint
       [] n = "MOD_PWR2" -> ModPwr2Constraint(s, ref)
       [] n = "SMOD_PWR2" -> SmodPwr2Constraint(s, ref)
       [] n = "SDIV_PWR2" -> SdivPwr2Constraint(s, ref)
       [] n = "BIT_COUNT" -> BitCountConstraint(s, ref)
       [] n = "ABS_INT" -> AbsConstraint
       [] n = "PARAM" -> ParamConstraint
       [] n \in {"IF_INT", "GUARD", "GUARD_NOT"} -> BranchConstraint
       [] n = "RETURN_INT" -> ReturnConstraint
       [] OTHER -> DefaultConstraint

---------------------------------------------------------------------------
(* Where values are needed *)

Control == {"START", "BEGIN", "IF_TRUE", "IF_FALSE", "END", "PARAM", "VAR", "LOAD", "VLOAD", "STORE", "VSTORE", "IF",
            "GUARD", "GUARD_NOT", "RETURN"}
Data(s, ref) == s.insn[ref].op \notin Control

IsRoot(s, ref) == s.rules[ref].f \cap {"FUSED", "SKIPPED"} = {}

(* ir_assign_virtual_registers *)
HasVreg(s, ref) ==
  /\ ref > 0 /\ IsRoot(s, ref)
  /\ \/ Data(s, ref) \/ s.insn[ref].op = "PARAM"
     \/ s.insn[ref].op \in {"LOAD", "VLOAD"} /\ UseCount(s, ref) > 1

Effectless == {"START", "BEGIN", "IF_TRUE", "IF_FALSE", "END", "PARAM", "VAR"}

Inputs(s, ref) == LET q == s.insn[ref]
                  IN CASE q.op \in Effectless -> <<>>
                       [] q.op \in Control \ Effectless -> <<2, 3>>
                       [] OTHER -> <<1, 2, 3>>

UseOf(root, ref, op, v, pos, must) == <<[root |-> root, ref |-> ref, op |-> op, v |-> v, pos |-> pos, must |-> must]>>

(* An operand is read at LoadPos when it has a hint or when the result may *)
(* take its register, and at UsePos otherwise.                             *)
OperandPos(s, ref, c, k) ==
  LET o == Operands(s.insn[ref])
      early == \/ k \in DOMAIN c.hints
               \/ "REUSES" \in c.flags /\ k = 1 /\ "CONFLICTS" \notin c.flags
               \/ "REUSES" \in c.flags /\ k # 1 /\ o[k] = o[1]
  IN IF early THEN LoadPos(ref) ELSE UsePos(ref)

DefinedAt(s, ref) ==
  LET c == TargetConstraints(s, ref)
  IN CASE c.fixed -> SavePos(ref)
       [] ~ c.fixed /\ "CONFLICTS" \in c.flags -> IF "REUSES" \in c.flags THEN UsePos(ref) ELSE LoadPos(ref)
       [] ~ c.fixed /\ c.flags = {"REUSES"} -> LoadPos(ref)
       [] OTHER -> DefPos(ref)

RECURSIVE FusedUses(_, _, _)
FusedUses(s, root, ref) ==
  LET c == IF "SIMPLE" \in s.rules[ref].f THEN DefaultConstraint ELSE TargetConstraints(s, ref)
      o == Operands(s.insn[ref])
      use(k) == CASE HasVreg(s, o[k]) ->
                       UseOf(root, ref, k, o[k], IF k \in DOMAIN c.hints THEN LoadPos(root) ELSE UsePos(root), k \in c.must)
                  [] o[k] > 0 /\ ~ HasVreg(s, o[k]) /\ "FUSED" \in s.rules[o[k]].f -> FusedUses(s, root, o[k])
                  [] OTHER -> <<>>
  IN FlattenSeq([i \in DOMAIN Inputs(s, ref) |-> use(Inputs(s, ref)[i])])

(* the values an instruction reads, in the order in which they are noted *)
Uses(s, root) ==
  LET c == TargetConstraints(s, root)
      o == Operands(s.insn[root])
      use(k) == CASE HasVreg(s, o[k]) -> UseOf(root, root, k, o[k], OperandPos(s, root, c, k), k \in c.must)
                  [] o[k] > 0 /\ ~ HasVreg(s, o[k]) /\ "FUSED" \in s.rules[o[k]].f -> FusedUses(s, root, o[k])
                  [] OTHER -> <<>>
  IN FlattenSeq([i \in DOMAIN Inputs(s, root) |-> use(Inputs(s, root)[i])])

(* the instructions whose code is part of the code of root *)
RECURSIVE FusedInto(_, _)
FusedInto(s, ref) ==
  {ref} \cup UNION {FusedInto(s, o) : o \in {x \in ToSet(Operands(s.insn[ref])) : x > 0 /\ "FUSED" \in s.rules[x].f}}

Demanding(s, root) == {f \in FusedInto(s, root) : f = root \/ "SIMPLE" \notin s.rules[f].f}

(* temporaries as <<root, instruction, operand>> with their ranges, and    *)
(* the registers that are taken                                            *)
Temporaries(s, root) ==
  UNION {{[key |-> <<root, f, t.num>>, s |-> LoadPos(root) + t.s, e |-> LoadPos(root) + t.e] :
            t \in TargetConstraints(s, f).tmps} : f \in Demanding(s, root)}

Taken(s, root) ==
  UNION {{[r |-> k.r, s |-> LoadPos(root) + k.s, e |-> LoadPos(root) + k.e] : k \in TargetConstraints(s, f).kills} :
           f \in Demanding(s, root)}
  \cup {[r |-> TargetConstraints(s, root).hints[k], s |-> LoadPos(root), e |-> UsePos(root)] :
          k \in {j \in DOMAIN TargetConstraints(s, root).hints : HasVreg(s, Operands(s.insn[root])[j])}}

=============================================================================
