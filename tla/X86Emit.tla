------------------------------- MODULE X86Emit -------------------------------
(***************************************************************************)
(* The code templates of the x86-64 back-end for data (ir_emit_* in        *)
(* ir_x86.dasc), for integers of 1, 4 and 8 bytes.                         *)
(*                                                                         *)
(* A template is a function of c = [s, reg]: the matched function and what *)
(* the allocator decided, ctx->regs.  reg[<<root, ref, k>>] is the         *)
(* register for operand k of ref in the code of root (0: the result); sp   *)
(* says that it is loaded from, or stored to, the spill slot               *)
(* (IR_REG_SPILL_LOAD, IR_REG_SPILL_STORE, IR_REG_SPILL_SPECIAL).  Where   *)
(* the source asserts, the code fails.                                     *)
(***************************************************************************)
EXTENDS X86Match

NoReg == [r |-> NONE, sp |-> FALSE]

RegOf(c, root, ref, k) == IF <<root, ref, k>> \in DOMAIN c.reg THEN c.reg[<<root, ref, k>>] ELSE NoReg
Own(c, ref, k)         == RegOf(c, ref, ref, k)
DefReg(c, ref)         == Own(c, ref, 0).r

Op(i, t, d, s)      == Ins(i, Size[t], d, s)
Mov(t, d, r)        == Op("mov", t, R(d), R(r))
LoadMem(t, r, o)    == Op("mov", t, R(r), o)
StoreMem(t, o, r)   == Op("mov", t, o, R(r))

LoadImm(t, r, v) == IF v = 0 THEN Op("xor", t, R(r), R(r)) ELSE Op("mov", t, R(r), Imm(v))

VarOf(s, r)          == IF s.insn[r].op = "VADDR" THEN s.insn[r].op1 ELSE r
LocalMem(s, r)       == Mem(RSP, VarOf(s, r), NONE, 1)
LoadLocalAddr(s, d, r) == Ins("lea", 8, R(d), LocalMem(s, r))

Load(c, t, d, r) == CASE IsConst(r) -> LoadImm(t, d, Val(c.s, r))
                      [] ~ IsConst(r) /\ HasVreg(c.s, r) -> LoadMem(t, d, Slot(r))
                      [] OTHER -> Asserting(Local(c.s, r)) \o LoadLocalAddr(c.s, d, r)

Store(t, ref, r) == StoreMem(t, Slot(ref), r)

(* an operand in a register of its own is loaded there if it was spilled *)
Reload(c, t, e, r) == IF e.r # NONE /\ e.sp THEN Load(c, t, e.r, r) ELSE <<>>

(* op1 comes to the register of the result *)
MoveTo(c, t, d, e, r) == CASE e.r = d -> <<>>
                           [] e.r # d /\ e.r # NONE -> Mov(t, d, e.r)
                           [] OTHER -> Load(c, t, d, r)

ToResult(c, ref, t) ==
  LET e == Own(c, ref, 1)
      r == c.s.insn[ref].op1
  IN Asserting(DefReg(c, ref) # NONE) \o Reload(c, t, e, r) \o MoveTo(c, t, DefReg(c, ref), e, r)

StoreResult(c, ref, t) == IF Own(c, ref, 0).sp THEN Store(t, ref, DefReg(c, ref)) ELSE <<>>

FuseImm(s, r) == Imm(Num("I32", Val(s, r)))
ImmFits(s, r) == Size[TypeOf(s, r)] = 4 \/ IsSigned32(I64(Val(s, r)))

---------------------------------------------------------------------------
(* Memory operands: the code that loads their registers, and the operand *)

Operand(code, o) == [code |-> code, o |-> o]

ScaleOf(s, r) == Num("I32", Val(s, s.insn[r].op2))

Unused == <<0, 0>>

(* the operands that are base and index, the multiplication that holds the  *)
(* scale, and the addition that holds the offset                           *)
AddressForm(s, ref) ==
  LET n == s.rules[ref].n
      x == s.insn[ref].op1
      y == s.insn[ref].op2
      form(b, i, k, o) == [b |-> b, i |-> i, c |-> k, o |-> o]
  IN CASE n = "LEA_OB"     -> form(<<ref, 1>>, Unused, 0, ref)
       [] n = "LEA_SI"     -> form(Unused, <<ref, 1>>, ref, 0)
       [] n = "LEA_SIB"    -> form(<<ref, 1>>, <<ref, 1>>, ref, 0)
       [] n = "LEA_IB"     -> form(<<ref, 1>>, <<ref, 2>>, 0, 0)
       [] n = "LEA_OB_I"   -> form(<<x, 1>>, <<ref, 2>>, 0, x)
       [] n = "LEA_I_OB"   -> form(<<ref, 1>>, <<y, 1>>, 0, y)
       [] n = "LEA_SI_O"   -> form(Unused, <<x, 1>>, x, ref)
       [] n = "LEA_SIB_O"  -> form(<<x, 1>>, <<x, 1>>, x, ref)
       [] n = "LEA_IB_O"   -> form(<<x, 1>>, <<x, 2>>, 0, ref)
       [] n = "LEA_OB_SI"  -> form(<<x, 1>>, <<y, 1>>, y, x)
       [] n = "LEA_SI_OB"  -> form(<<y, 1>>, <<x, 1>>, x, y)
       [] n = "LEA_B_SI"   -> form(<<ref, 1>>, <<y, 1>>, y, 0)
       [] n = "LEA_SI_B"   -> form(<<ref, 2>>, <<x, 1>>, x, 0)
       [] n = "LEA_B_SI_O" -> form(<<x, 1>>, <<s.insn[x].op2, 1>>, s.insn[x].op2, ref)
       [] n = "LEA_SI_B_O" -> form(<<x, 2>>, <<s.insn[x].op1, 1>>, s.insn[x].op1, ref)

(* x * 3 is x + x * 2 *)
ScaleIn(s, f) == CASE f.c = 0 -> 1
                   [] f.c # 0 /\ f.b # f.i -> ScaleOf(s, f.c)
                   [] f.c # 0 /\ f.b = f.i -> ScaleOf(s, f.c) - 1

OffsetIn(s, f) == CASE f.o = 0 -> 0
                    [] f.o # 0 /\ s.insn[f.o].op # "SUB" -> Num("I32", Val(s, s.insn[f.o].op2))
                    [] f.o # 0 /\ s.insn[f.o].op = "SUB" -> -Num("I32", Val(s, s.insn[f.o].op2))

OperandAt(s, p) == IF p = Unused THEN 0 ELSE Operands(s.insn[p[1]])[p[2]]

(* base, with its register be, and index, with ie, are loaded *)
LoadedAddress(c, t, base, index, be, ie, var, scale, offset) ==
  Operand(Asserting((base # 0 => be.r # NONE) /\ (index # 0 => ie.r # NONE))
            \o (IF base = 0 THEN <<>> ELSE Reload(c, t, be, base))
            \o (IF index \in {0, base} THEN <<>> ELSE Reload(c, t, ie, index)),
          Mem(IF var # 0 THEN RSP ELSE be.r, var + offset, IF index = 0 THEN NONE ELSE ie.r, scale))

(* A base or an index that is a local variable becomes the stack pointer   *)
(* and an offset.                                                          *)
RootedAddress(c, root, t, f, base, index, scale, offset) ==
  CASE Local(c.s, base) ->
         LoadedAddress(c, t, 0, index, NoReg, RegOf(c, root, f.i[1], f.i[2]), VarOf(c.s, base), scale, offset)
    [] ~ Local(c.s, base) /\ Local(c.s, index) /\ scale = 1 ->
         LoadedAddress(c, t, 0, base, NoReg, RegOf(c, root, f.b[1], f.b[2]), VarOf(c.s, index), scale, offset)
    [] OTHER ->
         LoadedAddress(c, t, base, index, RegOf(c, root, f.b[1], f.b[2]),
                       IF index = base THEN RegOf(c, root, f.b[1], f.b[2]) ELSE RegOf(c, root, f.i[1], f.i[2]),
                       0, scale, offset)

FormedAddress(c, root, t, f) ==
  RootedAddress(c, root, t, f, OperandAt(c.s, f.b), OperandAt(c.s, f.i), ScaleIn(c.s, f), OffsetIn(c.s, f))

AddressOf(c, root, ref) == FormedAddress(c, root, c.s.insn[ref].t, AddressForm(c.s, ref))

FuseMem(c, root, a, e) ==
  CASE e.r # NONE -> Operand(Reload(c, "ADDR", e, a), Mem(e.r, 0, NONE, 1))
    [] e.r = NONE /\ IsConst(a) ->
         Operand(Asserting(IsSigned32(I64(Val(c.s, a)))), Mem(NONE, Num("I32", Val(c.s, a)), NONE, 1))
    [] e.r = NONE /\ ~ IsConst(a) /\ Local(c.s, a) -> Operand(<<>>, LocalMem(c.s, a))
    [] OTHER -> AddressOf(c, root, a)

(* a load that is part of the instruction, or the slot of a spilled value *)
MemOf(c, root, r) ==
  IF "FUSED" \in c.s.rules[r].f THEN FuseMem(c, root, c.s.insn[r].op2, RegOf(c, root, r, 2))
  ELSE Operand(<<>>, Slot(r))

LoadEx(c, t, d, r, root) ==
  CASE IsConst(r) -> LoadImm(t, d, Val(c.s, r))
    [] ~ IsConst(r) /\ Local(c.s, r) -> LoadLocalAddr(c.s, d, r)
    [] OTHER -> MemOf(c, root, r).code \o LoadMem(t, d, MemOf(c, root, r).o)

(* the location a STORE or VSTORE writes *)
Target(c, ref) ==
  LET q == c.s.insn[ref]
  IN IF q.op = "STORE" THEN FuseMem(c, ref, q.op2, Own(c, ref, 2)) ELSE Operand(<<>>, LocalMem(c.s, q.op2))

---------------------------------------------------------------------------
(* Arithmetic *)

Mnemonic == [op \in {"ADD", "ADD_OV", "SUB", "SUB_OV", "MUL", "MUL_OV", "OR", "AND", "XOR"} |->
               CASE op \in {"ADD", "ADD_OV"} -> "add" [] op \in {"SUB", "SUB_OV"} -> "sub"
                 [] op \in {"MUL", "MUL_OV"} -> "imul" [] op = "OR" -> "or" [] op = "AND" -> "and" [] op = "XOR" -> "xor"]

BinopInt(c, ref) ==
  LET q == c.s.insn[ref]
      d == DefReg(c, ref)
      e == IF q.op1 = q.op2 /\ d # Own(c, ref, 1).r THEN [r |-> d, sp |-> FALSE] ELSE Own(c, ref, 2)
      src == CASE e.r # NONE -> Operand(IF q.op1 # q.op2 THEN Reload(c, q.t, e, q.op2) ELSE <<>>, R(e.r))
               [] e.r = NONE /\ IsConst(q.op2) -> Operand(Asserting(ImmFits(c.s, q.op2)), FuseImm(c.s, q.op2))
               [] OTHER -> MemOf(c, ref, q.op2)
  IN ToResult(c, ref, q.t) \o src.code \o Op(Mnemonic[q.op], q.t, R(d), src.o) \o StoreResult(c, ref, q.t)

Imul3(c, ref) ==
  LET q == c.s.insn[ref]
      e == Own(c, ref, 1)
      src == IF e.r # NONE THEN Operand(Reload(c, q.t, e, q.op1), R(e.r)) ELSE MemOf(c, ref, q.op1)
  IN Asserting(DefReg(c, ref) # NONE /\ ImmFits(c.s, q.op2)) \o src.code
       \o InsN("imul3", Size[q.t], R(DefReg(c, ref)), src.o, FuseImm(c.s, q.op2).n) \o StoreResult(c, ref, q.t)

(* The result of MIN(x, x) is x, already in its register. *)
MinMaxInt(c, ref) ==
  LET q == c.s.insn[ref]
      e == Own(c, ref, 2)
      cc == CASE q.op = "MIN" -> IF q.t \in Signed THEN "g" ELSE "a"
              [] q.op = "MAX" -> IF q.t \in Signed THEN "l" ELSE "b"
  IN Asserting(e.r # NONE) \o ToResult(c, ref, q.t)
       \o (IF q.op1 = q.op2 THEN <<>>
           ELSE Reload(c, q.t, e, q.op2) \o Op("cmp", q.t, R(DefReg(c, ref)), R(e.r))
                  \o CC("cmov", cc, Size[q.t], R(DefReg(c, ref)), R(e.r)) \o StoreResult(c, ref, q.t))

Overflow(c, ref) ==
  LET q == c.s.insn[ref]
  IN Asserting(DefReg(c, ref) # NONE)
       \o CC("set", IF TypeOf(c.s, q.op1) \in Signed THEN "o" ELSE "b", 1, R(DefReg(c, ref)), R(DefReg(c, ref)))
       \o StoreResult(c, ref, q.t)

(* An addition to the register of the result is an ADD; twice an index     *)
(* without a base is the index plus itself.                                *)
Lea(c, ref) ==
  LET t == c.s.insn[ref].t
      a == AddressOf(c, ref, ref)
      d == DefReg(c, ref)
      o == a.o
      plain == o.o = 0 /\ o.c = 1
      add(r) == Op("add", t, R(d), R(r))
  IN Asserting(d # NONE) \o a.code
       \o (CASE o.b = d /\ plain /\ o.i # NONE -> add(o.i)
             [] ~ (o.b = d /\ plain /\ o.i # NONE) /\ o.i = d /\ plain /\ o.b # NONE -> add(o.b)
             [] o.i = d /\ o.o = 0 /\ o.c = 2 /\ o.b = NONE -> add(d)
             [] OTHER -> Op("lea", t, R(d), IF o.c = 2 /\ o.b = NONE THEN Mem(o.i, o.o, o.i, 1) ELSE o))
       \o StoreResult(c, ref, t)

Log2(v) == CHOOSE k \in 0 .. Bits64 - 1 : 2^k = v

(* x and mask, which may need the temporary that was asked for *)
AndMask(c, ref, t, mask) ==
  LET e == Own(c, ref, 2)
  IN IF Size[t] = 8 /\ e.r # NONE THEN LoadImm(t, e.r, mask) \o Op("and", t, R(DefReg(c, ref)), R(e.r))
     ELSE Op("and", t, R(DefReg(c, ref)), Imm(Num("I32", mask)))

MulDivModPwr2(c, ref) ==
  LET q == c.s.insn[ref]
      d == R(DefReg(c, ref))
      v == Val(c.s, q.op2)
  IN ToResult(c, ref, q.t)
       \o (CASE q.op = "MUL" -> IF v = 2 THEN Op("add", q.t, d, d) ELSE Op("shl", q.t, d, Imm(Log2(v)))
             [] q.op = "DIV" -> Op("shr", q.t, d, Imm(Log2(v)))
             [] q.op = "MOD" -> AndMask(c, ref, q.t, v - 1))
       \o StoreResult(c, ref, q.t)

BitOp(c, ref) ==
  LET q == c.s.insn[ref]
      v == Val(c.s, q.op2)
      d == R(DefReg(c, ref))
  IN ToResult(c, ref, q.t)
       \o (IF q.op = "OR" THEN Op("bts", q.t, d, Imm(Log2(v))) ELSE Op("btr", q.t, d, Imm(Log2(Complement(v)))))
       \o StoreResult(c, ref, q.t)

(* Division rounds to zero: a negative dividend is first increased by the  *)
(* divisor less one.                                                       *)
SdivPwr2(c, ref) ==
  LET q == c.s.insn[ref]
      v == Val(c.s, q.op2)
      d == DefReg(c, ref)
      e == Own(c, ref, 1)
      m == Own(c, ref, 2)
      w == IF Size[q.t] = 8 THEN 8 ELSE 4
      halve == Ins("mov", w, R(d), R(e.r)) \o Op("shr", q.t, R(d), Imm(Bits[q.t] - 1)) \o Ins("add", w, R(d), R(e.r))
      biased == (IF Size[q.t] = 8 /\ m.r # NONE
                 THEN LoadImm(q.t, m.r, v - 1) \o Ins("lea", w, R(d), Mem(e.r, 0, m.r, 1))
                 ELSE Ins("lea", w, R(d), Mem(e.r, v - 1, NONE, 1)))
                \o Op("test", q.t, R(e.r), R(e.r)) \o CC("cmov", "ns", Size[q.t], R(d), R(e.r))
  IN Asserting(v # 1 /\ e.r # NONE /\ d # NONE /\ e.r # d) \o Reload(c, q.t, e, q.op1)
       \o (IF v = 2 THEN halve ELSE biased) \o Op("sar", q.t, R(d), Imm(Log2(v))) \o StoreResult(c, ref, q.t)

SmodPwr2(c, ref) ==
  LET q == c.s.insn[ref]
      v == Val(c.s, q.op2)
      d == DefReg(c, ref)
      tmp == Own(c, ref, 3).r
      w == Bits[q.t]
  IN Asserting(v # 1 /\ tmp # NONE /\ d # tmp) \o ToResult(c, ref, q.t)
       \o (IF tmp = Own(c, ref, 1).r THEN <<>> ELSE Mov(q.t, tmp, d))
       \o (IF v = 2 THEN Op("shr", q.t, R(tmp), Imm(w - 1))
           ELSE Op("sar", q.t, R(tmp), Imm(w - 1)) \o Op("shr", q.t, R(tmp), Imm(w - Log2(v))))
       \o Op("add", q.t, R(d), R(tmp)) \o AndMask(c, ref, q.t, v - 1) \o Op("sub", q.t, R(d), R(tmp))
       \o StoreResult(c, ref, q.t)

ShiftName == [op \in {"SHL", "SHR", "SAR", "ROL", "ROR"} |->
                CASE op = "SHL" -> "shl" [] op = "SHR" -> "shr" [] op = "SAR" -> "sar" [] op = "ROL" -> "rol" [] op = "ROR" -> "ror"]

(* The count goes to CL; op1, if it is there, leaves first. *)
ShiftInt(c, ref) ==
  LET q == c.s.insn[ref]
      d == DefReg(c, ref)
      x == Own(c, ref, 1)
      y == Own(c, ref, 2)
      leave == y.r # RCX /\ x.r = RCX
  IN Asserting(d # NONE /\ d # RCX) \o Reload(c, q.t, x, q.op1) \o Reload(c, q.t, y, q.op2)
       \o (IF leave THEN Mov(q.t, d, x.r) ELSE <<>>)
       \o MoveTo(c, q.t, RCX, y, q.op2)
       \o (IF leave THEN <<>> ELSE MoveTo(c, q.t, d, x, q.op1))
       \o Op(ShiftName[q.op], q.t, R(d), R(RCX)) \o StoreResult(c, ref, q.t)

ShiftConst(c, ref) ==
  LET q == c.s.insn[ref]
  IN Asserting(IsSigned32(I64(Val(c.s, q.op2)))) \o ToResult(c, ref, q.t)
       \o Op(ShiftName[q.op], q.t, R(DefReg(c, ref)), Imm(Val(c.s, q.op2))) \o StoreResult(c, ref, q.t)

UnaryName(rule, op) == CASE rule \in {"INC", "MEM_INC"} -> "inc" [] rule \in {"DEC", "MEM_DEC"} -> "dec"
                         [] rule \in {"OP_INT", "MEM_OP_INT"} -> IF op = "NOT" THEN "not" ELSE "neg"

OpInt(c, ref) ==
  LET q == c.s.insn[ref]
      d == R(DefReg(c, ref))
  IN ToResult(c, ref, q.t) \o Op(UnaryName(c.s.rules[ref].n, q.op), q.t, d, d) \o StoreResult(c, ref, q.t)

(* A byte is counted in 4 bytes, after its register is cleared above it. *)
BitCount(c, ref) ==
  LET q == c.s.insn[ref]
      d == R(DefReg(c, ref))
      e == Own(c, ref, 1)
      w == IF Size[q.t] = 8 THEN 8 ELSE 4
      i == CASE q.op = "CTLZ" -> "lzcnt" [] q.op = "CTTZ" -> "tzcnt" [] q.op = "CTPOP" -> "popcnt"
      src == IF e.r # NONE
             THEN Operand(Reload(c, q.t, e, q.op1)
                            \o (IF Size[q.t] = 1 THEN InsN("movzx", 4, R(e.r), R(e.r), 1) ELSE <<>>), R(e.r))
             ELSE MemOf(c, ref, q.op1)
  IN Asserting(d.r # NONE /\ (e.r = NONE => Size[q.t] # 1)) \o src.code \o Ins(i, w, d, src.o)
       \o (IF Size[q.t] = 1 /\ q.op = "CTLZ" THEN Ins("sub", 4, d, Imm(Bits32 - Bits8)) ELSE <<>>)
       \o StoreResult(c, ref, q.t)

AbsInt(c, ref) ==
  LET q == c.s.insn[ref]
      d == DefReg(c, ref)
      e == Own(c, ref, 1)
  IN Asserting(d # NONE /\ e.r # NONE /\ e.r # d) \o Reload(c, q.t, e, q.op1) \o Mov(q.t, d, e.r)
       \o Op("neg", q.t, R(d), R(d)) \o CC("cmov", "s", Size[q.t], R(d), R(e.r)) \o StoreResult(c, ref, q.t)

BoolNot(c, ref) ==
  LET q == c.s.insn[ref]
      d == R(DefReg(c, ref))
      e == Own(c, ref, 1)
  IN Asserting(d.r # NONE /\ e.r # NONE) \o Reload(c, "BOOL", e, q.op1)
       \o (IF e.r = d.r THEN <<>> ELSE Ins("mov", 1, d, R(e.r))) \o Ins("xor", 1, d, Imm(1))
       \o StoreResult(c, ref, "BOOL")

(* A spilled result is stored with the width of the operand. *)
BoolNotInt(c, ref) ==
  LET q == c.s.insn[ref]
      t == TypeOf(c.s, q.op1)
      d == R(DefReg(c, ref))
      e == Own(c, ref, 1)
  IN Asserting(d.r # NONE) \o Reload(c, t, e, q.op1)
       \o (IF e.r # NONE THEN Op("test", t, R(e.r), R(e.r)) ELSE Op("cmp", t, Slot(q.op1), Imm(0)))
       \o CC("set", "e", 1, d, d) \o StoreResult(c, ref, t)

(* The double-width product is in RDX:RAX (AX for bytes), and so are the   *)
(* quotient and the remainder.                                             *)
MulDivMod(c, ref) ==
  LET q == c.s.insn[ref]
      t == q.t
      mul == q.op \in {"MUL", "MUL_OV"}
      d == DefReg(c, ref)
      x == Own(c, ref, 1)
      y == Own(c, ref, 2)
      src == CASE y.r = NONE /\ q.op1 = q.op2 -> Operand(<<>>, R(RAX))
               [] y.r # NONE -> Operand(Reload(c, t, y, q.op2), R(y.r))
               [] y.r = NONE /\ q.op1 # q.op2 /\ IsConst(q.op2) /\ mul -> Operand(Load(c, t, RDX, q.op2), R(RDX))
               [] OTHER -> MemOf(c, ref, q.op2)
      i == IF mul THEN IF t \in Signed THEN "imul1" ELSE "mul" ELSE IF t \in Signed THEN "idiv" ELSE "div"
      widen == CASE mul -> <<>>
                 [] ~ mul /\ t \in Signed -> Op("cwd", t, R(RAX), R(RAX))
                 [] ~ mul /\ t \notin Signed -> IF Size[t] = 1 THEN Op("movzxax", t, R(RAX), R(RAX))
                                                ELSE Op("xor", t, R(RDX), R(RDX))
      from == IF q.op = "MOD" /\ Size[t] # 1 THEN RDX ELSE RAX
      high == q.op = "MOD" /\ Size[t] = 1
  IN Reload(c, t, x, q.op1) \o MoveTo(c, t, RAX, x, q.op1)
       \o (IF mul THEN src.code \o Op(i, t, R(RAX), src.o)
           ELSE (IF src.o.k = "mem" THEN <<>> ELSE src.code) \o widen
                  \o (IF src.o.k = "mem" THEN src.code ELSE <<>>) \o Op(i, t, R(RAX), src.o))
       \o (IF d = NONE THEN IF high THEN Ins("movah", 1, Slot(ref), R(RAX)) ELSE Store(t, ref, from)
           ELSE (IF high THEN Ins("movah", 1, R(RAX), R(RAX)) ELSE <<>>)
                  \o (IF d = from THEN <<>> ELSE Mov(t, d, from)) \o StoreResult(c, ref, t))

---------------------------------------------------------------------------
(* Operations on a location in memory *)

MemBinopInt(c, ref) ==
  LET v == c.s.insn[ref].op3
      q == c.s.insn[v]
      a == Target(c, ref)
      e == RegOf(c, ref, v, 2)
  IN a.code \o (IF e.r = NONE THEN Asserting(IsConst(q.op2) /\ ImmFits(c.s, q.op2)) ELSE Reload(c, q.t, e, q.op2))
       \o Op(Mnemonic[q.op], q.t, a.o, IF e.r = NONE THEN FuseImm(c.s, q.op2) ELSE R(e.r))

MemMulDivModPwr2(c, ref) ==
  LET q == c.s.insn[c.s.insn[ref].op3]
      a == Target(c, ref)
      v == Val(c.s, q.op2)
  IN a.code \o (CASE q.op = "MUL" -> Op("shl", q.t, a.o, Imm(Log2(v)))
                  [] q.op = "DIV" -> Op("shr", q.t, a.o, Imm(Log2(v)))
                  [] q.op = "MOD" -> Asserting(v - 1 < 2^Bits32) \o Op("and", q.t, a.o, Imm(Num("I32", v - 1))))

MemShift(c, ref) ==
  LET v == c.s.insn[ref].op3
      q == c.s.insn[v]
      a == Target(c, ref)
      e == RegOf(c, ref, v, 2)
  IN a.code \o Reload(c, q.t, e, q.op2) \o MoveTo(c, q.t, RCX, e, q.op2) \o Op(ShiftName[q.op], q.t, a.o, R(RCX))

MemShiftConst(c, ref) ==
  LET q == c.s.insn[c.s.insn[ref].op3]
      a == Target(c, ref)
  IN Asserting(IsSigned32(I64(Val(c.s, q.op2)))) \o a.code \o Op(ShiftName[q.op], q.t, a.o, Imm(Val(c.s, q.op2)))

MemOpInt(c, ref) ==
  LET q == c.s.insn[c.s.insn[ref].op3]
      a == Target(c, ref)
  IN a.code \o Op(UnaryName(c.s.rules[ref].n, q.op), q.t, a.o, a.o)

---------------------------------------------------------------------------
(***************************************************************************)
(* The templates for conversions, memory, comparisons, selections,         *)
(* branches and guards, and the dispatch on the rule of an instruction     *)
(* (ir_emit_code in ir_x86.dasc).                                          *)
(*                                                                         *)
(* A branch jumps to IfTrue or IfFalse, a guard that fails to SideExit.    *)
(* c.next is the one of the two that the code falls through to, or 0; for  *)
(* a guard at the end of its block it is 0 when the block's successor is   *)
(* elsewhere, and the guard that holds jumps there (Onward).               *)
(***************************************************************************)

IfTrue   == 1
IfFalse  == 2
SideExit == 3
Returned == 4
Onward   == 5

---------------------------------------------------------------------------
(* Conversions *)

(* op1 in its register, as a constant, or in memory, for an extension *)
Extension(c, ref, i, src) ==
  LET q == c.s.insn[ref]
      t == TypeOf(c.s, q.op1)
      e == Own(c, ref, 1)
      d == R(DefReg(c, ref))
      v == Val(c.s, q.op1) % 2^W(src)
      m == MemOf(c, ref, q.op1)
      nop == i = "movzx" /\ src = 4 /\ e.r = d.r     \* "may be not always safe ???"
  IN Asserting(Size[q.t] > src /\ d.r # NONE)
       \o (CASE e.r # NONE -> Reload(c, t, e, q.op1) \o (IF nop THEN <<>> ELSE InsN(i, Size[q.t], d, R(e.r), src))
             [] e.r = NONE /\ IsConst(q.op1) ->
                  Op("mov", q.t, d, Imm(IF i = "movsx" THEN Sig(W(src), v) ELSE v))
             [] OTHER -> m.code \o InsN(i, Size[q.t], d, m.o, src))
       \o StoreResult(c, ref, q.t)

Sext(c, ref) == Extension(c, ref, "movsx", Size[TypeOf(c.s, c.s.insn[ref].op1)])
Zext(c, ref) == Extension(c, ref, "movzx", Size[TypeOf(c.s, c.s.insn[ref].op1)])

AndZext(c, ref) == Extension(c, ref, "movzx", IF Val(c.s, c.s.insn[ref].op2) = 2^Bits8 - 1 THEN 1 ELSE 4)

(* TRUNC and BITCAST *)
Narrow(c, ref) ==
  LET q == c.s.insn[ref]
      e == Own(c, ref, 1)
      d == DefReg(c, ref)
  IN Asserting(d # NONE)
       \o (CASE e.r = NONE -> LoadEx(c, q.t, d, q.op1, ref)
             [] e.r # NONE -> Reload(c, TypeOf(c.s, q.op1), e, q.op1) \o (IF e.r = d THEN <<>> ELSE Mov(q.t, d, e.r)))
       \o StoreResult(c, ref, q.t)

CopyInt(c, ref) ==
  LET q == c.s.insn[ref]
      d == DefReg(c, ref)
      e == Own(c, ref, 1)
  IN Asserting(d # NONE \/ e.r # NONE) \o Reload(c, q.t, e, q.op1)
       \o (IF d # NONE THEN MoveTo(c, q.t, d, e, q.op1) \o StoreResult(c, ref, q.t) ELSE Store(q.t, ref, e.r))

---------------------------------------------------------------------------
(* Loads and stores *)

(* A load that nobody reads is not emitted. *)
LoadFrom(c, ref, m) ==
  LET q == c.s.insn[ref]
  IN IF UseCount(c.s, ref) = 1 THEN <<>>
     ELSE Asserting(DefReg(c, ref) # NONE) \o m.code \o LoadMem(q.t, DefReg(c, ref), m.o) \o StoreResult(c, ref, q.t)

LoadInt(c, ref) == LoadFrom(c, ref, FuseMem(c, ref, c.s.insn[ref].op2, Own(c, ref, 2)))
Vload(c, ref)   == LoadFrom(c, ref, Operand(<<>>, LocalMem(c.s, c.s.insn[ref].op2)))

StoreConst(c, t, o, r, e) ==
  LET v == Val(c.s, r)
  IN IF Size[TypeOf(c.s, r)] <= 4 \/ IsSigned32(I64(v)) THEN Op("mov", t, o, Imm(Num("I32", v)))
     ELSE Asserting(e.r # NONE) \o LoadImm(t, e.r, v) \o StoreMem(t, o, e.r)

(* STORE and VSTORE *)
StoreInt(c, ref) ==
  LET q == c.s.insn[ref]
      t == TypeOf(c.s, q.op3)
      e == Own(c, ref, 3)
      m == Target(c, ref)
  IN m.code \o (IF IsConst(q.op3) THEN StoreConst(c, t, m.o, q.op3, e)
                ELSE Asserting(e.r # NONE) \o Reload(c, t, e, q.op3) \o StoreMem(t, m.o, e.r))

---------------------------------------------------------------------------
(* Comparisons *)

CondCode(op, after) ==
  CASE op = "EQ" -> "e" [] op = "NE" -> "ne"
    [] op = "LT" -> IF after THEN "s" ELSE "l"
    [] op = "GE" -> IF after THEN "ns" ELSE "ge"
    [] op = "LE" -> "le" [] op = "GT" -> "g"
    [] op = "ULT" -> "b" [] op = "UGE" -> "ae" [] op = "ULE" -> "be" [] op = "UGT" -> "a"

(* the operands of a comparison or test cmp in the code of root *)
LoadPair(c, root, cmp, t) ==
  LET q == c.s.insn[cmp]
  IN Reload(c, t, RegOf(c, root, cmp, 1), q.op1)
       \o (IF q.op1 = q.op2 THEN <<>> ELSE Reload(c, t, RegOf(c, root, cmp, 2), q.op2))

CmpIntCommon(c, root, cmp) ==
  LET q == c.s.insn[cmp]
      t == TypeOf(c.s, q.op1)
      x == RegOf(c, root, cmp, 1).r
      y == RegOf(c, root, cmp, 2).r
      mx == MemOf(c, root, q.op1)
      my == MemOf(c, root, q.op2)
      imm == Asserting(ImmFits(c.s, q.op2))
  IN CASE x # NONE /\ y # NONE -> Op("cmp", t, R(x), R(y))
       [] x # NONE /\ y = NONE /\ IsConst(q.op2) ->
            IF Val(c.s, q.op2) = 0 THEN Op("test", t, R(x), R(x)) ELSE imm \o Op("cmp", t, R(x), FuseImm(c.s, q.op2))
       [] x # NONE /\ y = NONE /\ ~ IsConst(q.op2) -> my.code \o Op("cmp", t, R(x), my.o)
       [] x = NONE /\ IsConst(q.op1) -> Fail
       [] x = NONE /\ ~ IsConst(q.op1) /\ y # NONE -> mx.code \o Op("cmp", t, mx.o, R(y))
       [] x = NONE /\ ~ IsConst(q.op1) /\ y = NONE ->
            IF IsConst(q.op2) THEN mx.code \o imm \o Op("cmp", t, mx.o, FuseImm(c.s, q.op2)) ELSE Fail

CmpType(c, cmp) == TypeOf(c.s, c.s.insn[cmp].op1)

(* an unsigned comparison with zero *)
UnsignedZero(c, cmp) == ComparesZero(c.s, cmp) /\ c.s.insn[cmp].op \in {"ULT", "UGE", "ULE", "UGT"}
ZeroOp == [op \in {"ULE", "UGT"} |-> IF op = "ULE" THEN "EQ" ELSE "NE"]
OpOfCmp(c, cmp) == LET op == c.s.insn[cmp].op
                   IN IF UnsignedZero(c, cmp) /\ op \in DOMAIN ZeroOp THEN ZeroOp[op] ELSE op

SetCc(c, ref, op, after) == CC("set", CondCode(op, after), 1, R(DefReg(c, ref)), R(DefReg(c, ref)))

CmpInt(c, ref) ==
  LET q == c.s.insn[ref]
      d == R(DefReg(c, ref))
  IN Asserting(d.r # NONE) \o LoadPair(c, ref, ref, CmpType(c, ref))
       \o (CASE UnsignedZero(c, ref) /\ q.op = "ULT" -> Ins("xor", 8, d, d)
             [] UnsignedZero(c, ref) /\ q.op = "UGE" -> Op("mov", "BOOL", d, Imm(1))
             [] OTHER -> CmpIntCommon(c, ref, ref) \o SetCc(c, ref, OpOfCmp(c, ref), FALSE))
       \o StoreResult(c, ref, "BOOL")

(* A test of the low byte or of the low half takes a narrower test. *)
TestIntCommon(c, root, v, op) ==
  LET q == c.s.insn[v]
      t == q.t
      x == RegOf(c, root, v, 1)
      y == RegOf(c, root, v, 2)
      n == FuseImm(c.s, q.op2).n
      same == IF q.op1 = q.op2 THEN <<>> ELSE Reload(c, t, y, q.op2)
      mx == MemOf(c, root, q.op1)
      my == MemOf(c, root, q.op2)
      imm == Asserting(ImmFits(c.s, q.op2))
  IN Asserting(q.op = "AND") \o
     (CASE x.r # NONE /\ y.r # NONE -> Reload(c, t, x, q.op1) \o same \o Op("test", t, R(x.r), R(y.r))
        [] x.r # NONE /\ y.r = NONE /\ IsConst(q.op2) ->
             Reload(c, t, x, q.op1) \o imm
               \o (CASE op \in {"EQ", "NE"} /\ n = 2^Bits8 - 1 -> Ins("test", 1, R(x.r), R(x.r))
                     [] op \in {"EQ", "NE"} /\ n = -1 -> Ins("test", 4, R(x.r), R(x.r))
                     [] OTHER -> Op("test", t, R(x.r), Imm(n)))
        [] x.r # NONE /\ y.r = NONE /\ ~ IsConst(q.op2) -> Reload(c, t, x, q.op1) \o my.code \o Op("test", t, R(x.r), my.o)
        [] x.r = NONE /\ IsConst(q.op1) -> Fail
        [] x.r = NONE /\ ~ IsConst(q.op1) /\ y.r # NONE -> mx.code \o same \o Op("test", t, mx.o, R(y.r))
        [] x.r = NONE /\ ~ IsConst(q.op1) /\ y.r = NONE ->
             IF IsConst(q.op2) THEN mx.code \o imm \o Op("test", t, mx.o, Imm(n)) ELSE Fail)

TestBitCommon(c, root, v) ==
  LET q == c.s.insn[v]
      x == RegOf(c, root, v, 1)
      m == MemOf(c, root, q.op1)
      bit == Imm(Log2(Val(c.s, q.op2)))
  IN Asserting(q.op = "AND" /\ Size[q.t] = 8)
       \o (IF x.r # NONE THEN Reload(c, q.t, x, q.op1) \o Ins("bt", 8, R(x.r), bit)
           ELSE IF IsConst(q.op1) THEN Fail ELSE m.code \o Ins("bt", 8, m.o, bit))

TestccInt(c, ref) == Asserting(DefReg(c, ref) # NONE) \o TestIntCommon(c, ref, c.s.insn[ref].op1, c.s.insn[ref].op)
                       \o SetCc(c, ref, c.s.insn[ref].op, FALSE) \o StoreResult(c, ref, "BOOL")

SetccInt(c, ref) == Asserting(DefReg(c, ref) # NONE) \o SetCc(c, ref, c.s.insn[ref].op, TRUE) \o StoreResult(c, ref, "BOOL")

TestccBit(c, ref) ==
  LET d == R(DefReg(c, ref))
      op == c.s.insn[ref].op
  IN Asserting(d.r # NONE /\ op \in {"EQ", "NE"}) \o TestBitCommon(c, ref, c.s.insn[ref].op1)
       \o CC("set", IF op = "EQ" THEN "ae" ELSE "b", 1, d, d) \o StoreResult(c, ref, "BOOL")

CmpAndStoreInt(c, ref) ==
  LET v == c.s.insn[ref].op3
      m == Target(c, ref)
  IN m.code \o LoadPair(c, ref, v, CmpType(c, v)) \o CmpIntCommon(c, ref, v)
       \o CC("set", CondCode(c.s.insn[v].op, FALSE), 1, m.o, m.o)

---------------------------------------------------------------------------
(* Selections *)

(* op2 and op3 in their registers *)
LoadChoices(c, ref) ==
  LET q == c.s.insn[ref]
      y == Own(c, ref, 2)
      z == Own(c, ref, 3)
  IN CASE q.op2 # q.op3 -> [code |-> Reload(c, q.t, y, q.op2) \o Reload(c, q.t, z, q.op3), y |-> y.r, z |-> z.r]
       [] q.op2 = q.op3 /\ y.r # NONE /\ y.sp -> [code |-> Reload(c, q.t, y, q.op2), y |-> y.r, z |-> y.r]
       [] q.op2 = q.op3 /\ ~ (y.r # NONE /\ y.sp) /\ z.r # NONE /\ z.sp ->
            [code |-> Reload(c, q.t, z, q.op3), y |-> z.r, z |-> z.r]
       [] OTHER -> [code |-> <<>>, y |-> y.r, z |-> z.r]

(* With the flags set: one choice moves to the result, and the other one   *)
(* replaces it on its condition (yes: op2 is chosen).  Constants are moved *)
(* by an instruction that keeps the flags.                                 *)
Select(c, ref, y, z, yes, no) ==
  LET q == c.s.insn[ref]
      d == DefReg(c, ref)
      bring(r) == IF IsConst(r) THEN Op("mov", q.t, R(d), Imm(Val(c.s, r))) ELSE LoadEx(c, q.t, d, r, ref)
  IN CASE z # NONE /\ z = d -> Asserting(y # NONE) \o CC("cmov", yes, Size[q.t], R(d), R(y))
       [] z # NONE /\ z # d ->
            (IF y = NONE THEN bring(q.op2) ELSE IF y = d THEN <<>> ELSE Mov(q.t, d, y)) \o CC("cmov", no, Size[q.t], R(d), R(z))
       [] z = NONE -> Asserting(y # NONE /\ y # d) \o bring(q.op3) \o CC("cmov", yes, Size[q.t], R(d), R(y))

Cond(c, ref) ==
  LET q == c.s.insn[ref]
      t == TypeOf(c.s, q.op1)
      y == Own(c, ref, 2)
      z0 == Own(c, ref, 3)
      spy == y.r # NONE /\ y.sp
      z == IF spy /\ q.op3 = q.op2 THEN [r |-> y.r, sp |-> FALSE] ELSE z0
      spz == z.r # NONE /\ z.sp
      x == CASE spz /\ q.op1 = q.op3 -> [r |-> y.r, sp |-> FALSE]
             [] ~ (spz /\ q.op1 = q.op3) /\ spy /\ q.op1 = q.op2 -> [r |-> y.r, sp |-> FALSE]
             [] OTHER -> Own(c, ref, 1)
      m == MemOf(c, ref, q.op1)
  IN Asserting(DefReg(c, ref) # NONE) \o Reload(c, q.t, y, q.op2) \o Reload(c, q.t, z, q.op3) \o Reload(c, t, x, q.op1)
       \o (IF x.r # NONE THEN Op("test", t, R(x.r), R(x.r)) ELSE m.code \o Op("cmp", t, m.o, Imm(0)))
       \o Select(c, ref, y.r, z.r, "ne", "e") \o StoreResult(c, ref, q.t)

CondTestInt(c, ref) ==
  LET l == LoadChoices(c, ref)
  IN l.code \o TestIntCommon(c, ref, c.s.insn[ref].op1, "NE") \o Select(c, ref, l.y, l.z, "ne", "e")
       \o StoreResult(c, ref, c.s.insn[ref].t)

CondTestBit(c, ref) ==
  LET l == LoadChoices(c, ref)
  IN l.code \o TestBitCommon(c, ref, c.s.insn[ref].op1) \o Select(c, ref, l.y, l.z, "b", "ae")
       \o StoreResult(c, ref, c.s.insn[ref].t)

CondCmpInt(c, ref) ==
  LET l == LoadChoices(c, ref)
      v == c.s.insn[ref].op1
      op == c.s.insn[v].op
  IN l.code \o LoadPair(c, ref, v, CmpType(c, v)) \o CmpIntCommon(c, ref, v)
       \o Select(c, ref, l.y, l.z, CondCode(op, FALSE), CondCode(Negated[op], FALSE))
       \o StoreResult(c, ref, c.s.insn[ref].t)

---------------------------------------------------------------------------
(* Branches *)

NegatedCc == [cc \in {"e", "ne", "l", "ge", "le", "g", "b", "ae", "be", "a", "s", "ns", "o", "no"} |->
                CASE cc = "e" -> "ne" [] cc = "ne" -> "e" [] cc = "l" -> "ge" [] cc = "ge" -> "l" [] cc = "le" -> "g"
                  [] cc = "g" -> "le" [] cc = "b" -> "ae" [] cc = "ae" -> "b" [] cc = "be" -> "a" [] cc = "a" -> "be"
                  [] cc = "s" -> "ns" [] cc = "ns" -> "s" [] cc = "o" -> "no" [] cc = "no" -> "o"]

(* to the true block on cc; when that is next, to the false block on the   *)
(* opposite                                                                *)
JumpOn(c, cc) ==
  CASE c.next = IfTrue -> Jcc(NegatedCc[cc], IfFalse)
    [] c.next = IfFalse -> Jcc(cc, IfTrue)
    [] OTHER -> Jcc(cc, IfTrue) \o Jmp(IfFalse)

JumpTo(c, to) == IF c.next = to THEN <<>> ELSE Jmp(to)

OverflowAndBranch(c, ref) ==
  LET v == c.s.insn[c.s.insn[ref].op2].op1
  IN JumpOn(c, IF TypeOf(c.s, v) \in Signed THEN "o" ELSE "b")

(* The flags of the previous branch are still there when it compared the   *)
(* same operands.                                                          *)
SameComparison(c, ref) ==
  LET p == c.s.insn[ref].op1
      cmp == c.s.insn[c.s.insn[ref].op2]
      prev == c.s.insn[p].op1
  IN /\ OpOf(c.s, p) \in {"IF_TRUE", "IF_FALSE"}
     /\ c.s.rules[prev] = Rule("CMP_AND_BRANCH_INT", {})
     /\ LET q == c.s.insn[c.s.insn[prev].op2] IN q.op1 = cmp.op1 /\ q.op2 = cmp.op2

CmpAndBranchInt(c, ref) ==
  LET v == c.s.insn[ref].op2
      op == c.s.insn[v].op
  IN LoadPair(c, ref, v, CmpType(c, v))
       \o (CASE UnsignedZero(c, v) /\ op = "ULT" -> JumpTo(c, IfFalse)
             [] UnsignedZero(c, v) /\ op = "UGE" -> JumpTo(c, IfTrue)
             [] OTHER -> (IF SameComparison(c, ref) THEN <<>> ELSE CmpIntCommon(c, ref, v))
                           \o JumpOn(c, CondCode(OpOfCmp(c, v), FALSE)))

(* the AND a branch tests, and how: against zero by a comparison, or for truth *)
Tested(c, v)  == IF OpOf(c.s, v) \in Comparisons THEN c.s.insn[v].op1 ELSE v
TestedOp(c, v) == IF OpOf(c.s, v) \in Comparisons THEN c.s.insn[v].op ELSE "NE"

TestAndBranchInt(c, ref) ==
  LET v == c.s.insn[ref].op2
  IN TestIntCommon(c, ref, Tested(c, v), TestedOp(c, v)) \o JumpOn(c, CondCode(TestedOp(c, v), FALSE))

TestAndBranchBit(c, ref) ==
  LET v == c.s.insn[ref].op2
  IN Asserting(TestedOp(c, v) \in {"EQ", "NE"}) \o TestBitCommon(c, ref, Tested(c, v))
       \o JumpOn(c, IF TestedOp(c, v) = "EQ" THEN "ae" ELSE "b")

JccInt(c, ref) ==
  LET op == c.s.insn[c.s.insn[ref].op2].op
  IN JumpOn(c, CondCode(IF op \in Comparisons THEN op ELSE "NE", TRUE))

IfInt(c, ref) ==
  LET v == c.s.insn[ref].op2
      t == TypeOf(c.s, v)
      e == Own(c, ref, 2)
      m == MemOf(c, ref, v)
  IN CASE e.r # NONE -> Reload(c, t, e, v) \o Op("test", t, R(e.r), R(e.r)) \o JumpOn(c, "ne")
       [] e.r = NONE /\ IsConst(v) -> JumpTo(c, IF Val(c.s, v) # 0 THEN IfTrue ELSE IfFalse)
       [] e.r = NONE /\ ~ IsConst(v) /\ Local(c.s, v) -> JumpTo(c, IfTrue)
       [] OTHER -> m.code \o Op("cmp", t, m.o, Imm(0)) \o JumpOn(c, "ne")

ReturnInt(c, ref) ==
  LET v == c.s.insn[ref].op2
      t == TypeOf(c.s, v)
      e == Own(c, ref, 2)
  IN (CASE e.r # NONE /\ ~ e.sp -> IF e.r = RAX THEN <<>> ELSE Mov(t, RAX, e.r)
        [] OTHER -> Load(c, t, RAX, v))
     \o Jmp(Returned)

---------------------------------------------------------------------------
(* Guards *)

(* A guard before the end of a block whose successor is elsewhere jumps    *)
(* there when it holds.  (With moves into PHIs at the end of the block,    *)
(* IR_BB_DESSA_MOVES, it does not; there are no PHIs here.)                *)
GuardAtEnd(cc) == Jcc(NegatedCc[cc], Onward) \o Jmp(SideExit)

GuardJcc(c, ref, cc) ==
  IF c.s.insn[ref + 1].op = "END" /\ c.next = 0 THEN GuardAtEnd(cc) ELSE Jcc(cc, SideExit)

Guarding(c, ref, cc) == IF c.s.insn[ref].op = "GUARD" THEN NegatedCc[cc] ELSE cc

Guard(c, ref) ==
  LET q == c.s.insn[ref]
      t == TypeOf(c.s, q.op2)
      e == Own(c, ref, 2)
      m == MemOf(c, ref, q.op2)
  IN IF IsConst(q.op2)
     THEN IF (q.op = "GUARD") = (Val(c.s, q.op2) = 0) THEN Jmp(SideExit) ELSE <<>>
     ELSE (IF e.r # NONE THEN Reload(c, t, e, q.op2) \o Op("test", t, R(e.r), R(e.r)) ELSE m.code \o Op("cmp", t, m.o, Imm(0)))
            \o GuardJcc(c, ref, Guarding(c, ref, "ne"))

GuardCmpInt(c, ref) ==
  LET v == c.s.insn[ref].op2
      op == c.s.insn[v].op
  IN LoadPair(c, ref, v, CmpType(c, v))
       \o (CASE UnsignedZero(c, v) /\ op = "ULT" -> Jmp(SideExit)
             [] UnsignedZero(c, v) /\ op = "UGE" -> <<>>
             [] OTHER -> CmpIntCommon(c, ref, v) \o GuardJcc(c, ref, Guarding(c, ref, CondCode(OpOfCmp(c, v), FALSE))))

GuardTestInt(c, ref) ==
  TestIntCommon(c, ref, c.s.insn[ref].op2, "NE") \o GuardJcc(c, ref, Guarding(c, ref, "ne"))

GuardTestBit(c, ref) == TestBitCommon(c, ref, c.s.insn[ref].op2) \o Jcc(Guarding(c, ref, "b"), SideExit)

GuardJccInt(c, ref) == GuardJcc(c, ref, Guarding(c, ref, CondCode(c.s.insn[c.s.insn[ref].op2].op, TRUE)))

GuardOverflow(c, ref) ==
  LET v == c.s.insn[c.s.insn[ref].op2].op1
  IN Jcc(Guarding(c, ref, IF TypeOf(c.s, v) \in Signed THEN "o" ELSE "b"), SideExit)

---------------------------------------------------------------------------
(* The code of an instruction, by its rule *)

EmitValue(c, ref, n) ==
  CASE n = "BINOP_INT" -> BinopInt(c, ref)
    [] n = "IMUL3" -> Imul3(c, ref)
    [] n \in Leas -> Lea(c, ref)
    [] n \in {"MUL_INT", "DIV_INT", "MOD_INT"} -> MulDivMod(c, ref)
    [] n \in {"MUL_PWR2", "DIV_PWR2", "MOD_PWR2"} -> MulDivModPwr2(c, ref)
    [] n = "SDIV_PWR2" -> SdivPwr2(c, ref)
    [] n = "SMOD_PWR2" -> SmodPwr2(c, ref)
    [] n = "BIT_OP" -> BitOp(c, ref)
    [] n = "SHIFT" -> ShiftInt(c, ref)
    [] n = "SHIFT_CONST" -> ShiftConst(c, ref)
    [] n \in {"INC", "DEC", "OP_INT"} -> OpInt(c, ref)
    [] n = "ABS_INT" -> AbsInt(c, ref)
    [] n = "BOOL_NOT" -> BoolNot(c, ref)
    [] n = "BOOL_NOT_INT" -> BoolNotInt(c, ref)
    [] n = "BIT_COUNT" -> BitCount(c, ref)
    [] n = "CMP_INT" -> CmpInt(c, ref)
    [] n = "TESTCC_INT" -> TestccInt(c, ref)
    [] n = "TESTCC_BIT" -> TestccBit(c, ref)
    [] n = "SETCC_INT" -> SetccInt(c, ref)
    [] n = "SEXT" -> Sext(c, ref)
    [] n = "ZEXT" -> Zext(c, ref)
    [] n = "AND_ZEXT" -> AndZext(c, ref)
    [] n \in {"TRUNC", "BITCAST"} -> Narrow(c, ref)
    [] n = "COPY_INT" -> CopyInt(c, ref)

EmitChoice(c, ref, n) ==
  CASE n = "CMP_AND_STORE_INT" -> CmpAndStoreInt(c, ref)
    [] n = "CMP_AND_BRANCH_INT" -> CmpAndBranchInt(c, ref)
    [] n = "TEST_AND_BRANCH_INT" -> TestAndBranchInt(c, ref)
    [] n = "TEST_AND_BRANCH_BIT" -> TestAndBranchBit(c, ref)
    [] n = "JCC_INT" -> JccInt(c, ref)
    [] n = "GUARD_CMP_INT" -> GuardCmpInt(c, ref)
    [] n = "GUARD_TEST_INT" -> GuardTestInt(c, ref)
    [] n = "GUARD_TEST_BIT" -> GuardTestBit(c, ref)
    [] n = "GUARD_JCC_INT" -> GuardJccInt(c, ref)
    [] n = "IF_INT" -> IfInt(c, ref)
    [] n = "COND" -> Cond(c, ref)
    [] n = "COND_TEST_INT" -> CondTestInt(c, ref)
    [] n = "COND_TEST_BIT" -> CondTestBit(c, ref)
    [] n = "COND_CMP_INT" -> CondCmpInt(c, ref)
    [] n = "MIN_MAX_INT" -> MinMaxInt(c, ref)
    [] n = "OVERFLOW" -> Overflow(c, ref)
    [] n = "OVERFLOW_AND_BRANCH" -> OverflowAndBranch(c, ref)
    [] n = "RETURN_INT" -> ReturnInt(c, ref)
    [] n \in {"GUARD", "GUARD_NOT"} -> Guard(c, ref)
    [] n = "GUARD_OVERFLOW" -> GuardOverflow(c, ref)

EmitMemory(c, ref, n) ==
  CASE n \in {"MEM_OP_INT", "MEM_INC", "MEM_DEC"} -> MemOpInt(c, ref)
    [] n = "MEM_BINOP_INT" -> MemBinopInt(c, ref)
    [] n \in {"MEM_MUL_PWR2", "MEM_DIV_PWR2", "MEM_MOD_PWR2"} -> MemMulDivModPwr2(c, ref)
    [] n = "MEM_SHIFT" -> MemShift(c, ref)
    [] n = "MEM_SHIFT_CONST" -> MemShiftConst(c, ref)
    [] n = "VLOAD" -> Vload(c, ref)
    [] n = "LOAD_INT" -> LoadInt(c, ref)
    [] n \in {"STORE_INT", "VSTORE_INT"} -> StoreInt(c, ref)

ChoiceRules ==
  {"CMP_AND_STORE_INT", "CMP_AND_BRANCH_INT", "TEST_AND_BRANCH_INT", "TEST_AND_BRANCH_BIT", "JCC_INT",
   "GUARD_CMP_INT", "GUARD_TEST_INT", "GUARD_TEST_BIT", "GUARD_JCC_INT", "IF_INT", "COND", "COND_TEST_INT",
   "COND_TEST_BIT", "COND_CMP_INT", "MIN_MAX_INT", "OVERFLOW", "OVERFLOW_AND_BRANCH", "RETURN_INT",
   "GUARD", "GUARD_NOT", "GUARD_OVERFLOW"}
MemoryRules ==
  {"MEM_OP_INT", "MEM_INC", "MEM_DEC", "MEM_BINOP_INT", "MEM_MUL_PWR2", "MEM_DIV_PWR2", "MEM_MOD_PWR2",
   "MEM_SHIFT", "MEM_SHIFT_CONST", "VLOAD", "LOAD_INT", "STORE_INT", "VSTORE_INT"}

Emit(c, ref) ==
  LET n == c.s.rules[ref].n
  IN CASE n \in {"PARAM", "END"} -> <<>>
       [] n \in ChoiceRules -> EmitChoice(c, ref, n)
       [] n \in MemoryRules -> EmitMemory(c, ref, n)
       [] OTHER -> EmitValue(c, ref, n)

=============================================================================
