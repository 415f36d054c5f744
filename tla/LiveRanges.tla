------------------------------ MODULE LiveRanges ------------------------------
(***************************************************************************)
(* The first half of register allocation: virtual registers, the sets of   *)
(* those alive at the ends of blocks, and the live intervals               *)
(* (ir_assign_virtual_registers, ir_compute_live_sets and                  *)
(* ir_compute_live_ranges in ir_ra.c).                                     *)
(***************************************************************************)
EXTENDS LiveInterval, TLC

(***************************************************************************)
(* What the register allocator is given: instructions in the order of      *)
(* their blocks, with the rule that was selected for each, and what the    *)
(* x86 back-end demands of the registers of a rule                         *)
(* (ir_get_target_constraints in ir_x86.dasc).                             *)
(*                                                                         *)
(* insn[ref] is [op, ops, reg, size]: ops maps the numbers of the data     *)
(* operands to instructions, 0 standing for a constant, which as second    *)
(* operand of an instruction is one that is no immediate; reg is the       *)
(* register of a parameter.  block[b] is [start, end, succ, pred, depth,   *)
(* header, idom] with successors and predecessors as sequences; the        *)
(* operand of a PHI for the k-th predecessor is operand k + 1, and a       *)
(* loop's header is its own header.                                        *)
(***************************************************************************)

CONSTANTS Regs,                    \* the general purpose registers
          RAX, RCX, RDX,           \* those with a special purpose
          ArgReg,                  \* the register of the first argument of a call
          ScratchRegs              \* those a call may change

ASSUME RegsAssumption ==
  /\ Regs # {} /\ Regs \subseteq Nat
  /\ {RAX, RCX, RDX, ArgReg} \subseteq Regs /\ ScratchRegs \subseteq Regs

VARIABLES insn, block

Scratch == Max(Regs) + 1           \* IR_REG_SCRATCH, the number of the set
RegSet(r) == IF r = Scratch THEN ScratchRegs ELSE {r}

Refs   == DOMAIN insn
Blocks == DOMAIN block

---------------------------------------------------------------------------
(* The graph *)

BlockOf(ref) == CHOOSE b \in Blocks : block[b].start <= ref /\ ref <= block[b].end

Operands(ref) == {insn[ref].ops[j] : j \in DOMAIN insn[ref].ops} \ {0}

(* ctx->use_lists in the order of ir_build_def_use_lists *)
UsersOf(ref) == Ordered({u \in Refs : ref \in Operands(u)}, <)

PhisOf(b) == Ordered({r \in Refs : insn[r].op = "PHI" /\ BlockOf(r) = b}, <)

PhiInput(b, pred) == 1 + CHOOSE k \in DOMAIN block[b].pred : block[b].pred[k] = pred

IsFused(ref) == insn[ref].op \in {"FUSED_ADD", "FUSED_LOAD"}

(* A parameter that nobody reads is left out (IR_SKIPPED). *)
IsSkipped(ref) == insn[ref].op = "PARAM" /\ UsersOf(ref) = <<>>

(* ir_assign_virtual_registers: data, and memory operations whose result   *)
(* is used.                                                                *)
HasVreg(ref) ==
  \/ insn[ref].op = "PARAM" /\ ~ IsSkipped(ref)
  \/ insn[ref].op \in {"BINOP", "LEA", "SHIFT", "DIV", "ABS", "CTPOP", "COPY", "PHI"}
  \/ insn[ref].op \in {"CALL", "LOAD"} /\ UsersOf(ref) # <<>>

AssignVirtualRegisters ==
  [r \in Refs |-> IF HasVreg(r) THEN Cardinality({q \in 1 .. r : HasVreg(q)}) ELSE 0]

MaySwap(ref)  == insn[ref].op = "BINOP"
MayReuse(ref) == insn[ref].op = "COPY"

SizeOf(ref) == insn[ref].size   \* ir_type_size

---------------------------------------------------------------------------
(* ir_get_target_constraints.  def is a register the result comes in,      *)
(* flags what is demanded of the result, opflags of the operands, hints    *)
(* the registers operands are needed in, and tmps the registers that are   *)
(* used or destroyed from sub-position s to e: a register of any number    *)
(* for operand num, or the set of registers reg.                           *)

Must   == <<{"MUST"}, {"MUST"}, {"MUST"}>>
Should == <<{"SHOULD"}, {"SHOULD"}, {"SHOULD"}>>
First  == <<{"SHOULD"}, {}, {}>>

Constraint(def, flags, opflags, hints, tmps) ==
  [def |-> def, flags |-> flags, opflags |-> opflags, hints |-> hints, tmps |-> tmps]

Tmp(num, s, e)  == [num |-> num, reg |-> NONE, s |-> s, e |-> e]
Kill(reg, s, e) == [num |-> 0, reg |-> reg, s |-> s, e |-> e]

(* A constant in second place is loaded into a register, unless it is the  *)
(* first operand as well (op2_const; ir_add_const_tmp_reg).                *)
ConstTmp(ref) == IF insn[ref].ops[2] = 0 /\ insn[ref].ops[1] # 0 THEN <<Tmp(2, 0, 2)>> ELSE <<>>

BinopConstraint(ref) == Constraint(NONE, {"REUSES", "MUST"}, Should, <<>>, ConstTmp(ref))

ShiftConstraint ==
  Constraint(NONE, {"REUSES", "CONFLICTS", "MUST"}, Should, 2 :> RCX, <<Kill(RCX, 0, 2)>>)

DivConstraint(ref) ==
  Constraint(RAX, {"SHOULD"}, Should, 1 :> RAX, <<Kill(RDX, 0, 2), Kill(RAX, 0, 3)>> \o ConstTmp(ref))

CallConstraint == Constraint(RAX, {"SHOULD"}, Should, 3 :> ArgReg, <<Kill(Scratch, 1, 2)>>)

CopyConstraint  == Constraint(NONE, {"REUSES", "MUST"}, First, <<>>, <<>>)
CtpopConstraint(ref) ==
  Constraint(NONE, {"MUST"}, First, <<>>, <<Tmp(2, 1, 3)>> \o IF SizeOf(ref) = 8 THEN <<Tmp(3, 1, 3)>> ELSE <<>>)
AbsConstraint   == Constraint(NONE, {"CONFLICTS", "MUST"}, Must, <<>>, <<>>)

ParamConstraint(reg) == Constraint(reg, IF reg = NONE THEN {} ELSE {"SHOULD"}, Must, <<>>, <<>>)
ReturnConstraint == Constraint(NONE, {}, Should, 2 :> RAX, <<>>)

TargetConstraints(ref) ==
  LET op == insn[ref].op
  IN CASE op = "BINOP"  -> BinopConstraint(ref)
       [] op = "SHIFT"  -> ShiftConstraint
       [] op = "DIV"    -> DivConstraint(ref)
       [] op = "CALL"   -> CallConstraint
       [] op = "COPY"   -> CopyConstraint
       [] op = "CTPOP"  -> CtpopConstraint(ref)
       [] op = "ABS"    -> AbsConstraint
       [] op = "PARAM"  -> ParamConstraint(insn[ref].reg)
       [] op = "RETURN" -> ReturnConstraint
       [] op = "IF"     -> Constraint(NONE, {}, Should, <<>>, <<>>)
       [] op = "PHI"    -> Constraint(NONE, {"SHOULD"}, Must, <<>>, <<>>)
       [] op \in {"LEA", "LOAD"} -> Constraint(NONE, {"MUST"}, Must, <<>>, <<>>)
       [] OTHER -> Constraint(NONE, {}, Must, <<>>, <<>>)

OpFlags(c, j) == c.opflags[Min({j, 3})]
Hint(c, j)    == IF j \in DOMAIN c.hints THEN c.hints[j] ELSE NONE


---------------------------------------------------------------------------

VARIABLES phase,    \* the pass under way
          at,       \* the instruction or block it has come to
          vregs,    \* the virtual register of an instruction, or 0
          liveOut,  \* the registers alive at the end of a block, last one first
          iv,       \* the intervals; those of virtual registers come first
          fixed,    \* the ranges in which machine registers are taken
          temps     \* the intervals of temporary registers

NoInterval == [NewInterval("var", 0, 0, 0) EXCEPT !.ranges = <<>>]

LiveInit ==
  /\ phase = "vregs" /\ at = 0 /\ vregs = <<>> /\ liveOut = <<>>
  /\ iv = <<>> /\ fixed = <<>> /\ temps = <<>>

AssignVregs ==
  /\ phase = "vregs"
  /\ phase' = "sets"
  /\ at' = Len(insn)
  /\ vregs' = AssignVirtualRegisters
  /\ liveOut' = [b \in Blocks |-> <<>>]
  /\ UNCHANGED <<iv, fixed, temps>>

---------------------------------------------------------------------------
(* Live sets.  A block is marked with the register by putting it in front  *)
(* of the block's list; only the head is looked at.                        *)

Marked(outs, b, v) == outs[b] # <<>> /\ Head(outs[b]) = v

Mark(q, b, v, def) ==
  IF Marked(q.outs, b, v) THEN q
  ELSE [outs |-> [q.outs EXCEPT ![b] = Cons(v, @)], queue |-> IF b = def THEN q.queue ELSE Append(q.queue, b)]

(* The instructions that read a fused one, through others that are fused *)
RECURSIVE FusedInto(_)
FusedInto(ref) ==
  UNION {IF IsFused(u) THEN FusedInto(u) ELSE {u} : u \in ToSet(UsersOf(ref))}

(* Mutant: what is read by way of a fused instruction counts for the block *)
(* of that instruction.                                                    *)
QueueUse_direct(q, i, v, use) ==
  LET def  == BlockOf(i)
      bs   == {b \in {BlockOf(use)} : b # def /\ ~ Marked(q.outs, b, v)}
      from == SelectSeq([k \in 1 .. Len(block[BlockOf(use)].pred) |-> k],
                        LAMBDA k : insn[use].ops[k + 1] = i)
  IN IF insn[use].op = "PHI"
     THEN Through(LAMBDA p, k : Mark(p, block[BlockOf(use)].pred[k], v, def), q, from)
     ELSE [q EXCEPT !.queue = @ \o Ordered(bs, <)]

(* The blocks at whose start v is alive, or for a PHI at whose end *)
QueueUse(q, i, v, use) ==
  LET def  == BlockOf(i)
      into == IF IsFused(use) THEN FusedInto(use) ELSE {use}
      bs   == {b \in {BlockOf(u) : u \in into} : b # def /\ ~ Marked(q.outs, b, v)}
      from == SelectSeq([k \in 1 .. Len(block[BlockOf(use)].pred) |-> k],
                        LAMBDA k : insn[use].ops[k + 1] = i)
  IN IF insn[use].op = "PHI"
     THEN Through(LAMBDA p, k : Mark(p, block[BlockOf(use)].pred[k], v, def), q, from)
     ELSE [q EXCEPT !.queue = @ \o Ordered(bs, <)]

RECURSIVE UpAndMark(_, _, _)
UpAndMark(q, v, def) ==
  IF q.queue = <<>> THEN q.outs
  ELSE UpAndMark(Through(LAMBDA p, b : Mark(p, b, v, def),
                          [q EXCEPT !.queue = Front(@)], block[Last(q.queue)].pred), v, def)

LiveSets ==
  /\ phase = "sets" /\ at > 0
  /\ at' = at - 1
  /\ liveOut' =
       IF vregs[at] = 0 THEN liveOut
       ELSE UpAndMark(Through(LAMBDA q, u : QueueUse(q, at, vregs[at], u),
                               [outs |-> liveOut, queue |-> <<>>], UsersOf(at)),
                      vregs[at], BlockOf(at))
  /\ UNCHANGED <<phase, vregs, iv, fixed, temps>>

LiveSetsDone ==
  /\ phase = "sets" /\ at = 0
  /\ phase' = "ranges"
  /\ at' = Len(block)
  /\ iv' = [v \in 1 .. Max(Range(vregs)) |-> [NoInterval EXCEPT !.vreg = v]]
  /\ fixed' = [r \in Regs \cup {Scratch} |-> <<>>]
  /\ UNCHANGED <<vregs, liveOut, temps>>

---------------------------------------------------------------------------
(* Live ranges.  w is [iv, fixed, temps, live]; live holds the registers   *)
(* known to be alive at the start of the block (live_in_block).            *)

AddRange(w, v, s, e) == [w EXCEPT !.iv[v].ranges = AddLiveRange(@, s, e)]

AddFixed(w, reg, s, e) == [w EXCEPT !.fixed[reg] = AddLiveRange(@, s, e)]

(* ir_add_tmp: the list is in the order of the starts *)
AddTmp(w, t) ==
  [w EXCEPT !.temps = InsertAt(@, 1 + Cardinality({k \in DOMAIN @ : StartOf(@[k]) <= StartOf(t)}), t)]

AddTarget(w, ref, c) ==
  Through(LAMBDA x, t :
            IF t.reg # NONE THEN AddFixed(x, t.reg, LoadPos(ref) + t.s, LoadPos(ref) + t.e)
            ELSE AddTmp(x, [NewInterval("temp", ref, LoadPos(ref) + t.s, LoadPos(ref) + t.e)
                              EXCEPT !.op = t.num]),
          w, Reverse(c.tmps))

(* An operand is alive from the start of the block, if not to its end. *)
LiveUse(w, b, v, pos, u) ==
  LET x == IF v \in w.live THEN w ELSE AddRange(w, v, LoadPos(block[b].start), pos)
  IN [x EXCEPT !.live = @ \cup {v}, !.iv[v] = AddUse(@, u)]

(* ir_add_fusion_ranges: what a fused instruction reads is read by ref. *)
RECURSIVE FusionRanges(_, _, _, _)
FusionRanges(w, b, ref, input) ==
  LET ops   == insn[input].ops
      nums  == Ordered(DOMAIN ops, <)
      read  == SelectSeq(nums, LAMBDA j : ops[j] # 0 /\ vregs[ops[j]] # 0)
      fused == SelectSeq(nums, LAMBDA j : ops[j] # 0 /\ IsFused(ops[j]))
  IN Through(LAMBDA x, j : FusionRanges(x, b, ref, ops[j]),
       Through(LAMBDA x, j : LiveUse(x, b, vregs[ops[j]], UsePos(ref),
                               UseAt(UsePos(ref), j, NONE, {"FUSED", "MUST"}, -input)),
               w, read), Reverse(fused))

OperandPos(ref, c, j) ==
  IF Hint(c, j) # NONE THEN LoadPos(ref)
  ELSE IF "REUSES" \notin c.flags THEN UsePos(ref)
  ELSE IF j = 1 THEN IF "CONFLICTS" \in c.flags THEN UsePos(ref) ELSE LoadPos(ref)
  ELSE IF insn[ref].ops[j] = insn[ref].ops[1] THEN LoadPos(ref) ELSE UsePos(ref)

AddOperand(w, b, ref, c, j) ==
  LET input == insn[ref].ops[j]
      hint  == Hint(c, j)
      pos   == OperandPos(ref, c, j)
      x     == IF hint = NONE THEN w ELSE AddFixed(w, hint, LoadPos(ref), UsePos(ref))
  IN IF input = 0 THEN x
     ELSE IF IsFused(input) THEN FusionRanges(x, b, ref, input)
     ELSE LiveUse(x, b, vregs[input], pos,
            UseAt(pos, j, hint, OpFlags(c, j),
                  IF j = 1 /\ "REUSES" \in c.flags /\ hint = NONE THEN ref ELSE 0))

DefinedAt(ref, c) ==
  IF c.def # NONE THEN SavePos(ref)
  ELSE IF "REUSES" \in c.flags
       THEN IF "CONFLICTS" \in c.flags THEN UsePos(ref) ELSE LoadPos(ref)
  ELSE IF "CONFLICTS" \in c.flags THEN LoadPos(ref)
  ELSE DefPos(ref)

(* ir_fix_live_range: the first range began with the block. *)
AddDef(w, b, ref, c) ==
  LET v    == vregs[ref]
      pos  == DefinedAt(ref, c)
      op1  == IF 1 \in DOMAIN insn[ref].ops THEN insn[ref].ops[1] ELSE 0
      hint == IF c.def = NONE /\ "REUSES" \in c.flags /\ op1 # 0 /\ vregs[op1] # 0 THEN op1 ELSE 0
      x    == IF insn[ref].op = "PARAM" /\ c.def # NONE
              THEN AddFixed(w, c.def, LoadPos(block[b].start), pos) ELSE w
      mem  == IF insn[ref].op = "PARAM" /\ c.def = NONE THEN {"MEM_PARAM"} ELSE {}
  IN [x EXCEPT !.iv[v] = AddUse([@ EXCEPT !.ranges[1].s = pos, !.flags = @ \cup mem, !.size = SizeOf(ref)],
                                UseAt(pos, 0, c.def, c.flags, hint))]

(* A PHI is defined where its block starts; one that nobody reads has a    *)
(* range that ends before it starts.                                       *)
AddPhi(w, ref) ==
  LET v == vregs[ref]
      x == IF w.iv[v].ranges = <<>>
           THEN [w EXCEPT !.iv[v].ranges = <<[s |-> DefPos(ref), e |-> UsePos(ref)]>>] ELSE w
  IN [x EXCEPT !.iv[v] = AddUse(@, UseAt(DefPos(ref), 0, NONE, {"SHOULD"}, 0))]

AddInsn(w, b, ref) ==
  LET c == TargetConstraints(ref)
      x == AddTarget(w, ref, c)
  IN IF IsFused(ref) \/ IsSkipped(ref) THEN w
     ELSE IF insn[ref].op = "PHI" THEN AddPhi(w, ref)
     ELSE Through(LAMBDA y, j : AddOperand(y, b, ref, c, j),
                   IF vregs[ref] # 0 THEN AddDef(x, b, ref, c) ELSE x,
                   Ordered(DOMAIN insn[ref].ops, <))

(* What is alive at the end of the block is alive all through it, as far   *)
(* as is known yet; operands of PHIs are used at its end.                  *)
AddLiveOut(w, b) ==
  Through(LAMBDA x, v : [AddRange(x, v, LoadPos(block[b].start), EndPos(block[b].end))
                            EXCEPT !.live = @ \cup {v}], w, liveOut[b])

AddPhiUse(w, b, phi, k) ==
  LET input == insn[phi].ops[k]
  IN IF input = 0 \/ vregs[input] = 0 THEN w
     ELSE [w EXCEPT !.iv[vregs[input]].uses =
             AddUsePos(@, UseAt(DefPos(block[b].end), k, NONE, {"PHI", "SHOULD"}, -phi))]

AddPhiUses(w, b) ==
  IF Len(block[b].succ) # 1 THEN w
  ELSE LET s == block[b].succ[1]
       IN Through(LAMBDA x, phi : AddPhiUse(x, b, phi, PhiInput(s, b)), w, PhisOf(s))

LiveRanges ==
  /\ phase = "ranges" /\ at > 0
  /\ LET b == at
         w0 == AddPhiUses(AddLiveOut([iv |-> iv, fixed |-> fixed, temps |-> temps, live |-> {}], b), b)
     IN \E w \in {Through(LAMBDA x, ref : AddInsn(x, b, ref), w0,
                          [k \in 1 .. block[b].end - block[b].start |-> block[b].end + 1 - k])} :
          iv' = w.iv /\ fixed' = w.fixed /\ temps' = w.temps
  /\ at' = at - 1
  /\ UNCHANGED <<phase, vregs, liveOut>>

LiveRangesDone ==
  /\ phase = "ranges" /\ at = 0
  /\ phase' = "coalesce"
  /\ liveOut' = <<>>
  /\ UNCHANGED <<at, vregs, iv, fixed, temps>>

LiveNext == AssignVregs \/ LiveSets \/ LiveSetsDone \/ LiveRanges \/ LiveRangesDone

=============================================================================
