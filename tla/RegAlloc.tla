------------------------------- MODULE RegAlloc -------------------------------
(***************************************************************************)
(* Register allocation from end to end: the passes of ir_reg_alloc one     *)
(* after the other, then a run of the code they lead to, which takes any   *)
(* way through the blocks.                                                 *)
(***************************************************************************)
EXTENDS LinearScan

(***************************************************************************)
(* The code that the x86 back-end emits with the registers assigned by     *)
(* ir_ra.c (the ir_emit_ functions of ir_x86.dasc, and                     *)
(* ir_emit_dessa_moves in ir_emit.c).                                      *)
(*                                                                         *)
(* The code runs on a machine that knows of a place which instructions'    *)
(* values it holds: a register, a byte of the stack frame, or the stack    *)
(* slot of a parameter.  0 stands for a constant.                          *)
(***************************************************************************)

VARIABLES mach,    \* [reg, mem, arg, ok]; ok turns false when a wrong value is read
          pc       \* the instruction to run, 0 at the end

---------------------------------------------------------------------------
(* The machine.  m is mach. *)

SlotBytes(ref) == iv[vregs[ref]].slot .. iv[vregs[ref]].slot + iv[vregs[ref]].size - 1
OnStack(ref) == "MEM_PARAM" \in iv[vregs[ref]].flags
HasSlot(ref) == vregs[ref] # 0 /\ (OnStack(ref) \/ iv[vregs[ref]].slot # NONE)

SlotHolds(m, ref) ==
  IF ~ HasSlot(ref) THEN {}
  ELSE IF OnStack(ref) THEN m.arg[vregs[ref]]
  ELSE {x \in Refs : \A b \in SlotBytes(ref) : x \in m.mem[b]}

Put(m, r, S) == [m EXCEPT !.reg[r] = S]
Mov(m, to, from) == Put(m, to, m.reg[from])
Clobber(m, R) == [m EXCEPT !.reg = [r \in Regs |-> IF r \in R THEN {} ELSE @[r]]]

(* ir_emit_load, ir_emit_store *)
Load(m, r, ref) == IF ref = 0 THEN Put(m, r, {0})
                   ELSE [Put(m, r, SlotHolds(m, ref)) EXCEPT !.ok = @ /\ HasSlot(ref)]
StoreSet(m, ref, S) ==
  IF ~ HasSlot(ref) THEN [m EXCEPT !.ok = FALSE]
  ELSE IF OnStack(ref) THEN [m EXCEPT !.arg[vregs[ref]] = S]
  ELSE [m EXCEPT !.mem = [b \in DOMAIN @ |-> IF b \in SlotBytes(ref) THEN S ELSE @[b]]]
Store(m, ref, r) == StoreSet(m, ref, m.reg[r])

(* an operand is read from a register, or from its slot *)
Read(m, r, ref) == [m EXCEPT !.ok = @ /\ ref \in m.reg[r]]
ReadSlot(m, ref) == [m EXCEPT !.ok = @ /\ ref \in SlotHolds(m, ref)]

Require(m, p) == [m EXCEPT !.ok = @ /\ p]

EachPlace(m, f(_)) == [reg |-> [r \in Regs |-> f(m.reg[r])], mem |-> [b \in DOMAIN m.mem |-> f(m.mem[b])],
                       arg |-> [v \in DOMAIN m.arg |-> f(m.arg[v])], ok |-> m.ok]

(* a new value of ref is in r, and its old one is gone *)
Define(m, ref, r) == Put(EachPlace(m, LAMBDA S : S \ {ref}), r, {ref})

(* ref is what the places hold that hold from *)
Rename(m, ref, from) == EachPlace(m, LAMBDA S : IF from \in S THEN S \cup {ref} ELSE S \ {ref})

---------------------------------------------------------------------------
(* Operands *)

Op(ref, j)  == insn[ref].ops[j]
Reg(ref, j) == RegOf(regs, ref, j)

(* a register that an operand has been loaded into, where that was due *)
Fetch(m, r, ref) == IF r.mem THEN Load(m, r.n, ref) ELSE m

(* The operand is brought to register to. *)
Bring(m, r, ref, to) ==
  IF r.n = NONE THEN Load(m, to, ref)
  ELSE LET x == Fetch(m, r, ref) IN IF r.n = to THEN x ELSE Mov(x, to, r.n)

(* ir_get_fused_reg *)
FusedReg(root, ref, j) == IF <<root, ref, j>> \in DOMAIN fused THEN fused[<<root, ref, j>>] ELSE Reg(ref, j)

(* ir_fuse_addr: base and index *)
FuseAddr(m, root, ref) ==
  LET base  == FusedReg(root, ref, 1)
      index == IF Op(ref, 1) = Op(ref, 2) THEN base ELSE FusedReg(root, ref, 2)
      x     == Fetch(m, base, Op(ref, 1))
      y     == IF Op(ref, 1) = Op(ref, 2) THEN x ELSE Fetch(x, index, Op(ref, 2))
  IN IF base.n = NONE \/ index.n = NONE THEN Require(m, FALSE)
     ELSE Read(Read(y, base.n, Op(ref, 1)), index.n, Op(ref, 2))

(* ir_fuse_mem *)
FuseMem(m, root, r, addr) ==
  IF r.n # NONE THEN Read(Fetch(m, r, addr), r.n, addr)
  ELSE IF addr = 0 THEN m
  ELSE IF IsFused(addr) THEN FuseAddr(m, root, addr) ELSE Require(m, FALSE)

(* An operand read in place: a register, a constant, fused code or a slot  *)
ReadOperand(m, root, r, ref) ==
  IF r.n # NONE THEN Read(m, r.n, ref)
  ELSE IF ref = 0 THEN m
  ELSE IF IsFused(ref) THEN FuseMem(m, root, FusedReg(root, ref, 2), Op(ref, 2))
  ELSE ReadSlot(m, ref)

---------------------------------------------------------------------------
(* Instructions *)

(* ir_emit_binop_int: operand 1 goes to the register of the result. *)
EmitBinop(m, ref) ==
  LET d  == Reg(ref, 0).n
      x  == Bring(m, Reg(ref, 1), Op(ref, 1), d)
      r2 == IF Op(ref, 1) = Op(ref, 2) /\ Reg(ref, 1).n # d THEN In(d) ELSE Reg(ref, 2)
      y  == IF Op(ref, 1) = Op(ref, 2) THEN x ELSE Fetch(x, r2, Op(ref, 2))
  IN Define(ReadOperand(Read(y, d, Op(ref, 1)), ref, r2, Op(ref, 2)), ref, d)

(* ir_emit_shift: the count goes to RCX. *)
EmitShift(m, ref) ==
  LET d   == Reg(ref, 0).n
      r1  == Reg(ref, 1)
      r2  == Reg(ref, 2)
      x   == Fetch(Fetch(m, r1, Op(ref, 1)), r2, Op(ref, 2))
      out == r2.n # RCX /\ r1.n = RCX
      y   == IF out THEN Mov(x, d, RCX) ELSE x
      z   == IF r2.n = NONE THEN Load(y, RCX, Op(ref, 2)) ELSE IF r2.n = RCX THEN y ELSE Mov(y, RCX, r2.n)
      q   == IF out \/ r1.n = d THEN z ELSE IF r1.n = NONE THEN Load(z, d, Op(ref, 1)) ELSE Mov(z, d, r1.n)
  IN Define(Read(Read(Require(q, d # RCX), d, Op(ref, 1)), RCX, Op(ref, 2)), ref, d)

(* The result is in r; it stays there, is moved, or goes to memory. *)
Result(m, ref, r) ==
  LET d == Reg(ref, 0).n
      x == Define(m, ref, r)
  IN IF d = NONE THEN Store(x, ref, r) ELSE IF d = r THEN x ELSE Mov(x, d, r)

(* ir_emit_mul_div_mod *)
EmitDiv(m, ref) ==
  LET same == Op(ref, 1) = Op(ref, 2) /\ Reg(ref, 2).n = NONE
      r2   == IF same THEN In(RAX) ELSE Reg(ref, 2)
      x    == Fetch(Bring(m, Reg(ref, 1), Op(ref, 1), RAX), r2, Op(ref, 2))
      y    == Read(Clobber(x, {RDX}), RAX, Op(ref, 1))
  IN Result(ReadOperand(y, ref, r2, Op(ref, 2)), ref, RAX)

(* ir_emit_arguments and ir_emit_call_ex: an argument that is in memory is *)
(* loaded at once to where it is needed, unless a register that the call   *)
(* preserves is to hold it.                                                *)
EmitCall(m, ref) ==
  LET arg == Op(ref, 3)
      r   == Reg(ref, 3)
      x   == IF arg = 0 \/ r.n = NONE \/ (r.mem /\ r.n \in ScratchRegs) THEN Load(m, ArgReg, arg)
             ELSE Bring(m, r, arg, ArgReg)
      y   == Clobber(Read(x, ArgReg, arg), ScratchRegs)
  IN IF Reg(ref, 0).n = NONE /\ UsersOf(ref) = <<>> THEN y ELSE Result(y, ref, RAX)

(* ir_emit_trunc: a register that is not moved holds the operand as well,  *)
(* and so does the slot of a register that is shared.                      *)
EmitCopy(m, ref) ==
  LET d    == Reg(ref, 0).n
      op1  == Op(ref, 1)
      r1   == Reg(ref, 1)
      whole == r1.n = d \/ (r1.n = NONE /\ op1 # 0 /\ vregs[op1] = vregs[ref])
      x    == Read(Bring(m, r1, op1, d), d, op1)
  IN IF whole THEN Rename(x, ref, op1)
     ELSE Put(IF op1 = 0 THEN Define(x, ref, d) ELSE Rename(x, ref, op1), d, {ref})

(* ir_emit_ctpop *)
EmitCtpop(m, ref) ==
  LET d == Reg(ref, 0).n
      x == Bring(m, Reg(ref, 1), Op(ref, 1), d)
  IN Define(Read(Clobber(x, {Reg(ref, 2).n} \cup IF SizeOf(ref) = 8 THEN {Reg(ref, 3).n} ELSE {}), d, Op(ref, 1)), ref, d)

(* ir_emit_abs_int *)
EmitAbs(m, ref) ==
  LET d == Reg(ref, 0).n
      r == Reg(ref, 1)
      x == Bring(m, r, Op(ref, 1), d)
  IN IF r.n \in {NONE, d} THEN Require(m, FALSE)
     ELSE Define(Read(Read(x, d, Op(ref, 1)), r.n, Op(ref, 1)), ref, d)

(* ir_emit_load_params *)
EmitParam(m, ref) ==
  LET from == insn[ref].reg
      d    == Reg(ref, 0).n
  IN IF IsSkipped(ref) \/ from = d THEN m
     ELSE IF from = NONE THEN Put(m, d, m.arg[vregs[ref]])
     ELSE IF d = NONE THEN Store(m, ref, from)
     ELSE Mov(m, d, from)

(* ir_emit_load_int; a load that nobody reads is left out *)
EmitLoad(m, ref) ==
  IF UsersOf(ref) = <<>> THEN m ELSE Define(FuseMem(m, ref, Reg(ref, 2), Op(ref, 2)), ref, Reg(ref, 0).n)

EmitReturn(m, ref) ==
  LET r == Reg(ref, 2)
  IN Read(IF r.n = NONE \/ r.mem THEN Load(m, RAX, Op(ref, 2))
          ELSE IF r.n = RAX THEN m ELSE Mov(m, RAX, r.n), RAX, Op(ref, 2))

EmitIf(m, ref) == ReadOperand(Fetch(m, Reg(ref, 2), Op(ref, 2)), ref, Reg(ref, 2), Op(ref, 2))

Emit(m, ref) ==
  LET op == insn[ref].op
  IN CASE op = "BINOP"  -> EmitBinop(m, ref)
       [] op = "SHIFT"  -> EmitShift(m, ref)
       [] op = "DIV"    -> EmitDiv(m, ref)
       [] op = "CALL"   -> EmitCall(m, ref)
       [] op = "COPY"   -> EmitCopy(m, ref)
       [] op = "CTPOP"  -> EmitCtpop(m, ref)
       [] op = "ABS"    -> EmitAbs(m, ref)
       [] op = "PARAM"  -> EmitParam(m, ref)
       [] op = "LOAD"   -> EmitLoad(m, ref)
       [] op = "LEA"    -> Define(FuseAddr(m, ref, ref), ref, Reg(ref, 0).n)
       [] op = "RETURN" -> EmitReturn(m, ref)
       [] op = "IF"     -> EmitIf(m, ref)
       [] OTHER -> m

NeedsReg == {"BINOP", "SHIFT", "COPY", "CTPOP", "ABS", "LEA"}

(* An instruction with its assertions, and the store of its result *)
RunInsn(m, ref) ==
  IF /\ Reg(ref, 0).n = NONE
     /\ insn[ref].op \in NeedsReg \/ (insn[ref].op = "LOAD" /\ UsersOf(ref) # <<>>)
  THEN Require(m, FALSE)
  ELSE LET x == Emit(m, ref)
       IN IF HasVreg(ref) /\ Reg(ref, 0).mem THEN Store(x, ref, Reg(ref, 0).n) ELSE x

---------------------------------------------------------------------------
(* ir_emit_dessa_moves.  All PHIs get their values at once, by way of the  *)
(* temporary register of the block.  Where no moves are needed a PHI is    *)
(* what its operand was.                                                   *)

PhiSource(m, phi, k) ==
  LET r == Reg(phi, k)
  IN IF Op(phi, k) = 0 THEN {-phi} ELSE IF r.n # NONE /\ ~ r.mem THEN m.reg[r.n] ELSE SlotHolds(m, Op(phi, k))

PhiMove(m, x, phi, k) ==
  IF Reg(phi, 0).n # NONE THEN Put(x, Reg(phi, 0).n, PhiSource(m, phi, k))
  ELSE StoreSet(x, phi, PhiSource(m, phi, k))

(* What a place holds once control is on the edge: the values of PHIs are  *)
(* those of their operands; -phi stands for the constant it gets.          *)
OnEdge(S, phis, k) ==
  ((S \cap Refs) \ ToSet(phis))
    \cup {phi \in ToSet(phis) : (IF Op(phi, k) = 0 THEN -phi ELSE Op(phi, k)) \in S}

TakeEdge(m, b, s) ==
  LET phis == PhisOf(s)
      k    == PhiInput(s, b)
      tmp  == Reg(block[b].end, 0).n
      x    == IF b \notin moves THEN m
              ELSE Through(LAMBDA y, phi : PhiMove(m, y, phi, k), Clobber(m, {tmp}), phis)
  IN IF phis = <<>> THEN m ELSE EachPlace(x, LAMBDA S : OnEdge(S, phis, k))


---------------------------------------------------------------------------

scan  == <<unhandled, active, inactive, cur, pick, fault>>
out   == <<slots, regs, fused>>
run   == <<mach, pc>>
alloc == <<phase, at, vregs, liveOut, iv, fixed, temps, todo, moves>>
vars  == <<insn, block, alloc, scan, out, run>>

(* Init for a program; p is [insn, block] *)
Begin(p) ==
  /\ insn = p.insn /\ block = p.block
  /\ LiveInit /\ CoalesceInit /\ ScanInit /\ SlotsInit /\ AssignInit
  /\ mach = <<>> /\ pc = 0

Allocate ==
  /\ UNCHANGED <<block, run>>
  /\ \/ LiveNext /\ UNCHANGED <<insn, todo, moves, scan, out>>
     \/ CoalesceNext /\ UNCHANGED <<scan, out>>
     \/ ScanNext /\ UNCHANGED out
     \/ ~ fault /\ SlotsNext /\ UNCHANGED <<regs, fused>>
     \/ ~ fault /\ AssignRegs

(* Parameters are in their registers, or on the stack. *)
Enter ==
  /\ phase = "code" /\ ~ fault
  /\ phase' = "run"
  /\ pc' = 2
  /\ LET params == {p \in Refs : insn[p].op = "PARAM"}
     IN mach' = [reg |-> [r \in Regs |-> {p \in params : insn[p].reg = r}],
                 mem |-> [b \in 0 .. slots.frame - 1 |-> {}],
                 arg |-> [v \in Vregs |-> {p \in params : insn[p].reg = NONE /\ vregs[p] = v}],
                 ok  |-> TRUE]
  /\ UNCHANGED <<insn, block, at, vregs, liveOut, iv, fixed, temps, todo, moves, scan, out>>

Step ==
  /\ phase = "run" /\ pc # 0 /\ mach.ok
  /\ LET b == BlockOf(pc)
     IN IF pc < block[b].end THEN mach' = RunInsn(mach, pc) /\ pc' = pc + 1
        ELSE IF block[b].succ = <<>> THEN mach' = RunInsn(mach, pc) /\ pc' = 0
        ELSE \E s \in ToSet(block[b].succ) :
               mach' = TakeEdge(RunInsn(mach, pc), b, s) /\ pc' = block[s].start + 1
  /\ UNCHANGED <<insn, block, alloc, scan, out>>

Done == phase = "run" /\ pc = 0 /\ UNCHANGED vars

Next == Allocate \/ Enter \/ Step \/ Done

---------------------------------------------------------------------------
(* Properties *)

(* No assertion of the allocator fails and it always finds a solution      *)
(* (IR_ASSERTs of ir_ra.c, "LSRA Internal Error: Unsolvable conflict").    *)
Solved == ~ fault

(* Each instruction reads the values of its operands, whatever way control *)
(* has come: no register or stack slot has been used for another value in  *)
(* between, no spill store or load is missing, and PHIs get their operands.*)
OperandsRight == phase = "run" => mach.ok

(* Intervals that have the same register never overlap once the scan is    *)
(* over: splitting, holes and evictions keep them apart.                   *)
NoSharing ==
  phase \in {"slots", "slot", "assign"} =>
    \A i, j \in DOMAIN iv :
      (/\ i < j /\ iv[i].reg # NONE /\ iv[j].reg # NONE
       /\ iv[i].kind = "var" \/ iv[j].kind = "var"
       /\ RegSet(iv[i].reg) \cap RegSet(iv[j].reg) # {})
        => IvalsOverlap(iv[i].ranges, iv[j].ranges) = 0

(* Slots of virtual registers that are alive at the same time do not       *)
(* overlap, are aligned and lie inside the frame, also when a larger slot  *)
(* has been cut up and pieces of it are used again.                        *)
SlotsApart ==
  phase = "assign" =>
    \A v \in {w \in Vregs : iv[w].slot # NONE} :
      /\ iv[v].slot % iv[v].size = 0 /\ iv[v].slot + iv[v].size <= slots.frame
      /\ \A w \in {x \in Vregs : x # v /\ iv[x].slot # NONE} :
           \/ SpillEnd(v) <= StartOf(iv[w]) \/ SpillEnd(w) <= StartOf(iv[v])
           \/ iv[v].slot + iv[v].size <= iv[w].slot \/ iv[w].slot + iv[w].size <= iv[v].slot

(* No two values that are alive at the same time share a register or bytes *)
(* of the frame.                                                           *)
PlacesApart == NoSharing /\ SlotsApart

(* What an instruction reads, itself or by way of those fused into it *)
RECURSIVE Reads(_)
Reads(r) == UNION {IF IsFused(o) THEN Reads(o) ELSE {o} : o \in Operands(r)}

ReadIn(b, x) == {r \in Refs : BlockOf(r) = b /\ insn[r].op # "PHI" /\ ~ IsFused(r) /\ x \in Reads(r)}

(* The blocks at whose end x is still to be read, from those in S on *)
RECURSIVE ReadBehind(_, _)
ReadBehind(x, S) ==
  LET start(s) == s # BlockOf(x) /\ (ReadIn(s, x) # {} \/ s \in S)
      more == {b \in Blocks : \E s \in ToSet(block[b].succ) :
                  start(s) \/ \E phi \in ToSet(PhisOf(s)) : Op(phi, PhiInput(s, b)) = x}
  IN IF more \subseteq S THEN S ELSE ReadBehind(x, S \cup more)

(* A live interval covers the end of an instruction if and only if there   *)
(* is a way from there to a reader of the value (ir_compute_live_sets and  *)
(* ir_compute_live_ranges, which go over the code backwards and know of    *)
(* the blocks of a loop only in part).  PHIs are there from the start of   *)
(* their block on.                                                         *)
RangesExact ==
  phase = "coalesce" =>
    \A x \in {r \in Refs : vregs[r] # 0} :
      \E behind \in {ReadBehind(x, {})} :
        \A r \in Refs \ {x} :
          Covers(iv[vregs[x]], SavePos(r)) <=>
            /\ BlockOf(r) = BlockOf(x) => r > x \/ insn[x].op = "PHI"
            /\ BlockOf(r) \in behind \/ \E u \in ReadIn(BlockOf(r), x) : u > r

(* The allocator comes to an end ("TODO: this may cause endless loop",     *)
(* ir_allocate_blocked_reg), and with it the code is emitted.              *)
Terminates == <>(phase = "run")

=============================================================================
