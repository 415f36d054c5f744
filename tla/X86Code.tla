------------------------------- MODULE X86Code -------------------------------
(***************************************************************************)
(* The back-end from a scheduled function to its run: ir_match selects a   *)
(* rule per instruction, the allocator gives every value a register or a   *)
(* spill slot, ir_emit_code writes the code, and the code runs beside the  *)
(* IR it was made from.                                                    *)
(*                                                                         *)
(* The allocator is any that keeps its contract with the back-end: two     *)
(* values whose live ranges overlap have different registers, a value that *)
(* must be in a register is loaded there first, a temporary and a register *)
(* that an instruction overwrites belong to nobody else.  (RegAlloc        *)
(* models the linear scan that provides this.)                             *)
(***************************************************************************)
EXTENDS X86Emit

CONSTANTS Programs,    \* functions to compile
          MaxSpilled,  \* how many values are spilled at most
          InputsOf(_)  \* the arguments a function is called with

VARIABLES phase, s, at, next, todo, busy, reg, code, ir, m

vars == <<phase, s, at, next, todo, busy, reg, code, ir, m>>

Idle == [to |-> 0]

(* the block that follows a branch, or a guard at the end of its block *)
LayoutsOf(f) ==
  LET has(op) == \E r \in DOMAIN f.insn : f.insn[r].op = op
  IN {0} \cup (IF has("IF") THEN {IfTrue, IfFalse} ELSE {}) \cup (IF has("END") THEN {IfTrue} ELSE {})

Init ==
  /\ s \in Programs
  /\ next \in LayoutsOf(s)
  /\ phase = "match"
  /\ at = Len(s.insn)
  /\ todo = {} /\ busy = {} /\ code = <<>>
  /\ reg = [k \in {} |-> NoReg]
  /\ ir = Idle /\ m = Idle

(* ir_match *)
SelectRule ==
  /\ phase = "match" /\ at > 0
  /\ s' = MatchStep(s, at)
  /\ at' = at - 1
  /\ UNCHANGED <<phase, next, todo, busy, reg, code, ir, m>>

---------------------------------------------------------------------------
(* Allocation *)

Vregs(f)      == {v \in DOMAIN f.insn : HasVreg(f, v)}
Roots(f)      == {r \in DOMAIN f.insn : IsRoot(f, r)}
AllUses(f)    == UNION {ToSet(Uses(f, r)) : r \in Roots(f)}
UsesOf(f, v)  == {u \in AllUses(f) : u.v = v}
KeyOf(u)      == <<u.root, u.ref, u.op>>
Start(f, v)   == IF f.insn[v].op = "PARAM" THEN 0 ELSE DefinedAt(f, v)

(* A part of a value's life, or a temporary, that needs a register: its    *)
(* range, the operands it serves (from the spill slot, or not), a          *)
(* preferred register, and whether it may also stay in memory.             *)
Item(a, b, ops, hint, opt) == [s |-> a, e |-> b, ops |-> ops, hint |-> hint, opt |-> opt]

HomeItem(f, v) ==
  Item(Start(f, v), Max({Start(f, v) + 1} \cup {u.pos : u \in UsesOf(f, v)}),
       {[key |-> <<v, v, 0>>, sp |-> FALSE]} \cup {[key |-> KeyOf(u), sp |-> FALSE] : u \in UsesOf(f, v)}, NONE, FALSE)

DefItem(f, v) ==
  Item(DefinedAt(f, v), Max({SavePos(v), DefinedAt(f, v) + 1}), {[key |-> <<v, v, 0>>, sp |-> TRUE]}, NONE,
       0 \notin TargetConstraints(f, v).must)

(* A spilled value is reloaded where it must be in a register; the first   *)
(* operand at a position reloads it for all of them.                       *)
ReloadItem(f, root, v, pos) ==
  LET us == SelectSeq(Uses(f, root), LAMBDA u : u.v = v /\ u.pos = pos)
      h  == TargetConstraints(f, root).hints
  IN Item(pos - 1, pos, {[key |-> KeyOf(us[k]), sp |-> k = 1] : k \in DOMAIN us},
          IF pos = LoadPos(root) /\ us[1].ref = root /\ us[1].op \in DOMAIN h THEN h[us[1].op] ELSE NONE, FALSE)

SpillItems(f, v) ==
  (IF f.insn[v].op = "PARAM" THEN {} ELSE {DefItem(f, v)})
    \cup {ReloadItem(f, u.root, v, u.pos) : u \in {w \in UsesOf(f, v) : w.must}}

TmpItems(f) ==
  UNION {{Item(t.s, t.e, {[key |-> t.key,
                           sp |-> LET o == Operands(f.insn[t.key[2]])[t.key[3]] IN IsConst(o) \/ Local(f, o)]},
               NONE, FALSE) : t \in Temporaries(f, r)} : r \in Roots(f)}

Demand(f, spilled) ==
  {HomeItem(f, v) : v \in Vregs(f) \ spilled} \cup UNION {SpillItems(f, v) : v \in spilled} \cup TmpItems(f)

Reserved(f) == UNION {Taken(f, r) : r \in Roots(f)}

Spill ==
  /\ phase = "match" /\ at = 0
  /\ \E spilled \in SUBSET Vregs(s) :
       /\ Cardinality(spilled) <= MaxSpilled
       /\ s.stack \cap Vregs(s) \subseteq spilled
       /\ todo' = Demand(s, spilled)
  /\ busy' = Reserved(s)
  /\ phase' = "alloc"
  /\ UNCHANGED <<s, at, next, reg, code, ir, m>>

Free(r, i) == \A b \in busy : b.r = r => b.e <= i.s \/ i.e <= b.s

Upcoming == CHOOSE i \in todo : \A j \in todo : i.s <= j.s

Give(i, r) == [k \in DOMAIN reg \cup {o.key : o \in i.ops} |->
                 IF k \in DOMAIN reg THEN reg[k] ELSE [r |-> r, sp |-> (CHOOSE o \in i.ops : o.key = k).sp]]

(* Registers that nothing has named yet are alike: the first stands for all. *)
RegistersFor(i) ==
  LET named == {b.r : b \in busy}
      fresh == Regs \ named
      free  == {r \in Regs : Free(r, i)}
  IN IF i.hint \in free THEN {i.hint}
     ELSE {r \in free : r \in named \/ r = Min(fresh)}

Assign ==
  /\ phase = "alloc" /\ todo # {}
  /\ LET i == Upcoming
     IN /\ \E r \in RegistersFor(i) : /\ reg' = Give(i, r)
                                 /\ busy' = busy \cup {[r |-> r, s |-> i.s, e |-> i.e]}
        /\ todo' = todo \ {i}
  /\ UNCHANGED <<phase, s, at, next, code, ir, m>>

(* A result that need not be in a register goes to memory at once. *)
LeaveInMemory ==
  /\ phase = "alloc" /\ todo # {}
  /\ Upcoming.opt
  /\ todo' = todo \ {Upcoming}
  /\ UNCHANGED <<phase, s, at, next, busy, reg, code, ir, m>>

(* No register is left: the allocator spills more than MaxSpilled values. *)
OutOfRegisters ==
  /\ phase = "alloc" /\ todo # {}
  /\ RegistersFor(Upcoming) = {} /\ ~ Upcoming.opt
  /\ phase' = "done"
  /\ UNCHANGED <<s, at, next, todo, busy, reg, code, ir, m>>

---------------------------------------------------------------------------
(* Emission, and the call of the code *)

Compiled == [s |-> s, reg |-> reg, next |-> next]

EmitCode ==
  /\ phase = "alloc" /\ todo = {}
  /\ code' = [r \in DOMAIN s.insn |-> IF IsRoot(s, r) THEN Emit(Compiled, r) ELSE <<>>]
  /\ phase' = "call"
  /\ UNCHANGED <<s, at, next, todo, busy, reg, ir, m>>

HomeOf(v) == LET e == RegOf(Compiled, v, v, 0) IN IF e.r # NONE /\ ~ e.sp THEN R(e.r) ELSE Slot(v)

(* What a register holds above the width of its value is arbitrary. *)
Junk(t, v) == Patch(Bits[t], 2^Bits64 - 1, v)

ParamsOf(f) == {r \in DOMAIN f.insn : f.insn[r].op = "PARAM"}

Call ==
  /\ phase = "call"
  /\ \E in \in InputsOf(s) :
       LET arg(v) == Ext(s.insn[v].t, in[v])
           live == ParamsOf(s) \cap Vregs(s)
       IN /\ ir' = [v |-> [r \in DOMAIN s.insn |-> IF r \in ParamsOf(s) THEN arg(r) ELSE 0],
                    mem |-> [a \in {} |-> 0], to |-> 0, ret |-> 0]
          /\ m' = [r |-> [r \in Regs \cup {RSP} |->
                            IF r = RSP THEN StackBase
                            ELSE LET here == {v \in live : HomeOf(v) = R(r)}
                                     v    == CHOOSE w \in here : TRUE
                                 IN IF here = {} THEN 2^Bits64 - 1 ELSE Junk(s.insn[v].t, arg(v))],
                   slot |-> [v \in Vregs(s) |-> IF v \in live THEN Junk(s.insn[v].t, arg(v)) ELSE 2^Bits64 - 1],
                   width |-> [v \in Vregs(s) |-> Size[s.insn[v].t]],
                   mem |-> [a \in {} |-> 0], f |-> Undefined, ok |-> TRUE, to |-> 0]
  /\ phase' = "run"
  /\ at' = Min({r \in DOMAIN s.insn : s.insn[r].op \notin {"START", "PARAM"}})
  /\ UNCHANGED <<s, next, todo, busy, reg, code>>

---------------------------------------------------------------------------
(* What the IR means *)

ValueOf(r) == CASE IsConst(r) -> Val(s, r) [] r = 0 -> 0 [] OTHER -> ir.v[r]

AddrOfVar(r) == StackBase + r

Count(op, t, x) == CASE op = "CTLZ" -> Clz(Bits[t], Low(t, x))
                     [] op = "CTTZ" -> Ctz(Bits[t], Low(t, x))
                     [] op = "CTPOP" -> Pop(Bits[t], Low(t, x))

Computed(q) ==
  LET x == ValueOf(q.op1)
      y == ValueOf(q.op2)
      z == ValueOf(q.op3)
  IN CASE q.op \in BitCounts -> Ext(q.t, Count(q.op, q.t, x))
       [] q.op = "OVERFLOW" -> LET o == s.insn[q.op1] IN Truth(Overflows(o.op, o.t, ValueOf(o.op1), ValueOf(o.op2)))
       [] q.op = "VADDR" -> AddrOfVar(q.op1)
       [] q.op = "LOAD" -> Ext(q.t, ReadMem(ir.mem, y))
       [] q.op = "VLOAD" -> Ext(q.t, ReadMem(ir.mem, AddrOfVar(q.op2)))
       [] OTHER -> Apply(q.op, q.t, TypeOf(s, q.op1), x, y, z)

Written(q) ==
  LET a == IF q.op = "VSTORE" THEN AddrOfVar(q.op2) ELSE ValueOf(q.op2)
  IN WriteMem(ir.mem, a, Patch(Bits[TypeOf(s, q.op3)], ReadMem(ir.mem, a), ValueOf(q.op3)))

BranchOf(q) ==
  CASE q.op = "IF" -> IF ValueOf(q.op2) # 0 THEN IfTrue ELSE IfFalse
    [] q.op = "GUARD" -> IF ValueOf(q.op2) # 0 THEN 0 ELSE SideExit
    [] q.op = "GUARD_NOT" -> IF ValueOf(q.op2) # 0 THEN SideExit ELSE 0
    [] q.op = "RETURN" -> Returned

Interpreted(q) ==
  CASE q.op \in Effectless -> ir
    [] q.op \in {"STORE", "VSTORE"} -> [ir EXCEPT !.mem = Written(q)]
    [] q.op \in {"IF", "GUARD", "GUARD_NOT"} -> [ir EXCEPT !.to = BranchOf(q)]
    [] q.op = "RETURN" -> [ir EXCEPT !.to = Returned, !.ret = ValueOf(q.op2)]
    [] OTHER -> [ir EXCEPT !.v[at] = Computed(q)]

(* ... and where it says nothing; the zeroes of zero are counted by         *)
(* __builtin_clz and __builtin_ctz in the C back-end                       *)
UndefinedResult(q) ==
  \/ q.op \in {"CTLZ", "CTTZ"} /\ ValueOf(q.op1) = 0
  \/ /\ q.op \in {"DIV", "MOD", "SHL", "SHR", "SAR", "ROL", "ROR"}
     /\ Traps(q.op, q.t, ValueOf(q.op1), ValueOf(q.op2))

(* Where control goes: falling through after a branch goes to the next     *)
(* block, and the block the function goes on with is no end of it.         *)
Continues(to) == \/ to = Onward
                 \/ at < Len(s.insn) /\ to = IfTrue /\ s.insn[at + 1].op = "IF_TRUE"
                 \/ at < Len(s.insn) /\ to = IfFalse /\ s.insn[at + 1].op = "IF_FALSE"
Arrived(x) == LET to == IF s.insn[at].op = "IF" /\ x.to = 0 THEN next ELSE x.to
              IN [x EXCEPT !.to = IF Continues(to) THEN 0 ELSE to]

(* until the function is left, or its result is not defined *)
Running == phase = "run" /\ ir.to = 0 /\ m.to = 0 /\ ~ UndefinedResult(s.insn[at])

Run ==
  /\ Running
  /\ ir' = Arrived(Interpreted(s.insn[at]))
  /\ m' = Arrived(Execute(m, code[at]))
  /\ at' = at + 1
  /\ UNCHANGED <<phase, s, next, todo, busy, reg, code>>

Done == phase \in {"run", "done"} /\ ~ Running /\ UNCHANGED vars

Next == SelectRule \/ Spill \/ Assign \/ LeaveInMemory \/ OutOfRegisters \/ EmitCode \/ Call \/ Run \/ Done

Spec == Init /\ [][Next]_vars

---------------------------------------------------------------------------
(* Properties *)

Needed(v) == \E u \in UsesOf(s, v) : u.root >= at

(* While the code runs, every value that a later instruction reads is in   *)
(* the register or the slot that the allocator gave it, with the bits the  *)
(* IR computes for it.                                                     *)
ValuesInPlace ==
  phase = "run" /\ ir.to = 0 /\ m.to = 0 =>
    \A v \in Vregs(s) : (v < at \/ s.insn[v].op = "PARAM") /\ Needed(v) =>
      Get(m, Size[s.insn[v].t], HomeOf(v)) = Low(s.insn[v].t, ir.v[v])

(* The code leaves the function where the IR does, returns the same value, *)
(* and has written the same memory when it is there.                       *)
SameOutcome ==
  phase = "run" =>
    /\ m.to = ir.to
    /\ \A a \in DOMAIN m.mem \cup DOMAIN ir.mem : ReadMem(m.mem, a) = ReadMem(ir.mem, a)
    /\ ir.to = Returned => LET t == TypeOf(s, s.insn[at - 1].op2) IN Get(m, Size[t], R(RAX)) = Low(t, ir.ret)

(* No template meets an operand it asserts not to get, no branch reads a   *)
(* flag that the instructions before it left undefined, and no result is   *)
(* stored beyond its slot.                                                 *)
Sound == phase = "run" => m.ok

(* The templates are used as they expect, and what they emit does what the *)
(* IR does.                                                                *)
OutcomeRight == Sound /\ SameOutcome

=============================================================================
