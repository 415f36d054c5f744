------------------------------- MODULE Coalesce -------------------------------
(***************************************************************************)
(* Virtual registers that a PHI connects, and those of conversions that    *)
(* cost nothing, are made one; operands of commutative instructions are    *)
(* swapped where this helps (ir_coalesce in ir_ra.c).                      *)
(***************************************************************************)
EXTENDS LiveRanges

VARIABLES todo,    \* blocks whose moves to PHIs are still to be looked at
          moves    \* blocks that need moves at their end (IR_BB_DESSA_MOVES)

CoalesceInit == todo = <<>> /\ moves = {}

(* Predecessors of blocks with PHIs; taken from the end of the list, which *)
(* is sorted by falling depth and rising number.                           *)
JoinEdges == {b \in Blocks : \E s \in ToSet(block[b].succ) : Len(block[s].pred) > 1 /\ PhisOf(s) # <<>>}

Deeper(a, b) == block[a].depth > block[b].depth \/ (block[a].depth = block[b].depth /\ a < b)

CoalesceStart ==
  /\ phase = "coalesce"
  /\ phase' = "phis"
  /\ todo' = Ordered(JoinEdges, Deeper)
  /\ UNCHANGED <<insn, at, vregs, iv, fixed, temps, liveOut, moves>>

(* ir_compute_dessa_moves: without optimisation nothing is made one *)
ComputeDessaMoves ==
  /\ phase = "coalesce"
  /\ phase' = "scan"
  /\ moves' = {b \in JoinEdges :
                 \E s \in ToSet(block[b].succ) : \E phi \in ToSet(PhisOf(s)) :
                   LET input == insn[phi].ops[PhiInput(s, b)]
                   IN input = 0 \/ vregs[input] # vregs[phi]}
  /\ UNCHANGED <<insn, at, vregs, iv, fixed, temps, liveOut, todo>>

---------------------------------------------------------------------------
(* Making two registers one.  w is [insn, vregs, iv, moves]. *)

Overlap(w, v1, v2) == IvalsOverlap(w.iv[v1].ranges, w.iv[v2].ranges) # 0

Unhint(uses, vr, v) == [k \in DOMAIN uses |->
  IF uses[k].ref > 0 /\ vr[uses[k].ref] = v THEN [uses[k] EXCEPT !.ref = 0] ELSE uses[k]]

RECURSIVE MergeUses(_, _)
MergeUses(a, b) ==
  IF a = <<>> THEN b
  ELSE IF b = <<>> THEN a
  ELSE LET p == Head(a)
           u == Head(b)
       IN IF p.pos < u.pos \/ (p.pos = u.pos /\ (u.op = 0 \/ (p.op # 0 /\ p.op < u.op)))
          THEN Cons(p, MergeUses(Tail(a), b))
          ELSE Cons(u, MergeUses(a, Tail(b)))

VregsJoin(w, r1, r2) ==
  LET a == w.iv[r1]
      b == w.iv[r2]
  IN [w EXCEPT
        !.iv[r1] = [a EXCEPT
           !.ranges = Through(LAMBDA rs, r : AddLiveRange(rs, r.s, r.e), a.ranges, b.ranges),
           !.uses   = MergeUses(Unhint(a.uses, w.vregs, r2), Unhint(b.uses, w.vregs, r1)),
           !.flags  = @ \cup {"COALESCED"} \cup (b.flags \cap {"HINT_REGS", "HINT_REFS", "MEM_PARAM"})],
        !.iv[r2] = [NoInterval EXCEPT !.vreg = r2]]

Renamed(vr, old, new) == [r \in DOMAIN vr |-> IF vr[r] = old THEN new ELSE vr[r]]

(* The one that already stands for several registers stays, or else the    *)
(* one defined first.  A register that stands for itself alone is renamed  *)
(* only in its instruction.                                                *)
VregsCoalesce(w, v1, v2, from, to) ==
  LET one == "COALESCED" \in w.iv[v1].flags
      two == "COALESCED" \in w.iv[v2].flags
      into1 == (one /\ ~two) \/ (one = two /\ from < to)
  IN IF into1
     THEN [VregsJoin(w, v1, v2) EXCEPT !.vregs = IF two THEN Renamed(@, v2, v1) ELSE [@ EXCEPT ![to] = v1]]
     ELSE [VregsJoin(w, v2, v1) EXCEPT !.vregs = IF one THEN Renamed(@, v1, v2) ELSE [@ EXCEPT ![from] = v2]]

---------------------------------------------------------------------------
(* Swapping the operands of a commutative instruction.  Its result and its *)
(* first operand are at the load position, the second at the use position. *)

FirstUseAt(uses, pos)  == SelectInSeq(uses, LAMBDA u : u.pos = pos)
FirstEndAt(ranges, e)  == SelectInSeq(ranges, LAMBDA r : r.e = e)

MoveEnd(w, v, from, to) ==
  LET k == FirstEndAt(w.iv[v].ranges, from)
  IN IF k = 0 THEN w ELSE [w EXCEPT !.iv[v].ranges[k].e = to]

(* the first use of v at a position becomes that of operand op at another *)
MoveUse(w, v, from, to, op) ==
  LET k == FirstUseAt(w.iv[v].uses, from)
  IN IF k = 0 THEN w ELSE [w EXCEPT !.iv[v].uses[k].pos = to, !.iv[v].uses[k].op = op]

SwapOperands(w, i) ==
  LET op1 == w.insn[i].ops[2]
      op2 == w.insn[i].ops[1]
      v1  == w.vregs[op1]
      v2  == IF op2 = 0 THEN 0 ELSE w.vregs[op2]
      x   == [w EXCEPT !.insn[i].ops = (1 :> op1) @@ (2 :> op2)]
      k1  == FirstUseAt(x.iv[v1].uses, UsePos(i))
      y   == MoveUse(x, v1, UsePos(i), LoadPos(i), 1)
      d   == FirstUseAt(y.iv[w.vregs[i]].uses, LoadPos(i))
      z   == IF d = 0 THEN y ELSE [y EXCEPT !.iv[w.vregs[i]].uses[d].ref = op1]
      k2  == IF v2 = 0 THEN 0 ELSE FirstUseAt(z.iv[v2].uses, LoadPos(i))
      q   == IF v2 = 0 THEN z
             ELSE MoveUse(MoveEnd(z, v2, LoadPos(i), UsePos(i)), v2, LoadPos(i), UsePos(i), 2)
  IN IF k1 = 0 \/ k2 = 0 THEN q
     ELSE [q EXCEPT !.iv[v1].uses[k1].flags = q.iv[v2].uses[k2].flags,
                    !.iv[v2].uses[k2].flags = q.iv[v1].uses[k1].flags]

(* The last register hinted at before ref for one and the first after ref  *)
(* for the other are not the same.                                         *)
HintConflict(w, ref, use, def) ==
  LET us == w.iv[use].uses
      n  == SelectInSeq(us, LAMBDA u : RefOf(u.pos) = ref)
      r1 == SelectSeq(IF n = 0 THEN us ELSE SubSeq(us, 1, n - 1), LAMBDA u : u.hint # NONE)
      r2 == SelectSeq(w.iv[def].uses, LAMBDA u : u.hint # NONE /\ RefOf(u.pos) > ref)
  IN r1 # <<>> /\ r2 # <<>> /\ Last(r1).hint # Head(r2).hint

(* v may share the register of the result of i *)
CanReuse(w, i, v) ==
  /\ v # 0 /\ v # w.vregs[i]
  /\ ~ Overlap(w, v, w.vregs[i])
  /\ ~ HintConflict(w, i, v, w.vregs[i])

TrySwapOperands(w, i) ==
  LET op1 == w.insn[i].ops[1]
      op2 == w.insn[i].ops[2]
      v2  == w.vregs[op2]
      x   == MoveEnd(w, v2, UsePos(i), LoadPos(i))
  IN IF \/ CanReuse(w, i, w.vregs[op1])
        \/ v2 = 0 \/ v2 = w.vregs[i]
        \/ "MEM_PARAM" \in w.iv[v2].flags /\ Len(UsersOf(op2)) = 1
        \/ FirstEndAt(w.iv[v2].ranges, UsePos(i)) = 0
        \/ ~ CanReuse(x, i, v2)
     THEN w ELSE SwapOperands(x, i)

---------------------------------------------------------------------------
(* One edge *)

Reuses(w, v) == w.iv[v].uses # <<>> /\ "REUSES" \in Head(w.iv[v].uses).flags

(* A register that ends with the use by its own PHI's input ends earlier   *)
(* once the operands of that input are swapped.                            *)
SwapForPhi(w, b, input, phi) ==
  LET v1 == w.vregs[input]
      v2 == w.vregs[phi]
      x  == MoveEnd(w, v2, UsePos(input), LoadPos(input))
  IN IF /\ MaySwap(input) /\ w.insn[input].ops[2] = phi /\ w.insn[input].ops[1] # phi
        /\ Reuses(w, v1) /\ FirstEndAt(w.iv[v2].ranges, UsePos(input)) # 0
        /\ ~ Overlap(x, v1, v2)
     THEN VregsCoalesce(SwapOperands(x, input), v1, v2, input, phi)
     ELSE [w EXCEPT !.moves = @ \cup {b}]

CoalescePhi(w, b, phi, k) ==
  LET input == w.insn[phi].ops[k]
  IN IF input = 0 THEN [w EXCEPT !.moves = @ \cup {b}]
     ELSE IF w.vregs[input] = w.vregs[phi] THEN w
     ELSE IF ~ Overlap(w, w.vregs[input], w.vregs[phi])
          THEN VregsCoalesce(w, w.vregs[input], w.vregs[phi], input, phi)
     ELSE SwapForPhi(w, b, input, phi)

Work == [insn |-> insn, vregs |-> vregs, iv |-> iv, moves |-> moves]

Becomes(W) == \E w \in {W} : insn' = w.insn /\ vregs' = w.vregs /\ iv' = w.iv /\ moves' = w.moves

CoalesceBlock ==
  /\ phase = "phis" /\ todo # <<>>
  /\ LET b == Last(todo)
         s == block[b].succ[1]
     IN Becomes(Through(LAMBDA w, phi : CoalescePhi(w, b, phi, PhiInput(s, b)), Work, PhisOf(s)))
  /\ todo' = Front(todo)
  /\ UNCHANGED <<phase, at, fixed, temps, liveOut>>

---------------------------------------------------------------------------
(* Hints *)

AddHint(i, pos, hint) ==
  IF "HINT_REGS" \in i.flags \/ ~ \E u \in ToSet(i.uses) : u.pos = pos /\ u.hint = NONE THEN i
  ELSE [i EXCEPT !.flags = @ \cup {"HINT_REGS"},
                 !.uses  = [k \in DOMAIN @ |-> IF @[k].pos = pos /\ @[k].hint = NONE
                                               THEN [@[k] EXCEPT !.hint = hint] ELSE @[k]]]

(* A register hinted at for a use is passed to the interval that the       *)
(* definition before it would like to share a register with.               *)
PassHint(a, u) ==
  IF u.op = 0 THEN IF u.ref > 0 THEN [a EXCEPT !.def = <<u>>] ELSE a
  ELSE IF u.hint = NONE \/ a.def = <<>> THEN a
  ELSE [iv |-> [a.iv EXCEPT ![vregs[a.def[1].ref]] = AddHint(@, a.def[1].pos, u.hint)], def |-> <<>>]

PassHints(ivs, i) ==
  IF {"HINT_REGS", "HINT_REFS"} \subseteq ivs[i].flags
  THEN Through(PassHint, [iv |-> ivs, def |-> <<>>], ivs[i].uses).iv ELSE ivs

HintPropagation ==
  /\ phase = "phis" /\ todo = <<>>
  /\ phase' = "swap"
  /\ at' = 1
  /\ iv' = Through(PassHints, iv, Reverse([v \in 1 .. Len(iv) |-> v]))
  /\ UNCHANGED <<insn, vregs, fixed, temps, liveOut, todo, moves>>

---------------------------------------------------------------------------
(* Operands once more, and conversions *)

(* ir_vregs_inside refuses registers that stand for several. *)
VregsInside(w, parent, child) ==
  /\ "COALESCED" \notin w.iv[parent].flags \cup w.iv[child].flags
  /\ IvalsInside(w.iv[parent].ranges, w.iv[child].ranges)

SwapOrReuse(w, i) ==
  LET ops == w.insn[i].ops
      v1  == IF ops[1] = 0 THEN 0 ELSE w.vregs[ops[1]]
  IN IF /\ MaySwap(i) /\ Reuses(w, w.vregs[i])
        /\ ops[1] # 0 /\ ops[2] # 0 /\ ops[1] # ops[2] THEN TrySwapOperands(w, i)
     ELSE IF /\ MayReuse(i) /\ v1 # 0 /\ v1 # w.vregs[i]
             /\ VregsInside(w, v1, w.vregs[i]) THEN VregsCoalesce(w, w.vregs[i], v1, i, ops[1])
     ELSE w

SwapAndReuse ==
  /\ phase = "swap" /\ at <= Len(insn)
  /\ at' = at + 1
  /\ IF MaySwap(at) \/ MayReuse(at) THEN Becomes(SwapOrReuse(Work, at))
     ELSE UNCHANGED <<insn, vregs, iv, moves>>
  /\ UNCHANGED <<phase, fixed, temps, liveOut, todo>>

(* Registers are numbered without gaps. *)
Compact ==
  /\ phase = "swap" /\ at > Len(insn)
  /\ phase' = "scan"
  /\ LET kept == SelectSeq([v \in 1 .. Len(iv) |-> v], LAMBDA v : iv[v].ranges # <<>>)
         xlat == [v \in ToSet(kept) |-> SelectInSeq(kept, LAMBDA x : x = v)]
     IN /\ iv' = [n \in DOMAIN kept |-> [iv[kept[n]] EXCEPT !.vreg = n]]
        /\ vregs' = [r \in Refs |-> IF vregs[r] = 0 THEN 0 ELSE xlat[vregs[r]]]
  /\ UNCHANGED <<insn, at, fixed, temps, liveOut, todo, moves>>

CoalesceNext ==
  \/ CoalesceStart \/ ComputeDessaMoves \/ CoalesceBlock
  \/ HintPropagation \/ SwapAndReuse \/ Compact

=============================================================================
