---------------------------- MODULE LiveInterval ----------------------------
(***************************************************************************)
(* Live intervals of the register allocator (ir_ra.c, ir_private.h).  An   *)
(* instruction has four positions: operands are loaded, then used, the     *)
(* result is defined, then saved.  An interval is                          *)
(*   kind    var (a virtual register), temp or fixed (a machine register)  *)
(*   vreg    its virtual register; the instruction a temporary belongs to  *)
(*   op      the operand number of a temporary                             *)
(*   ranges  its live ranges [s, e), in order                              *)
(*   cur     the number of the range current_range points to               *)
(*   uses    its use positions, in order: the position, the operand number *)
(*           (0 is the definition), a register hint, the instruction whose *)
(*           register is hinted (negative: the PHI or the fused            *)
(*           instruction that the operand belongs to) and the flags        *)
(*   flags   IR_LIVE_INTERVAL_*; next is the part split off after this one *)
(***************************************************************************)
EXTENDS Integers, Sequences, SequencesExt, FiniteSetsExt

NONE   == -1      \* IR_REG_NONE
MaxPos == 100000  \* 0x7fffffff

LoadPos(ref) == 4 * ref
UsePos(ref)  == 4 * ref + 1
DefPos(ref)  == 4 * ref + 2
SavePos(ref) == 4 * ref + 3
EndPos(ref)  == 4 * ref + 4
RefOf(pos)   == pos \div 4

MustOrShould == {"MUST", "SHOULD"}

(* FoldLeft, each of whose steps is evaluated once *)
Through(step(_, _), base, seq) ==
  LET after[k \in 0 .. Len(seq)] ==
        IF k = 0 THEN base ELSE CHOOSE r \in {step(a, seq[k]) : a \in {after[k - 1]}} : TRUE
  IN after[Len(seq)]

(* the elements of S in a strict order *)
Ordered(S, before(_, _)) ==
  [k \in 1 .. Cardinality(S) |-> CHOOSE x \in S : Cardinality({y \in S : before(y, x)}) = k - 1]

NewInterval(kind, v, s, e) ==
  [kind |-> kind, vreg |-> v, op |-> 0, size |-> 8, reg |-> NONE, slot |-> NONE, flags |-> {},
   ranges |-> <<[s |-> s, e |-> e]>>, cur |-> 1, uses |-> <<>>, next |-> 0]

StartOf(iv) == Head(iv.ranges).s
EndOf(iv)   == Last(iv.ranges).e

---------------------------------------------------------------------------
(* Ranges *)

(* [s, e) joins every range it overlaps or touches. *)
AddLiveRange(ranges, s, e) ==
  LET touched == {r \in ToSet(ranges) : r.e >= s /\ r.s <= e}
      whole   == [s |-> Min({s} \cup {r.s : r \in touched}), e |-> Max({e} \cup {r.e : r \in touched})]
  IN SelectSeq(ranges, LAMBDA r : r.e < s) \o <<whole>> \o SelectSeq(ranges, LAMBDA r : r.s > e)

(* The first position at which two lists of ranges overlap, or 0. *)
IvalsOverlap(a, b) ==
  LET common == {Max({p[1].s, p[2].s}) :
                   p \in {q \in ToSet(a) \X ToSet(b) : q[1].s < q[2].e /\ q[2].s < q[1].e}}
  IN IF common = {} THEN 0 ELSE Min(common)

IvalsInside(parent, child) ==
  \A c \in ToSet(child) :
    LET near == {k \in DOMAIN parent : parent[k].e >= c.s}
    IN near # {} /\ parent[Min(near)].s <= c.s /\ c.e <= parent[Min(near)].e

Covers(iv, pos) == \E r \in ToSet(iv.ranges) : r.s <= pos /\ pos < r.e

HasHoleBetween(iv, from, to) ==
  \E k \in DOMAIN iv.ranges : from < iv.ranges[k].s /\ \A j \in 1 .. k - 1 : iv.ranges[j].e < to

(* What is left of an interval from its current range on. *)
Rest(iv) == SubSeq(iv.ranges, iv.cur, Len(iv.ranges))

---------------------------------------------------------------------------
(* Use positions *)

UseAt(pos, op, hint, flags, ref) == [pos |-> pos, op |-> op, hint |-> hint, flags |-> flags, ref |-> ref]

(* A use goes in front of those behind it, but never in front of the first *)
(* one at the same position.                                               *)
AddUsePos(uses, u) ==
  LET at == IF uses = <<>> \/ uses[1].pos > u.pos THEN 1
            ELSE Min({k \in 2 .. Len(uses) + 1 : k > Len(uses) \/ uses[k].pos >= u.pos})
  IN InsertAt(uses, at, u)

HintFlags(uses) == (IF \E u \in ToSet(uses) : u.hint # NONE THEN {"HINT_REGS"} ELSE {})
                     \cup (IF \E u \in ToSet(uses) : u.ref > 0 THEN {"HINT_REFS"} ELSE {})

AddUse(iv, u) == [iv EXCEPT !.uses = AddUsePos(@, u), !.flags = @ \cup HintFlags(<<u>>)]

LastUsePosBefore(iv, pos, flags) ==
  Max({0} \cup {u.pos : u \in {w \in ToSet(iv.uses) : w.pos <= pos /\ w.flags \cap flags # {}}})

(* One use at the very position is passed over, unless it is a definition. *)
FirstUsePosAfter(iv, pos, flags) ==
  LET behind == {k \in DOMAIN iv.uses : iv.uses[k].pos >= pos}
      first  == IF behind = {} THEN 0 ELSE Min(behind)
      found  == {k \in behind : /\ iv.uses[k].flags \cap flags # {}
                                /\ k = first => ~ (iv.uses[k].pos = pos /\ iv.uses[k].op # 0)}
  IN IF found = {} THEN MaxPos ELSE iv.uses[Min(found)].pos

---------------------------------------------------------------------------
(* Splitting: the part before pos keeps the uses before it; a use at pos   *)
(* itself stays with it unless a range starts there.                       *)

SplitIntervalAt(iv, at) ==
  LET k     == Min({j \in DOMAIN iv.ranges : at < iv.ranges[j].e})
      r     == iv.ranges[k]
      pos   == Max({at, r.s})
      here  == SelectSeq(iv.uses, LAMBDA u : u.pos < pos \/ (u.pos = pos /\ pos # r.s))
      there == SelectSeq(iv.uses, LAMBDA u : ~ (u.pos < pos \/ (u.pos = pos /\ pos # r.s)))
      hints == {"HINT_REGS", "HINT_REFS"}
  IN [parent |-> [iv EXCEPT !.ranges = SubSeq(iv.ranges, 1, k - 1) \o
                                         (IF pos = r.s THEN <<>> ELSE <<[s |-> r.s, e |-> pos]>>),
                            !.uses = here, !.flags = (@ \ hints) \cup HintFlags(here)],
      child  |-> [iv EXCEPT !.ranges = <<[s |-> pos, e |-> r.e]>> \o SubSeq(iv.ranges, k + 1, Len(iv.ranges)),
                            !.cur = 1, !.uses = there, !.reg = NONE, !.slot = NONE,
                            !.flags = {"SPLIT_CHILD"} \cup HintFlags(there)]]

=============================================================================
