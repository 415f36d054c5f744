------------------------------ MODULE LinearScan ------------------------------
(***************************************************************************)
(* Linear scan register allocation with splitting (ir_linear_scan and the  *)
(* functions it calls in ir_ra.c).  iv holds the intervals of the virtual  *)
(* registers 1 .. n, then the temporaries and the fixed registers; parts   *)
(* that are split off are appended.  Lists are sequences of numbers of     *)
(* intervals.                                                              *)
(***************************************************************************)
EXTENDS Coalesce

VARIABLES unhandled, active, inactive,
          cur,      \* the interval being given a register
          pick,     \* what ir_allocate_blocked_reg knows of the registers
          fault     \* an assertion has failed or there is no solution

scanVars == <<iv, unhandled, active, inactive, fault>>

ScanInit == /\ unhandled = <<>> /\ active = <<>> /\ inactive = <<>>
            /\ cur = 0 /\ pick = <<>> /\ fault = FALSE

Hints == {"HINT_REGS", "HINT_REFS"}

(* w is [iv, unhandled, active, inactive, fault] *)
Lists == [iv |-> iv, unhandled |-> unhandled, active |-> active, inactive |-> inactive, fault |-> fault]

ListsBecome(W) == \E w \in {W} : /\ iv' = w.iv /\ unhandled' = w.unhandled /\ active' = w.active
                                  /\ inactive' = w.inactive /\ fault' = w.fault

---------------------------------------------------------------------------
(* The queue is in the order of the starts; at the same start those with   *)
(* hints come first, or those of later registers.                          *)

GoesBefore(a, b) ==
  \/ StartOf(a) < StartOf(b)
  \/ /\ StartOf(a) = StartOf(b)
     /\ (a.flags \cap Hints # {} /\ b.flags \cap Hints = {}) \/ a.vreg > b.vreg

AddToUnhandled(w, id) ==
  LET k == SelectInSeq(w.unhandled, LAMBDA o : GoesBefore(w.iv[id], w.iv[o]))
  IN [w EXCEPT !.unhandled = InsertAt(@, IF k = 0 THEN Len(@) + 1 ELSE k, id)]

MergeToUnhandled(w, id) ==
  LET k == SelectInSeq(w.unhandled, LAMBDA o : StartOf(w.iv[o]) > StartOf(w.iv[id]))
  IN [w EXCEPT !.unhandled = InsertAt(@, IF k = 0 THEN Len(@) + 1 ELSE k, id)]

(* A parameter on the stack that is read once, outside loops, stays there. *)
SpillForFuseLoad(i) ==
  /\ "MEM_PARAM" \in i.flags
  /\ Len(i.uses) < 3
  /\ Len(i.uses) = 2 => /\ "MUST" \notin i.uses[2].flags
                        /\ block[BlockOf(RefOf(i.uses[2].pos))].depth = 0

(* A block with moves has a temporary register at its end. *)
MoveTemp(b) == NewInterval("temp", block[b].end, UsePos(block[b].end), SavePos(block[b].end))

StartScan ==
  /\ phase = "scan"
  /\ phase' = "take"
  /\ LET tmps == Through(LAMBDA x, b : AddTmp(x, MoveTemp(b)), [temps |-> temps],
                          Ordered(moves, <)).temps
         regs == Ordered({r \in DOMAIN fixed : fixed[r] # <<>>}, <)
         fix(r) == [NewInterval("fixed", Len(iv) + 1 + r, 0, 0) EXCEPT !.reg = r, !.ranges = fixed[r]]
         n    == Len(iv)
         all  == iv \o tmps \o [k \in DOMAIN regs |-> fix(regs[k])]
         vars == SelectSeq([k \in 1 .. n |-> n + 1 - k], LAMBDA v : ~ SpillForFuseLoad(iv[v]))
         none == [Lists EXCEPT !.iv = all]
     IN ListsBecome([Through(MergeToUnhandled, Through(AddToUnhandled, none, vars),
                              [k \in DOMAIN tmps |-> n + k])
                       EXCEPT !.inactive = Reverse([k \in DOMAIN regs |-> n + Len(tmps) + k])])
  /\ fixed' = <<>> /\ temps' = <<>>
  /\ UNCHANGED <<insn, at, vregs, liveOut, todo, moves, cur, pick>>

---------------------------------------------------------------------------
(* Taking the next interval: those that have ended are dropped, those in a *)
(* hole become inactive.                                                   *)

NextRange(i, pos) ==
  LET ks == {k \in i.cur .. Len(i.ranges) : i.ranges[k].e > pos} IN IF ks = {} THEN 0 ELSE Min(ks)

Take ==
  /\ phase = "take" /\ unhandled # <<>>
  /\ phase' = "free"
  /\ cur' = Head(unhandled)
  /\ unhandled' = Tail(unhandled)
  /\ LET pos   == StartOf(iv[cur'])
         at0   == [i \in ToSet(active) \cup ToSet(inactive) |-> NextRange(iv[i], pos)]
         in(i) == at0[i] # 0 /\ iv[i].ranges[at0[i]].s <= pos
         out(i) == at0[i] # 0 /\ iv[i].ranges[at0[i]].s > pos
     IN /\ active' = Reverse(SelectSeq(inactive, in)) \o SelectSeq(active, in)
        /\ inactive' = Reverse(SelectSeq(active, out)) \o SelectSeq(inactive, out)
        /\ iv' = [i \in DOMAIN iv |->
                    IF i = cur' THEN [iv[i] EXCEPT !.cur = 1]
                    ELSE IF i \in DOMAIN at0 /\ at0[i] # 0 THEN [iv[i] EXCEPT !.cur = at0[i]]
                    ELSE iv[i]]
  /\ pick' = <<>>
  /\ UNCHANGED <<insn, at, vregs, liveOut, fixed, temps, todo, moves, fault>>

---------------------------------------------------------------------------
(* Splitting *)

(* ir_split_interval_at *)
SplitAt(w, id, pos) ==
  LET i == w.iv[id]
      n == Len(w.iv) + 1
  IN IF pos <= StartOf(i) \/ \A r \in ToSet(i.ranges) : pos >= r.e THEN [w EXCEPT !.fault = TRUE]
     ELSE LET s == SplitIntervalAt(i, pos)
          IN [w EXCEPT !.iv = Append([@ EXCEPT ![id] = [s.parent EXCEPT !.next = n]], s.child)]

SplitAndQueue(w, id, pos) ==
  LET x == SplitAt(w, id, pos) IN IF x.fault THEN x ELSE AddToUnhandled(x, Len(x.iv))

(* The end of the block before the outermost loop around b that begins     *)
(* behind min *)
RECURSIVE LoopEntry(_, _)
LoopEntry(b, min) ==
  LET e == block[block[b].header].idom
  IN IF DefPos(block[e].end) < min THEN b
     ELSE IF block[e].depth > 0 THEN LoopEntry(e, min) ELSE e

FindOptimalSplitPosition(i, min, max, preferMax) ==
  LET minb == BlockOf(RefOf(min))
      maxb == BlockOf(RefOf(max))
      b    == IF block[maxb].depth > 0 THEN LoopEntry(maxb, min) ELSE maxb
  IN IF min = max THEN max
     ELSE IF minb = maxb \/ HasHoleBetween(i, min, max) THEN IF preferMax THEN max ELSE min
     ELSE IF block[maxb].depth > 0 /\ DefPos(block[b].end) < max THEN DefPos(block[b].end)
     ELSE IF LoadPos(block[b].start) > min THEN LoadPos(block[b].start)
     ELSE max

OptimalAsserts(i, min, max) == min = max \/ (min < max /\ min >= StartOf(i) /\ max < EndOf(i))

SplitOptimal(w, id, min, max, preferMax) ==
  SplitAndQueue([w EXCEPT !.fault = @ \/ ~ OptimalAsserts(w.iv[id], min, max)], id,
                FindOptimalSplitPosition(w.iv[id], min, max, preferMax))

---------------------------------------------------------------------------
(* ir_try_allocate_free_reg *)

Overlapping == {o \in ToSet(inactive) : IvalsOverlap(iv[cur].ranges, Rest(iv[o])) # 0}

NotActive == Regs \ UNION {RegSet(iv[o].reg) : o \in ToSet(active)}

FreeUntil == [r \in Regs |->
  Min({MaxPos} \cup {IvalsOverlap(iv[cur].ranges, Rest(iv[o])) : o \in {p \in Overlapping : r \in RegSet(iv[p].reg)}})]

HintedBy(u) == IF u.ref > 0 THEN iv[vregs[u.ref]].reg ELSE NONE

FirstOf(uses, reg(_), ok(_)) ==
  LET k == SelectInSeq(uses, LAMBDA u : ok(reg(u))) IN IF k = 0 THEN NONE ELSE reg(uses[k])

(* ir_try_allocate_preferred_reg: registers hinted at, then those of other *)
(* intervals *)
PreferredFree(i, available, until) ==
  LET fits(r) == r \in available /\ EndOf(i) <= until[r]
      byReg == FirstOf(i.uses, LAMBDA u : u.hint, fits)
  IN IF "HINT_REGS" \in i.flags /\ byReg # NONE THEN byReg
     ELSE IF "HINT_REFS" \in i.flags THEN FirstOf(i.uses, HintedBy, fits) ELSE NONE

(* Scratch registers that no interval starting soon is hinted at *)
NonConflicting(scratch) ==
  LET soon == SelectSeq(unhandled, LAMBDA o : /\ StartOf(iv[o]) < Head(iv[cur].ranges).e
                                              /\ "HINT_REGS" \in iv[o].flags)
  IN Through(LAMBDA S, o : S \ {FirstOf(iv[o].uses, LAMBDA u : u.hint, LAMBDA r : r \in S)}, scratch, soon)

AnyFree(available) ==
  LET scratch == available \cap ScratchRegs
      calm    == NonConflicting(scratch)
  IN Min(IF calm # {} THEN calm ELSE IF scratch # {} THEN scratch ELSE available)

FreeReg(available, until) ==
  LET hinted == PreferredFree(iv[cur], available, until)
      before == iv[iv[cur].vreg].reg
  IN IF hinted # NONE THEN hinted
     ELSE IF "SPLIT_CHILD" \in iv[cur].flags /\ before \in available THEN before
     ELSE AnyFree(available)

(* The interval is active if the next one starts before it ends. *)
Assign(w, reg) ==
  [w EXCEPT !.iv[cur].reg = reg,
            !.active = IF w.unhandled # <<>> /\ EndOf(w.iv[cur]) > StartOf(w.iv[Head(w.unhandled)])
                       THEN Cons(cur, @) ELSE @]

Taken(r, until) == until[r] # MaxPos

AllocateFreeReg ==
  /\ phase = "free"
  /\ LET until == FreeUntil
         free  == {r \in NotActive : ~ Taken(r, until)}
     IN free # {} /\ ListsBecome(Assign(Lists, FreeReg(free, until)))
  /\ phase' = "take"
  /\ UNCHANGED <<insn, at, vregs, liveOut, fixed, temps, todo, moves, cur, pick>>

(* The register that is free longest, a scratch register if there is one *)
LongestFree(taken, until) ==
  LET best == {r \in taken : \A q \in taken : until[q] <= until[r]}
  IN Min(IF best \cap ScratchRegs # {} THEN best \cap ScratchRegs ELSE best)

FirstPartEnd(reg, until) == LastUsePosBefore(iv[cur], until[reg], MustOrShould)

SplitFirstPart(reg, until) ==
  LET w   == SplitAt([Lists EXCEPT !.fault = ~ OptimalAsserts(iv[cur], FirstPartEnd(reg, until), until[reg])], cur,
                     FindOptimalSplitPosition(iv[cur], FirstPartEnd(reg, until), until[reg], FALSE))
      i   == w.iv[cur]
      hinted == IF i.flags \cap Hints = {} THEN NONE ELSE PreferredFree(i, NotActive, until)
  IN IF w.fault THEN w
     ELSE AddToUnhandled(Assign(w, IF hinted # NONE THEN hinted ELSE reg), Len(w.iv))

(* A register that is free for the first part of the interval *)
AllocateFirstPart ==
  /\ phase = "free"
  /\ LET until == FreeUntil
     IN /\ NotActive # {} /\ \A r \in NotActive : Taken(r, until)
        /\ LET reg == LongestFree(NotActive, until)
           IN FirstPartEnd(reg, until) > StartOf(iv[cur]) /\ ListsBecome(SplitFirstPart(reg, until))
  /\ phase' = "take"
  /\ UNCHANGED <<insn, at, vregs, liveOut, fixed, temps, todo, moves, cur, pick>>

---------------------------------------------------------------------------
(* ir_allocate_blocked_reg.  For each register: when its interval is used  *)
(* next, from where on it is fixed, and a score for intervals that have    *)
(* been split before.                                                      *)

MustUse(i) == SelectInSeq(i.uses, LAMBDA u : "MUST" \in u.flags)

Earlier(t, r, next, score) == IF next < t.next[r] THEN [t EXCEPT !.next[r] = next, !.score[r] = score] ELSE t

(* interval o, which holds r, is met at position pos *)
Note(t, r, o, pos) ==
  IF iv[o].kind # "var"
  THEN [Earlier(t, r, pos, IF pos = 0 THEN t.score[r] ELSE 0) EXCEPT !.block[r] = Min({@, pos})]
  ELSE Earlier(t, r, FirstUsePosAfter(iv[o], StartOf(iv[cur]), MustOrShould),
               IF "SPLIT_CHILD" \in iv[o].flags THEN 1 ELSE 0)

NoteAll(t, o, pos) == Through(LAMBDA x, r : Note(x, r, o, pos), t, Ordered(RegSet(iv[o].reg), <))

BlockedTable ==
  LET none(n) == [r \in Regs |-> n]
      t0 == [next |-> none(MaxPos), block |-> none(MaxPos), score |-> none(0)]
      t1 == Through(LAMBDA t, o : NoteAll(t, o, 0), t0, active)
  IN Through(LAMBDA t, o : NoteAll(t, o, IvalsOverlap(iv[cur].ranges, Rest(iv[o]))), t1,
              SelectSeq(inactive, LAMBDA o : o \in Overlapping))

(* ir_get_preferred_reg *)
Preferred(i) ==
  IF i.flags \cap Hints = {} THEN NONE
  ELSE FirstOf(i.uses, LAMBDA u : IF u.hint # NONE THEN u.hint ELSE HintedBy(u), LAMBDA r : r \in Regs)

NoFreePart ==
  LET until == FreeUntil
  IN /\ \A r \in NotActive : Taken(r, until)
     /\ NotActive # {} => FirstPartEnd(LongestFree(NotActive, until), until) <= StartOf(iv[cur])

(* An interval that nowhere must be in a register stays in memory. *)
Spill ==
  /\ phase = "free" /\ NoFreePart
  /\ iv[cur].kind = "var" /\ MustUse(iv[cur]) = 0
  /\ phase' = "take"
  /\ UNCHANGED <<insn, at, vregs, liveOut, todo, moves, fixed, temps, cur, pick>> /\ UNCHANGED scanVars

LookForBlocked ==
  /\ phase = "free" /\ NoFreePart
  /\ iv[cur].kind = "var" => MustUse(iv[cur]) # 0
  /\ phase' = "blocked"
  /\ pick' = [table |-> BlockedTable, available |-> Regs, prefer |-> Preferred(iv[cur]),
              use |-> IF iv[cur].kind = "var" THEN iv[cur].uses[MustUse(iv[cur])].pos ELSE EndOf(iv[cur])]
  /\ UNCHANGED <<insn, at, vregs, liveOut, todo, moves, fixed, temps, cur>> /\ UNCHANGED scanVars

(* select_register: the best score, 2^28 for a split interval and the next *)
(* use; among equals the preferred register, or else the first one.        *)
BestReg ==
  LET t == pick.table
      score(r) == (MaxPos \div 8) * t.score[r] + t.next[r]
      best == {r \in pick.available : \A q \in pick.available : score(q) <= score(r)}
  IN IF pick.prefer \in best THEN pick.prefer ELSE Min(best)

LatestUse == Max({pick.table.next[r] : r \in pick.available})

SpillSplitPos ==
  IF pick.use = StartOf(iv[cur]) THEN pick.use + 1
  ELSE FindOptimalSplitPosition(iv[cur], StartOf(iv[cur]), pick.use - 1, TRUE)

OthersUsedBefore == pick.use > LatestUse /\ iv[cur].kind = "var" /\ SpillSplitPos > StartOf(iv[cur])

BlockPos == pick.table.block[BestReg]
UseBeforeBlock == LastUsePosBefore(iv[cur], BlockPos + 1, MustOrShould)
BlockedLater == EndOf(iv[cur]) > BlockPos

(* All others are used before the current interval, which is in memory     *)
(* until its first use; or nothing is used before the register is taken.   *)
SpillCurrent ==
  /\ phase = "blocked"
  /\ ~ OthersUsedBefore => BlockedLater /\ UseBeforeBlock = 0
  /\ LET asserts == IF pick.use = StartOf(iv[cur]) THEN Head(iv[cur].uses).op = 0
                    ELSE OptimalAsserts(iv[cur], StartOf(iv[cur]), pick.use - 1)
     IN ListsBecome(SplitAndQueue([Lists EXCEPT !.fault = OthersUsedBefore /\ ~ asserts], cur,
                                  IF OthersUsedBefore THEN SpillSplitPos
                                  ELSE FirstUsePosAfter(iv[cur], BlockPos, MustOrShould) - 1))
  /\ phase' = "take"
  /\ UNCHANGED <<insn, at, vregs, liveOut, fixed, temps, todo, moves, cur, pick>>

---------------------------------------------------------------------------
(* Evicting the interval that holds the register.  The result is the lists *)
(* or <<>> when another register has to be tried.                          *)

Without(s, x) == SelectSeq(s, LAMBDA y : y # x)

(* child, which begins where o loses its register, is in memory until its  *)
(* next use.                                                               *)
Requeue(w, o, child) ==
  LET i   == w.iv[child]
      pos == StartOf(iv[cur])
      use == FirstUsePosAfter(i, pos, MustOrShould) - 1
      opt == FindOptimalSplitPosition(i, pos, use, TRUE)
      x   == [w EXCEPT !.fault = @ \/ ~ OptimalAsserts(i, pos, use), !.active = Without(@, o)]
  IN IF use > StartOf(i) /\ use < EndOf(i)
     THEN SplitAndQueue(IF child = o THEN [x EXCEPT !.iv[o].reg = NONE] ELSE x, child,
                        IF opt > StartOf(i) THEN opt ELSE use)
     ELSE IF child # o THEN AddToUnhandled(w, child)
     ELSE <<>>

EvictActive(w, o) ==
  LET i    == w.iv[o]
      pos  == StartOf(iv[cur])
      last == LastUsePosBefore(i, pos, MustOrShould)
      opt  == FindOptimalSplitPosition(i, last, pos, TRUE)
      x    == SplitAt([w EXCEPT !.fault = @ \/ ~ OptimalAsserts(i, last, pos), !.active = Without(@, o)], o, opt)
  IN IF IvalsOverlap(w.iv[cur].ranges, Rest(i)) = 0 THEN w
     ELSE IF i.kind = "fixed" THEN [w EXCEPT !.fault = TRUE]
     ELSE IF last = 0 THEN Requeue(w, o, o)
     ELSE IF opt <= StartOf(i) THEN <<>>
     ELSE IF x.fault THEN x
     ELSE Requeue(x, o, Len(x.iv))

(* Mutant: intervals in a hole keep the register. *)
EvictInactive_keep(w, o) == w

EvictInactive(w, o) ==
  LET pos == IvalsOverlap(w.iv[cur].ranges, Rest(w.iv[o]))
      x   == SplitAt(w, o, pos)
  IN IF pos = 0 THEN w
     ELSE IF w.iv[o].kind = "fixed" \/ x.fault THEN [w EXCEPT !.fault = TRUE]
     ELSE AddToUnhandled([x EXCEPT !.iv[o].cur = 1], Len(x.iv))

Holding(w, list, reg) == SelectSeq(list, LAMBDA o : w.iv[o].reg = reg)

Evicted(w, reg) ==
  LET held == Holding(w, w.active, reg)
  IN IF held = <<>> THEN w ELSE EvictActive(w, Head(held))

(* The current interval up to where the register is taken *)
UntilBlocked ==
  IF BlockedLater THEN SplitOptimal(Lists, cur, UseBeforeBlock, BlockPos, TRUE) ELSE Lists

(* Mutant: a register taken before the last use is tried all the same. *)
CanEvict_always == TRUE

CanEvict == ~ (BlockedLater /\ UseBeforeBlock >= BlockPos)

(* The register is taken from the intervals that hold it. *)
SplitOthers ==
  /\ phase = "blocked" /\ ~ OthersUsedBefore /\ CanEvict
  /\ BlockedLater => UseBeforeBlock # 0
  /\ \E reg \in {BestReg} : \E w \in {UntilBlocked} :
       /\ ~ w.fault /\ Evicted(w, reg) # <<>>
       /\ LET x == Evicted(w, reg)
          IN ListsBecome(Assign(Through(EvictInactive, x, Holding(x, x.inactive, reg)), reg))
  /\ phase' = "take"
  /\ UNCHANGED <<insn, at, vregs, liveOut, fixed, temps, todo, moves, cur, pick>>

(* Mutant: only the last register is left out. *)
TryNextRegister_last ==
  /\ phase = "blocked" /\ ~ OthersUsedBefore
  /\ BlockedLater => UseBeforeBlock # 0
  /\ \E w \in {IF CanEvict THEN UntilBlocked ELSE Lists} :
       /\ w.fault \/ ~ CanEvict \/ Evicted(w, BestReg) = <<>>
       /\ ListsBecome(w)
  /\ pick' = [pick EXCEPT !.available = Regs \ {BestReg}, !.prefer = NONE]
  /\ UNCHANGED <<insn, at, vregs, liveOut, fixed, temps, todo, moves, phase, cur>>

(* try_next_available_register; the current interval may have been split  *)
TryNextRegister ==
  /\ phase = "blocked" /\ ~ OthersUsedBefore
  /\ BlockedLater => UseBeforeBlock # 0
  /\ \E w \in {IF CanEvict THEN UntilBlocked ELSE Lists} :
       /\ w.fault \/ ~ CanEvict \/ Evicted(w, BestReg) = <<>>
       /\ ListsBecome([w EXCEPT !.fault = @ \/ pick.available = {BestReg}])
  /\ pick' = [pick EXCEPT !.available = @ \ {BestReg}, !.prefer = NONE]
  /\ UNCHANGED <<insn, at, vregs, liveOut, fixed, temps, todo, moves, phase, cur>>

ScanDone ==
  /\ phase = "take" /\ unhandled = <<>>
  /\ phase' = "slots"
  /\ cur' = 0 /\ pick' = <<>> /\ active' = <<>> /\ inactive' = <<>>
  /\ UNCHANGED <<insn, at, vregs, liveOut, fixed, temps, todo, moves, iv, unhandled, fault>>

ScanNext ==
  /\ ~ fault
  /\ \/ StartScan \/ Take \/ AllocateFreeReg \/ AllocateFirstPart \/ Spill \/ LookForBlocked
     \/ SpillCurrent \/ SplitOthers \/ TryNextRegister \/ ScanDone

---------------------------------------------------------------------------
(***************************************************************************)
(* Stack slots for the virtual registers that are not in a register all    *)
(* the time: a linear scan without holes, from the first range of the      *)
(* first part of an interval to the last of its last part (the end of      *)
(* ir_linear_scan, and ir_allocate_small_spill_slot, in ir_ra.c).          *)
(***************************************************************************)

VARIABLES slots    \* [handled, unused, frame]: for each size the intervals whose slots may
                   \* be used again, the rest of a slot that was cut up, and the frame size

SlotSizes == {1, 2, 4, 8}

SlotsInit == slots = [handled |-> [n \in SlotSizes |-> <<>>],
                      unused  |-> [n \in SlotSizes |-> 0], frame |-> 0]

RECURSIVE LastPart(_)
LastPart(id) == IF iv[id].next = 0 THEN id ELSE LastPart(iv[id].next)

SpillEnd(v) == EndOf(iv[LastPart(v)])

Vregs == {v \in DOMAIN iv : iv[v].kind = "var" /\ "SPLIT_CHILD" \notin iv[v].flags}

(* IR_RA_HAVE_SPLITS, IR_RA_HAVE_SPILLS *)
HaveSplits == \E i \in DOMAIN iv : iv[i].next # 0
HaveSpills == \E v \in Vregs : iv[v].reg = NONE /\ ~ SpillForFuseLoad(iv[v])

Spilled == IF HaveSplits \/ HaveSpills
           THEN {v \in Vregs : iv[v].next # 0 \/ iv[v].reg = NONE} ELSE {}

StartSlots ==
  /\ phase = "slots"
  /\ phase' = "slot"
  /\ \E S \in {Spilled} :
       /\ iv' = [i \in DOMAIN iv |-> IF i \in S THEN [iv[i] EXCEPT !.flags = @ \cup {"SPILLED"}] ELSE iv[i]]
       /\ unhandled' = Ordered({v \in S : "MEM_PARAM" \notin iv[v].flags},
                          LAMBDA a, b : \/ StartOf(iv[a]) < StartOf(iv[b])
                                        \/ StartOf(iv[a]) = StartOf(iv[b]) /\ a < b)
  /\ UNCHANGED <<insn, at, vregs, liveOut, fixed, temps, todo, moves, active, inactive, cur, pick, fault, slots>>

---------------------------------------------------------------------------
(* m is slots; from and to are the interval's first and last position *)

(* The slot of an interval that has ended is free, once. *)
Free(m, v) ==
  LET n == iv[v].size
  IN IF \E o \in ToSet(m.handled[n]) : iv[o].slot = iv[v].slot THEN m
     ELSE [m EXCEPT !.handled[n] = Cons(v, @)]

(* A slot of size whole at pos serves for size n; what is left of it is    *)
(* remembered in pieces.                                                   *)
Cut(m, pos, n, whole) ==
  [m |-> [m EXCEPT !.unused = [k \in SlotSizes |-> IF n <= k /\ k < whole THEN pos + k ELSE @[k]]], pos |-> pos]

(* A free slot of the size, a piece of a slot, a greater slot that is cut  *)
(* up, or a new one                                                        *)
AllocateSpillSlot(m, n) ==
  LET pieces == {k \in SlotSizes : k >= n /\ m.unused[k] # 0}
      piece  == Min(pieces)
      larger == {k \in SlotSizes : k > n /\ m.handled[k] # <<>>}
      large  == Min(larger)
      first(k) == iv[Head(m.handled[k])].slot
      drop(k)  == [m EXCEPT !.handled[k] = Tail(@)]
  IN IF m.handled[n] # <<>> THEN Cut(drop(n), first(n), n, n)
     ELSE IF pieces # {} THEN Cut([m EXCEPT !.unused[piece] = 0], m.unused[piece], n, piece)
     ELSE IF larger # {} THEN Cut(drop(large), first(large), n, large)
     ELSE Cut([m EXCEPT !.frame = @ + 8], m.frame, n, 8)

TakeSlot ==
  /\ phase = "slot" /\ unhandled # <<>>
  /\ LET v    == Head(unhandled)
         over == SelectSeq(active, LAMBDA o : SpillEnd(o) <= StartOf(iv[v]))
         left == SelectSeq(active, LAMBDA o : SpillEnd(o) > StartOf(iv[v]))
         more == Tail(unhandled) # <<>> /\ SpillEnd(v) > StartOf(iv[unhandled[2]])
     IN \E a \in {AllocateSpillSlot(Through(Free, slots, over), iv[v].size)} :
          /\ iv' = [iv EXCEPT ![v].slot = a.pos]
          /\ active' = IF more THEN Cons(v, left) ELSE left
          /\ slots' = IF more \/ \E o \in ToSet(a.m.handled[iv[v].size]) : iv[o].slot = a.pos THEN a.m
                      ELSE [a.m EXCEPT !.handled[iv[v].size] = Cons(v, @)]
  /\ unhandled' = Tail(unhandled)
  /\ UNCHANGED <<insn, phase, at, vregs, liveOut, fixed, temps, todo, moves, inactive, cur, pick, fault>>

SlotsDone ==
  /\ phase = "slot" /\ unhandled = <<>>
  /\ phase' = "assign"
  /\ active' = <<>>
  /\ slots' = [slots EXCEPT !.handled = [n \in SlotSizes |-> <<>>]]
  /\ UNCHANGED <<insn, at, vregs, liveOut, fixed, temps, todo, moves, iv, unhandled, inactive, cur, pick, fault>>

SlotsNext == StartSlots \/ TakeSlot \/ SlotsDone

---------------------------------------------------------------------------
(***************************************************************************)
(* The registers of operands and results (assign_regs in ir_ra.c).  A      *)
(* register is [n, mem]: with mem, an operand is loaded from its slot      *)
(* before it is used and a result is stored (IR_REG_SPILL_LOAD and         *)
(* IR_REG_SPILL_STORE).                                                    *)
(***************************************************************************)

VARIABLES regs,    \* ctx->regs, by instruction and operand
          fused    \* ctx->fused_regs, by the instruction that reads a fused one

AssignInit == regs = <<>> /\ fused = <<>>

NoReg  == [n |-> NONE, mem |-> FALSE]
In(r)  == [n |-> r, mem |-> FALSE]
Via(r) == [n |-> r, mem |-> TRUE]

RegOf(rs, ref, op) == IF <<ref, op>> \in DOMAIN rs THEN rs[<<ref, op>>] ELSE NoReg

(* a is [regs, fused, available, prev, second]: the blocks at whose end    *)
(* the register holds the value, the instruction that loaded or made it    *)
(* last, and whether the use at hand is the second half of BINOP(R1, R1)   *)
SetReg(a, ref, op, r) == [a EXCEPT !.regs = (<<ref, op>> :> r) @@ @]

UserOf(u) == IF u.ref < 0 THEN -u.ref ELSE RefOf(u.pos)

RECURSIVE PartsOf(_)
PartsOf(id) == IF id = 0 THEN <<>> ELSE Cons(id, PartsOf(iv[id].next))

AssignPart(a, i) ==
  IF i.reg = NONE THEN a ELSE Through(LAMBDA x, u : SetReg(x, UserOf(u), u.op, In(i.reg)), a, i.uses)

---------------------------------------------------------------------------
(* Parts of a spilled interval *)

CoversEnd(i, b) == Covers(i, SavePos(block[b].end))

(* needs_spill_reload: some way to b does not come through a block where   *)
(* the value is available.                                                 *)
RECURSIVE Unavailable(_, _)
Unavailable(S, available) ==
  LET more == S \cup {p \in UNION {ToSet(block[b].pred) : b \in S} : p \notin available}
  IN IF more = S THEN S ELSE Unavailable(more, available)

(* Mutant: a register that was loaded in the block before is good. *)
NeedsSpillReload_near(i, b0, available) ==
  \E p \in ToSet(block[b0].pred) : p \notin available /\ ~ CoversEnd(i, p)

NeedsSpillReload(i, b0, available) ==
  \E b \in Unavailable({b0}, available) : b = 1 \/ \E p \in ToSet(block[b].pred) : ~ CoversEnd(i, p)

(* R2 = BINOP(R1, R1) *)
Twice(uses, k) ==
  /\ k < Len(uses) /\ uses[k].op = 1
  /\ uses[k + 1].pos = uses[k].pos /\ "MUST" \notin uses[k + 1].flags

NeedsSpillLoad(uses, k) ==
  LET j == IF Twice(uses, k) THEN k + 1 ELSE k IN j < Len(uses) /\ uses[j + 1].op # 0

Loaded(a, i, ref) ==
  [a EXCEPT !.available = IF CoversEnd(i, BlockOf(ref)) THEN @ \cup {BlockOf(ref)} ELSE @, !.prev = ref]

AssignDef(a, i, ref) ==
  IF insn[ref].op = "COPY" /\ insn[ref].ops[1] # 0 /\ vregs[insn[ref].ops[1]] = i.vreg
  THEN [SetReg(a, ref, 0, In(i.reg)) EXCEPT !.prev = ref]
  ELSE IF insn[ref].op = "PHI"
  THEN [SetReg(a, ref, 0, NoReg) EXCEPT !.available = {}, !.prev = 0]
  ELSE IF insn[ref].op = "PARAM" /\ "MEM_PARAM" \in i.flags
  THEN [SetReg(a, ref, 0, NoReg) EXCEPT !.available = {}]
  ELSE SetReg(Loaded([a EXCEPT !.available = {}], i, ref), ref, 0, Via(i.reg))

(* The register of an operand that belongs to a PHI or a fused instruction *)
AssignInner(a, ref, u, r) ==
  LET inner == -u.ref
      old   == RegOf(a.regs, inner, u.op)
      phiInMemory == "SPILLED" \in iv[vregs[inner]].flags
  IN IF "PHI" \in u.flags THEN SetReg(a, inner, u.op, IF phiInMemory THEN NoReg ELSE r)
     ELSE IF (old # NoReg /\ r # old) \/ r = NoReg
     THEN [a EXCEPT !.fused = (<<ref, inner, u.op>> :> r) @@ @]
     ELSE SetReg(a, inner, u.op, r)

AssignOperand(a, i, k) ==
  LET u      == i.uses[k]
      ref    == RefOf(u.pos)
      reload == /\ a.prev = 0 \/ BlockOf(a.prev) # BlockOf(ref)
                /\ NeedsSpillReload(i, BlockOf(ref), a.available)
      direct == "MUST" \notin u.flags /\ ~ NeedsSpillLoad(i.uses, k)
      r      == IF a.second THEN NoReg
                ELSE IF ~ reload THEN In(i.reg) ELSE IF direct THEN NoReg ELSE Via(i.reg)
      x      == IF ~ a.second /\ reload /\ ~ direct /\ "PHI" \notin u.flags THEN Loaded(a, i, ref) ELSE a
      y      == [x EXCEPT !.second = ~ a.second /\ reload /\ direct /\ Twice(i.uses, k)]
  IN IF u.ref < 0 THEN AssignInner(y, ref, u, r) ELSE SetReg(y, ref, u.op, r)

AssignSpilledPart(a, i) ==
  IF i.reg = NONE
  THEN Through(LAMBDA x, u : IF u.ref < 0 /\ "PHI" \notin u.flags
                              THEN [x EXCEPT !.fused = (<<RefOf(u.pos), -u.ref, u.op>> :> NoReg) @@ @] ELSE x,
                a, i.uses)
  ELSE Through(LAMBDA x, k : IF i.uses[k].op = 0 THEN AssignDef(x, i, RefOf(i.uses[k].pos))
                              ELSE AssignOperand(x, i, k),
                [a EXCEPT !.available = {}, !.prev = 0, !.second = FALSE],
                [k \in 1 .. Len(i.uses) |-> k])

---------------------------------------------------------------------------

AssignVreg(a, v) ==
  Through(LAMBDA x, p : IF "SPILLED" \in iv[v].flags THEN AssignSpilledPart(x, iv[p]) ELSE AssignPart(x, iv[p]),
           a, PartsOf(v))

(* a constant is loaded into the register where it is needed *)
AssignTemp(a, t) ==
  LET ref == iv[t].vreg
      op  == iv[t].op
      isConst == op \in DOMAIN insn[ref].ops /\ insn[ref].ops[op] = 0
  IN SetReg(a, ref, op, IF isConst THEN Via(iv[t].reg) ELSE In(iv[t].reg))

AssignRegs ==
  /\ phase = "assign"
  /\ phase' = "code"
  /\ \E a \in {Through(AssignVreg, [regs |-> <<>>, fused |-> <<>>, available |-> {}, prev |-> 0, second |-> FALSE],
                        Ordered(Vregs, <))} :
     \E b \in {Through(AssignTemp, a, SelectSeq([k \in DOMAIN iv |-> k], LAMBDA k : iv[k].kind = "temp"))} :
       regs' = b.regs /\ fused' = b.fused
  /\ fault' = \E k \in DOMAIN iv : iv[k].kind = "temp" /\ iv[k].reg = NONE
  /\ UNCHANGED <<insn, at, vregs, liveOut, fixed, temps, todo, moves, iv, unhandled, active, inactive, cur, pick, slots>>

=============================================================================
