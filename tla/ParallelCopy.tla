---------------------------- MODULE ParallelCopy ----------------------------
(***************************************************************************)
(* ir_parallel_copy: the moves that bring call arguments, all already in   *)
(* registers, into the registers of the calling convention.  The copies    *)
(* happen "at once"; the function has to find an order of single moves,    *)
(* exchanges and saves into a temporary register with the same effect.     *)
(*                                                                         *)
(* A register holds a value together with how many of its low bits are     *)
(* still good: a 32-bit move of a 64-bit value keeps only the low ones.    *)
(* Every emitted instruction is one step.                                  *)
(***************************************************************************)
EXTENDS Integers, FiniteSets

CONSTANTS GP,              \* general purpose registers, by number
          FP,              \* floating point registers, by number
          Width,           \* widths of the values that are passed
          IR_HAVE_SWAP_INT \* does the target have an exchange instruction?

ASSUME RegAssumption == /\ GP \subseteq Nat /\ IsFiniteSet(GP)
                        /\ FP \subseteq Nat /\ IsFiniteSet(FP)
                        /\ GP \cap FP = {}
ASSUME WidthAssumption == Width \subseteq 1 .. 2
ASSUME SwapAssumption == IR_HAVE_SWAP_INT \in BOOLEAN

VARIABLES pred,     \* destination -> source, the requested copies
          types,    \* source -> width of the value copied from it
          tmp_reg, tmp_fp_reg,
          regs,     \* the contents of the register file
          todo,     \* destinations not written yet
          ready,    \* those of them whose old value is not needed any more
          loc,      \* source -> the register its value can be found in
          to,       \* the destination being written in a cycle
          pc

args == <<pred, types, tmp_reg, tmp_fp_reg>>
vars == <<pred, types, tmp_reg, tmp_fp_reg, regs, todo, ready, loc, to, pc>>

Reg == GP \cup FP
IR_REG_NONE == -1
Dests == DOMAIN pred
Srcs == {pred[d] : d \in Dests}
SameClass(r, s) == r \in GP <=> s \in GP

(* ir_regset_pop_first takes the lowest register number *)
First(S) == CHOOSE r \in S : \A s \in S : r <= s

(* What a move of a given width leaves of a value *)
Narrow(v, w) == [v EXCEPT !.bits = IF w < @ THEN w ELSE @]

(* The temporary register of a class *)
TmpFor(r) == IF r \in GP THEN tmp_reg ELSE tmp_fp_reg

-----------------------------------------------------------------------------
(* The caller collects one copy for each argument register whose value is  *)
(* in another register.  Temporaries are not argument registers, but an    *)
(* argument's value may be in one.                                         *)
Init ==
    /\ \E D \in SUBSET Reg : pred \in [D -> Reg]
    /\ \A d \in Dests : pred[d] # d /\ SameClass(pred[d], d)
    /\ types \in [Srcs -> Width]
    /\ tmp_reg \in GP \ Dests
    /\ tmp_fp_reg \in FP \ Dests
    /\ regs = [r \in Reg |-> [val |-> r, bits |-> 2]]
    /\ todo = {} /\ ready = {}
    /\ loc = [s \in Srcs |-> s]
    /\ to = IR_REG_NONE
    /\ pc = "start"

(* No destination is a source: the moves can be emitted as they come.  A   *)
(* single copy is the same case.                                           *)
Independent ==
    /\ pc = "start"
    /\ Dests \cap Srcs = {}
    /\ regs' = [r \in Reg |-> IF r \in Dests
                                THEN Narrow(regs[pred[r]], types[pred[r]])
                                ELSE regs[r]]
    /\ pc' = "done"
    /\ UNCHANGED <<args, todo, ready, loc, to>>

Start ==
    /\ pc = "start"
    /\ Dests \cap Srcs # {}
    /\ todo' = Dests
    /\ ready' = Dests \ Srcs
    /\ pc' = "blades"
    /\ UNCHANGED <<args, regs, loc, to>>

(* to <- from, through wherever the value of `from' is now *)
MoveTo_noloc(d) ==
    /\ regs' = [regs EXCEPT ![d] = Narrow(regs[loc[pred[d]]], types[pred[d]])]
    /\ UNCHANGED loc
MoveTo(d) ==
    LET from == pred[d]
    IN  /\ regs' = [regs EXCEPT ![d] = Narrow(regs[loc[from]], types[from])]
        /\ loc' = [loc EXCEPT ![from] = d]

(* After that `from' may be overwritten itself, if it still held the value *)
Released(d) == loc[pred[d]] = pred[d] /\ pred[d] \in todo

(* "Windmill blades": trees, resolved from the leaves *)
Blade_keep ==
    /\ pc = "blades"
    /\ ready # {}
    /\ MoveTo(First(ready))
    /\ UNCHANGED <<args, todo, ready, to, pc>>
Blade ==
    /\ pc = "blades"
    /\ ready # {}
    /\ LET d == First(ready)
       IN  /\ MoveTo(d)
           /\ todo' = todo \ {d}
           /\ ready' = (ready \ {d}) \cup (IF Released(d) THEN {pred[d]} ELSE {})
    /\ UNCHANGED <<args, to, pc>>

BladesDone_all ==
    /\ pc = "blades"
    /\ ready = {}
    /\ pc' = "done"
    /\ UNCHANGED <<args, regs, todo, ready, loc, to>>
BladesDone ==
    /\ pc = "blades"
    /\ ready = {}
    /\ pc' = IF todo = {} THEN "done" ELSE "axles"
    /\ UNCHANGED <<args, regs, todo, ready, loc, to>>

(* "Windmill axles": cycles.  Two integer registers are exchanged ... *)
IsSwap(d) == IR_HAVE_SWAP_INT /\ d \in GP /\ pred[pred[d]] = d

Exchange ==
    /\ pc = "axles"
    /\ todo # {}
    /\ LET d == First(todo)
           from == pred[d]
           w == IF types[d] > types[from] THEN types[d] ELSE types[from]
       IN  /\ IsSwap(d)
           /\ regs' = [regs EXCEPT ![d] = Narrow(regs[from], w),
                                   ![from] = Narrow(regs[d], w)]
           /\ todo' = todo \ {d, from}
           /\ loc' = [loc EXCEPT ![d] = from, ![from] = d]
    /\ UNCHANGED <<args, ready, to, pc>>

(* ... of a longer cycle one register is saved, with the width of the      *)
(* value that is going to replace it, ...                                  *)
Save ==
    /\ pc = "axles"
    /\ todo # {}
    /\ LET d == First(todo)
       IN  /\ ~IsSwap(d)
           /\ regs' = [regs EXCEPT ![TmpFor(d)] = Narrow(regs[d], types[pred[d]])]
           /\ loc' = [loc EXCEPT ![d] = TmpFor(d)]
           /\ todo' = todo \ {d}
           /\ to' = d
    /\ pc' = "chain"
    /\ UNCHANGED <<args, ready>>

(* ... and the cycle is followed from there.                               *)
Chain ==
    /\ pc = "chain"
    /\ MoveTo(to)
    /\ todo' = todo \ {to}
    /\ to' = IF Released(to) THEN pred[to] ELSE IR_REG_NONE
    /\ pc' = IF Released(to) THEN "chain" ELSE "axles"
    /\ UNCHANGED <<args, ready>>

AxlesDone ==
    /\ pc = "axles"
    /\ todo = {}
    /\ pc' = "done"
    /\ UNCHANGED <<args, regs, todo, ready, loc, to>>

Done == pc = "done" /\ UNCHANGED vars

Next == \/ Independent \/ Start \/ Blade \/ BladesDone
        \/ Exchange \/ Save \/ Chain \/ AxlesDone \/ Done

Spec == Init /\ [][Next]_vars
(* The function runs on *)
FairSpec == Spec /\ WF_vars(Next)
-----------------------------------------------------------------------------
(* The registers and sets the algorithm works with *)
TypeOK ==
    /\ Dests \subseteq Reg /\ Srcs \subseteq Reg
    /\ regs \in [Reg -> [val : Reg, bits : 1 .. 2]]
    /\ todo \subseteq Dests /\ ready \subseteq todo
    /\ loc \in [Srcs -> Reg]
    /\ to \in Dests \cup {IR_REG_NONE}
    /\ pc \in {"start", "blades", "axles", "chain", "done"}

(* Destinations whose value has not been moved yet *)
Pending == todo \cup (IF pc = "chain" THEN {to} ELSE {})

(* The order of moves has the effect of the parallel copy: in the end each *)
(* destination holds the value its source had at the start, whatever       *)
(* overlap there is between sources, destinations and temporaries.         *)
RightValue == pc = "done" => \A d \in Dests : regs[d].val = pred[d]

(* While moves are still to come no value that one of them needs has been  *)
(* lost: it is where `loc' says, and what has been written is final.       *)
NothingLost ==
    pc \in {"blades", "axles", "chain"} =>
      /\ \A d \in Pending : regs[loc[pred[d]]].val = pred[d]
      /\ \A d \in Dests \ Pending : regs[d].val = pred[d]

(* The loops end *)
Terminates == <>(pc = "done")

(* A destination holds all of the value that was to be copied into it.     *)
(* "Parallel copy sequentialization algorithm" (ir_emit.c).                *)
FullWidth == pc = "done" => \A d \in Dests : regs[d].bits >= types[pred[d]]
=============================================================================
