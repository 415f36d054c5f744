----------------------------- MODULE DessaCopy -----------------------------
(***************************************************************************)
(* ir_dessa_parallel_copy, ir_dessa_resolve_cycle and ir_emit_dessa_move:  *)
(* the moves at the end of a block that give the PHIs of the successor     *)
(* their values.  Unlike the arguments of a call (ParallelCopy) the places *)
(* are registers and spill slots, sources may be constants, a move from    *)
(* memory to memory goes through a temporary register, and a temporary may *)
(* itself be a destination, which is therefore written last.               *)
(*                                                                         *)
(* The moves are emitted in three stages: trees that do not set a          *)
(* temporary; the search for cycles and their resolution; the trees that   *)
(* set a temporary.  A failing IR_ASSERT ends in pc = "no_temporary" or    *)
(* pc = "constant_in_cycle".                                               *)
(***************************************************************************)
EXTENDS Integers, FiniteSets

CONSTANTS GP, FP,          \* register numbers
          MEM,             \* spill slots, numbered after the registers
          CONST,           \* constants, negative references
          Width,           \* widths of the PHIs
          IR_HAVE_SWAP_INT

IR_REG_NONE == -100
SPILL == -200              \* tmp_spill_slot, [sp - 16]

ASSUME PlaceAssumption == /\ GP \subseteq Nat /\ IsFiniteSet(GP)
                          /\ FP \subseteq Nat /\ IsFiniteSet(FP)
                          /\ MEM \subseteq Nat /\ IsFiniteSet(MEM)
                          /\ GP \cap FP = {} /\ MEM \cap (GP \cup FP) = {}
ASSUME ConstAssumption == /\ CONST \cap Nat = {}
                          /\ IR_REG_NONE \notin CONST /\ SPILL \notin CONST
ASSUME WidthAssumption == Width \subseteq 1 .. 2
ASSUME SwapAssumption == IR_HAVE_SWAP_INT \in BOOLEAN

VARIABLES pred,            \* destination -> source or constant
          types,           \* destination -> class and width of the PHI
          tmp_reg, tmp_fp_reg,
          store,           \* contents of all places and of the red zone slot
          todo, ready, loc, visited,
          to, root,        \* cursor of the search or in a cycle; its start
          spilled,         \* is the temporary saved in the red zone?
          pc

args == <<pred, types, tmp_reg, tmp_fp_reg>>
vars == <<pred, types, tmp_reg, tmp_fp_reg, store, todo, ready, loc, visited,
          to, root, spilled, pc>>

Reg == GP \cup FP
Place == Reg \cup MEM
Type == [class : {"int", "fp"}, width : Width]
Dests == DOMAIN pred
Srcs == {pred[d] : d \in Dests} \ CONST
Temps == {tmp_reg, tmp_fp_reg} \ {IR_REG_NONE}

(* A register holds values of its own class, memory of either *)
Fits(p, class) == (p \in GP => class = "int") /\ (p \in FP => class = "fp")
First(S) == CHOOSE p \in S : \A q \in S : p <= q
Narrow(v, w) == [v EXCEPT !.bits = IF w < @ THEN w ELSE @]
TmpFor(type) == IF type.class = "int" THEN tmp_reg ELSE tmp_fp_reg

-----------------------------------------------------------------------------
(* ir_emit_dessa_move: a constant (too wide for an immediate operand) or a *)
(* slot is stored in memory through the temporary of its class             *)
NeedsTmp(d, r) == d \in MEM /\ r \in MEM \cup CONST

Content(r) == IF r \in CONST THEN [val |-> r, bits |-> 2] ELSE store[r]

EmitMove(d, r, type) ==
    LET v == Narrow(Content(r), type.width)
    IN  store' = IF NeedsTmp(d, r) THEN [store EXCEPT ![d] = v, ![TmpFor(type)] = v]
                                   ELSE [store EXCEPT ![d] = v]

-----------------------------------------------------------------------------
(* ir_emit_dessa_moves: one copy for each PHI whose operand is somewhere   *)
(* else.  The allocator reserves a temporary of a class for a block that   *)
(* copies values of that class; it is free where the copies are made, so   *)
(* it holds no operand, but it may be the register of a PHI.               *)
Classes == {types[d].class : d \in Dests}
Init ==
    /\ \E D \in (SUBSET Place) \ {{}} : pred \in [D -> Place \cup CONST]
    /\ \A d \in Dests : pred[d] # d
    /\ types \in [Dests -> Type]
    /\ \A d \in Dests : Fits(d, types[d].class) /\ Fits(pred[d], types[d].class)
    /\ \A d, e \in Dests : pred[d] = pred[e] /\ pred[d] \notin CONST => types[d] = types[e]
    /\ tmp_reg \in IF "int" \in Classes THEN GP \ Srcs ELSE {IR_REG_NONE}
    /\ tmp_fp_reg \in IF "fp" \in Classes THEN FP \ Srcs ELSE {IR_REG_NONE}
    /\ store = [p \in Place \cup {SPILL} |-> [val |-> p, bits |-> 2]]
    /\ todo = Dests
    /\ ready = {} /\ visited = {}
    /\ loc = [s \in Srcs |-> s]
    /\ to = IR_REG_NONE /\ root = IR_REG_NONE
    /\ spilled = FALSE
    /\ pc = "start"

Single ==
    /\ pc = "start"
    /\ Cardinality(Dests) = 1
    /\ LET d == First(Dests) IN EmitMove(d, pred[d], types[d])
    /\ todo' = {}
    /\ pc' = "done"
    /\ UNCHANGED <<args, ready, loc, visited, to, root, spilled>>

Start ==
    /\ pc = "start"
    /\ Cardinality(Dests) > 1
    /\ ready' = (Dests \ Srcs) \ Temps
    /\ pc' = "trees"
    /\ UNCHANGED <<args, store, todo, loc, visited, to, root, spilled>>

(* The value of d's source is in d now; the source may be overwritten if   *)
(* it was still in place and is not reserved for the end                   *)
Moved(d) == loc' = IF pred[d] \in CONST THEN loc ELSE [loc EXCEPT ![pred[d]] = d]
Released(d, held) ==
    IF pred[d] \in todo \ held /\ loc[pred[d]] = pred[d] THEN {pred[d]} ELSE {}
Source(d) == IF pred[d] \in CONST THEN pred[d] ELSE loc[pred[d]]

(* First stage *)
Tree ==
    /\ pc = "trees"
    /\ ready # {}
    /\ LET d == First(ready)
       IN  /\ EmitMove(d, Source(d), types[d])
           /\ Moved(d)
           /\ todo' = todo \ {d}
           /\ ready' = (ready \ {d}) \cup Released(d, Temps)
    /\ UNCHANGED <<args, visited, to, root, spilled, pc>>

TreesDone ==
    /\ pc = "trees"
    /\ ready = {}
    /\ ready' = todo \cap Srcs
    /\ pc' = "seek"
    /\ UNCHANGED <<args, store, todo, loc, visited, to, root, spilled>>

(* Second stage: walk from the first unresolved source against the copies. *)
Seek ==
    /\ pc = "seek"
    /\ ready # {}
    /\ visited' = {First(ready)}
    /\ to' = pred[First(ready)]
    /\ pc' = "walk"
    /\ UNCHANGED <<args, store, todo, ready, loc, root, spilled>>

(* A place that was visited before closes a cycle; IR_ASSERT says that a   *)
(* walk inside `ready' never reaches a constant.                           *)
Walk_early ==
    /\ pc = "walk"
    /\ to \in ready
    /\ to' = pred[to]
    /\ visited' = visited \cup ({pred[to]} \ CONST)
    /\ pc' = IF pred[to] \in CONST THEN "constant_in_cycle" ELSE "break"
    /\ UNCHANGED <<args, store, todo, ready, loc, root, spilled>>
Walk ==
    /\ pc = "walk"
    /\ to \in ready
    /\ to' = pred[to]
    /\ visited' = visited \cup ({pred[to]} \ CONST)
    /\ pc' = IF pred[to] \in CONST THEN "constant_in_cycle"
             ELSE IF pred[to] \in visited THEN "break" ELSE "walk"
    /\ UNCHANGED <<args, store, todo, ready, loc, root, spilled>>

WalkOut_keep ==
    /\ pc = "walk"
    /\ to \notin ready
    /\ pc' = "seek"
    /\ UNCHANGED <<args, store, todo, ready, loc, visited, to, root, spilled>>
WalkOut ==
    /\ pc = "walk"
    /\ to \notin ready
    /\ ready' = ready \ visited
    /\ pc' = "seek"
    /\ UNCHANGED <<args, store, todo, loc, visited, to, root, spilled>>

(* ir_dessa_resolve_cycle: two integer registers are exchanged, ...        *)
IsSwap ==
    /\ IR_HAVE_SWAP_INT
    /\ types[pred[to]].class = "int"
    /\ pred[pred[to]] = to /\ {to, pred[to]} \subseteq Reg

Exchange ==
    /\ pc = "break"
    /\ IsSwap
    /\ LET from == pred[to]
           w == IF types[to].width > types[from].width THEN types[to].width
                                                       ELSE types[from].width
       IN  /\ store' = [store EXCEPT ![to] = Narrow(store[from], w),
                                     ![from] = Narrow(store[to], w)]
           /\ todo' = todo \ {to, from}
           /\ loc' = [loc EXCEPT ![to] = from, ![from] = to]
    /\ ready' = ready \ visited
    /\ pc' = "seek"
    /\ UNCHANGED <<args, visited, to, root, spilled>>

(* ... otherwise the root is saved in a temporary, of the class and width  *)
(* of the copy into the root's own source, ...                             *)
Save ==
    /\ pc = "break"
    /\ ~IsSwap
    /\ LET type == types[pred[to]]
       IN  /\ store' = [store EXCEPT ![TmpFor(type)] = Narrow(store[to], type.width)]
           /\ loc' = [loc EXCEPT ![to] = TmpFor(type)]
    /\ root' = to
    /\ spilled' = FALSE
    /\ pc' = "cycle"
    /\ UNCHANGED <<args, todo, ready, visited, to>>

(* ... the cycle is followed up to the root; a move from memory to memory  *)
(* needs the temporary, so that is parked below the stack pointer, ...     *)
Follow ==
    /\ pc = "cycle"
    /\ pred[to] # root
    /\ LET r == loc[pred[to]]
           type == types[to]
           v == Narrow(store[r], type.width)
           tmp == TmpFor(type)
       IN  /\ store' = IF ~NeedsTmp(to, r) THEN [store EXCEPT ![to] = v]
                       ELSE IF spilled THEN [store EXCEPT ![to] = v, ![tmp] = v]
                       ELSE [store EXCEPT ![SPILL] = Narrow(store[tmp], type.width),
                                          ![to] = v, ![tmp] = v]
           /\ spilled' = (spilled \/ NeedsTmp(to, r))
    /\ Moved(to)
    /\ todo' = todo \ {to}
    /\ to' = pred[to]
    /\ UNCHANGED <<args, ready, visited, root, pc>>

(* ... and the last place gets the saved value back.                       *)
Close ==
    /\ pc = "cycle"
    /\ pred[to] = root
    /\ LET type == types[to]
           tmp == TmpFor(type)
           restored == IF spilled THEN [store EXCEPT ![tmp] = Narrow(store[SPILL], type.width)]
                                  ELSE store
       IN  store' = [restored EXCEPT ![to] = Narrow(restored[loc[root]], type.width)]
    /\ Moved(to)
    /\ todo' = todo \ {to}
    /\ ready' = ready \ visited
    /\ pc' = "seek"
    /\ UNCHANGED <<args, visited, to, root, spilled>>

CyclesDone_skip ==
    /\ pc = "seek"
    /\ ready = {}
    /\ pc' = "done"
    /\ UNCHANGED <<args, store, todo, ready, loc, visited, to, root, spilled>>
CyclesDone ==
    /\ pc = "seek"
    /\ ready = {}
    /\ ready' = todo \ Srcs
    /\ pc' = "last"
    /\ UNCHANGED <<args, store, todo, loc, visited, to, root, spilled>>

(* Third stage: a temporary that has got its value is not a temporary any  *)
(* more, which ir_emit_dessa_move asserts when it needs one.               *)
Taken(type) == TmpFor(type) \in Dests \ todo
LastTree ==
    /\ pc = "last"
    /\ ready # {}
    /\ LET d == First(ready)
           lacking == NeedsTmp(d, Source(d)) /\ Taken(types[d])
       IN  /\ EmitMove(d, Source(d), types[d])
           /\ Moved(d)
           /\ todo' = todo \ {d}
           /\ ready' = (ready \ {d}) \cup Released(d, {})
           /\ pc' = IF lacking THEN "no_temporary" ELSE pc
    /\ UNCHANGED <<args, visited, to, root, spilled>>

LastDone ==
    /\ pc = "last"
    /\ ready = {}
    /\ pc' = "done"
    /\ UNCHANGED <<args, store, todo, ready, loc, visited, to, root, spilled>>

Stopped == {"done", "no_temporary", "constant_in_cycle"}
Done == pc \in Stopped /\ UNCHANGED vars

Next == \/ Single \/ Start \/ Tree \/ TreesDone
        \/ Seek \/ Walk \/ WalkOut
        \/ Exchange \/ Save \/ Follow \/ Close \/ CyclesDone
        \/ LastTree \/ LastDone \/ Done

Spec == Init /\ [][Next]_vars

(* What ir_emit_dessa_moves would have to guarantee for the three stages   *)
(* to be right, and does not.  No cycle mixes integers with floating point *)
(* values: the root would be saved in the temporary of one class and read  *)
(* back from that of the other.                                            *)
OneClassCycles ==
    \A C \in SUBSET Dests :
        {pred[d] : d \in C} = C => \A d \in C : types[pred[d]].class = types[d].class

(* No chain of copies that waits for a temporary has a spill slot in it,   *)
(* or goes back over two copies to a constant.                             *)
BehindTemps(S) == \A d \in S \cup (Temps \cap Dests) : pred[d] \in Dests => pred[d] \in S
NoLateNeed == \E S \in SUBSET Dests : BehindTemps(S) /\ S \cap MEM = {}
NoLateConst ==
    \E S \in SUBSET Dests :
        BehindTemps(S) /\ \A d \in S : pred[d] \in Dests => pred[pred[d]] \notin CONST

OneClassInit == Init /\ OneClassCycles
(* The function runs on *)
FairSpec == OneClassInit /\ [][Next]_vars /\ WF_vars(Next)
-----------------------------------------------------------------------------
(* The sets and places the algorithm works with *)
TypeOK ==
    /\ todo \subseteq Dests /\ ready \subseteq Dests /\ visited \subseteq Place
    /\ pc \in {"trees", "last"} => ready \subseteq todo
    /\ loc \in [Srcs -> Place]
    /\ store \in [Place \cup {SPILL} -> [val : Place \cup CONST \cup {SPILL}, bits : 1 .. 2]]
    /\ to \in Place \cup CONST \cup {IR_REG_NONE}
    /\ root \in Dests \cup {IR_REG_NONE}
    /\ spilled \in BOOLEAN

(* The moves have the effect of assigning all PHIs at once: each PHI gets  *)
(* the value its operand had before the first move, if no cycle of the     *)
(* copies mixes the classes and no assertion stops the function.           *)
RightValue == pc = "done" => todo = {} /\ \A d \in Dests : store[d].val = pred[d]

(* All loops end, and end with the moves made where the copies exclude     *)
(* that an assertion fails.                                                *)
Terminates == <>(pc \in Stopped) /\ (NoLateNeed /\ NoLateConst => <>(pc = "done"))

(* "If destionation is set, it can't be used as temporary anymore"         *)
(* (ir_emit.c:869): a move that needs a temporary still has one.           *)
TemporaryLeft == pc # "no_temporary"

(* IR_ASSERT(!IR_IS_CONST_REF(to)) in the search for cycles (ir_emit.c:849) *)
NoConstantInCycle == pc # "constant_in_cycle"

(* No stage overwrites a value that a later one needs: outside the         *)
(* resolution of a cycle each copy that is left finds its value where      *)
(* `loc' says and each destination that is written keeps its value; a      *)
(* cycle is resolved only while all of its places still hold their own     *)
(* values (the IR_ASSERTs of ir_dessa_resolve_cycle).  The two assertions  *)
(* above fail only where a chain behind a put-off temporary has a spill    *)
(* slot in it, or goes back over two copies to a constant; until then      *)
(* nothing is lost for those copies either.                                *)
NothingLost ==
    /\ pc \in {"trees", "seek", "walk", "break", "last"} =>
         \A d \in Dests : IF d \in todo THEN Content(Source(d)).val = pred[d]
                                        ELSE store[d].val = pred[d]
    /\ pc = "break" => /\ to \in todo /\ pred[to] \in todo
                       /\ loc[pred[to]] = pred[to] /\ loc[to] = to
    /\ ~TemporaryLeft => ~NoLateNeed
    /\ ~NoConstantInCycle => ~NoLateConst

(* A PHI gets all bits of its operand *)
FullWidth == pc = "done" => \A d \in Dests : store[d].bits >= types[d].width
=============================================================================
