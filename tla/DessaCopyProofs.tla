--------------------------- MODULE DessaCopyProofs ---------------------------
(***************************************************************************)
(* ir_dessa_parallel_copy gives every PHI its value, for any registers,    *)
(* spill slots and constants and any copies no cycle of which mixes        *)
(* integers with floating point values, unless one of its assertions       *)
(* fails; and where the assertions may fail.                               *)
(*                                                                         *)
(* The argument is about sets of destinations that are closed under        *)
(* `pred': what remains to be copied after the first stage are cycles and  *)
(* the chains behind put-off temporaries.  The search finds every cycle    *)
(* because a closed set inside `todo' is never taken out of `ready'        *)
(* (Unresolved), and it resolves no cycle twice because a closed set       *)
(* inside `ready' is still to be copied (Fresh).  So nothing closed is     *)
(* left for the last stage, which therefore does not get stuck.            *)
(***************************************************************************)
EXTENDS DessaCopy, FiniteSetTheorems, WellFoundedInduction, TLAPS

Closed(C) == \A d \in C : pred[d] \in C

Args ==
    /\ Dests \subseteq Place
    /\ pred \in [Dests -> Place \cup CONST]
    /\ \A d \in Dests : pred[d] # d
    /\ types \in [Dests -> Type]
    /\ tmp_reg \in IF "int" \in Classes THEN GP \ Srcs ELSE {IR_REG_NONE}
    /\ tmp_fp_reg \in IF "fp" \in Classes THEN FP \ Srcs ELSE {IR_REG_NONE}
    /\ OneClassCycles

Value == Place \cup CONST \cup {SPILL}
Word == [val : Value, bits : 1 .. 2]
Types ==
    /\ pc \in {"start", "trees", "seek", "walk", "break", "cycle", "last",
               "done", "no_temporary", "constant_in_cycle"}
    /\ todo \subseteq Dests /\ ready \subseteq Dests
    /\ loc \in [Srcs -> Place]
    /\ store \in [Place \cup {SPILL} -> Word]

(* Outside a cycle.  Kept: what is written stays.  Found: what is to be    *)
(* copied is where loc says.  Elsewhere: a value that has left its place   *)
(* is in a place that is written.  Read: the source of a written           *)
(* destination has left its place.                                         *)
Kept == \A d \in Dests \ todo : store[d].val = pred[d]
Found(T) == \A d \in T : pred[d] \in Srcs => store[loc[pred[d]]].val = pred[d]
Elsewhere(S) == \A s \in S : loc[s] # s => loc[s] \in Dests \ todo
Read == \A d \in Dests \ todo : pred[d] \in Srcs => loc[pred[d]] # pred[d]
InPlace(T) == \A d \in T : d \in Srcs /\ loc[d] = d
Vacated(T) == \A d \in T : d \in Srcs => loc[d] # d
TempsLast == Temps \cap Dests \subseteq todo

InStart ==
    /\ todo = Dests
    /\ InPlace(Srcs)
    /\ \A p \in Place : store[p].val = p

InTrees ==
    /\ ready \subseteq todo \ Temps
    /\ Kept /\ Found(todo) /\ Elsewhere(Srcs) /\ Read
    /\ Vacated(ready) /\ InPlace(todo \ (ready \cup Temps))
    /\ TempsLast

(* The second stage *)
Fresh(R) == \A C \in SUBSET ready : Closed(C) => C \subseteq R
Unresolved == \A C \in SUBSET (todo \cap Srcs) : Closed(C) => C \subseteq ready
NoConstBehind == \A d \in ready \ todo : pred[d] \in Dests /\ pred[pred[d]] \notin CONST
Stage2 ==
    /\ ready \subseteq Srcs
    /\ Kept /\ Read /\ TempsLast
    /\ Unresolved /\ NoConstBehind

InSeek ==
    /\ Stage2
    /\ Found(todo) /\ Elsewhere(Srcs) /\ InPlace(todo \ Temps)
    /\ Fresh(todo)

(* The walk leads from every place visited to the cursor *)
Leads == \A C \in SUBSET Dests : Closed(C) /\ C \cap visited # {} => to \in C
Beyond == \A v \in visited : \/ v = to
                             \/ \A C \in SUBSET Dests : Closed(C) /\ pred[v] \in C => to \in C
InWalk ==
    /\ \E f \in ready : pred[f] = to
    /\ Leads /\ Beyond
    /\ \E W \in SUBSET ready : /\ visited \subseteq W \cup {to}
                               /\ \A w \in W : pred[w] \in W \cup {to}

(* A walk that has met a place again stands on a cycle *)
OnCycle(r) == \A C \in SUBSET Dests : Closed(C) /\ pred[r] \in C => r \in C
VisitedReach(r) == \A C \in SUBSET Dests : Closed(C) /\ C \cap visited # {} => r \in C
InBreak ==
    /\ to \in visited
    /\ OnCycle(to) /\ VisitedReach(to)
    /\ \E W \in SUBSET (ready \cap todo) : Closed(W) /\ to \in W

(* A cycle W, resolved from the root up to `to': the root's value is saved *)
Saved == IF spilled THEN SPILL ELSE TmpFor(types[root])
Resolving(W) ==
    /\ W \subseteq ready /\ Closed(W) /\ root \in W
    /\ to \in W \cap todo
    /\ \A w \in W : types[w].class = types[root].class
    /\ InPlace((W \cap todo) \ {to})
    /\ \A p \in W \ todo : pred[p] \in ((W \ todo) \cup {to}) \ {root}
    /\ IF to = root THEN W \subseteq todo ELSE root \notin todo /\ loc[to] # to
    /\ \A C \in SUBSET Dests : Closed(C) /\ C \cap (W \ todo) # {} => to \in C
    /\ Fresh(todo \cup W)

InCycle ==
    /\ Stage2
    /\ spilled \in BOOLEAN
    /\ root \in visited /\ OnCycle(root) /\ VisitedReach(root)
    /\ Found({d \in todo : pred[d] # root}) /\ Elsewhere(Srcs \ {root})
    /\ InPlace(todo \ (Temps \cup {to}))
    /\ loc[root] = TmpFor(types[root]) /\ store[Saved].val = root
    /\ \E W \in SUBSET Dests : Resolving(W)

InLast ==
    /\ ready \subseteq todo
    /\ Kept /\ Found(todo) /\ Elsewhere(Srcs) /\ Read
    /\ Vacated(ready) /\ InPlace(todo \ ready)
    /\ NoLateNeed => todo \cap MEM = {}
    /\ \A C \in SUBSET (todo \cap Srcs) : Closed(C) => C = {}

IInv ==
    /\ Args /\ Types
    /\ pc = "start" => InStart
    /\ pc = "trees" => InTrees
    /\ pc \in {"seek", "walk", "break"} => InSeek
    /\ pc = "walk" => InWalk
    /\ pc = "break" => InBreak
    /\ pc = "cycle" => InCycle
    /\ pc = "last" => InLast
    /\ pc = "done" => todo = {} /\ Kept
    /\ pc = "no_temporary" => ~NoLateNeed
    /\ pc = "constant_in_cycle" => ~NoLateConst

-----------------------------------------------------------------------------
(* ir_bitset_pop_first and its like return a member of the set *)
LEMMA FirstIn ==
  ASSUME NEW S \in SUBSET Nat, S # {}
  PROVE  First(S) \in S
<1>1. PICK x \in S : \A y \in S : <<y, x>> \notin OpToRel(<, Nat)
  BY Zenon, WFMin, NatLessThanWellFounded
<1>2. ASSUME NEW y \in S PROVE x <= y
  <2>1. ~(y < x)
    BY Zenon, <1>1, <1>2 DEF OpToRel
  <2> QED BY <1>2, <2>1
<1> QED BY Zenon, <1>2 DEF First

(* In a finite set each member of which is the image of a member, every    *)
(* image is a member: following the copies back does not leave the set.    *)
LEMMA OntoIsClosed ==
  ASSUME NEW T, IsFiniteSet(T), NEW f,
         \A t \in T : \E d \in T : f[d] = t
  PROVE  \A d \in T : f[d] \in T
<1> DEFINE g == [d \in T |-> f[d]]
           I == {f[d] : d \in T}
<1>1. g \in Surjection(T, I)
  BY DEF Surjection
<1>2. IsFiniteSet(I) /\ Cardinality(I) <= Cardinality(T)
  BY <1>1, FS_Surjection
<1>3. T \in SUBSET I
  OBVIOUS
<1>4. Cardinality(T) <= Cardinality(I) /\ (Cardinality(I) = Cardinality(T) => I = T)
  BY <1>2, <1>3, FS_Subset
<1>5. Cardinality(I) \in Nat /\ Cardinality(T) \in Nat
  BY <1>2, FS_CardinalityType
<1>6. Cardinality(I) = Cardinality(T)
  <2> HIDE DEF I
  <2> QED BY <1>2, <1>4, <1>5
<1> QED BY <1>4, <1>6

(* A move keeps the identity of the value *)
LEMMA NarrowKeeps ==
  ASSUME NEW V, NEW v \in [val : V, bits : 1 .. 2], NEW w \in Width
  PROVE  Narrow(v, w) \in [val : V, bits : 1 .. 2] /\ Narrow(v, w).val = v.val
<1>1. w \in 1 .. 2
  BY WidthAssumption
<1> QED BY <1>1 DEF Narrow

LEMMA PlaceFacts ==
  /\ Place \subseteq Nat /\ IsFiniteSet(Place)
  /\ Reg \subseteq Place /\ MEM \subseteq Place /\ Reg \cap MEM = {}
  /\ CONST \cap Place = {} /\ SPILL \notin Place \cup CONST
  /\ IR_REG_NONE \notin Place
<1>1. Place \subseteq Nat /\ Reg \cap MEM = {}
  BY PlaceAssumption DEF Place, Reg
<1>2. IsFiniteSet(Place)
  BY Zenon, PlaceAssumption, FS_Union DEF Place, Reg
<1>3. SPILL \notin Nat /\ IR_REG_NONE \notin Nat
  BY DEF SPILL, IR_REG_NONE
<1>4. CONST \cap Place = {}
  BY <1>1, ConstAssumption
<1> QED BY <1>1, <1>2, <1>3, <1>4, ConstAssumption DEF Place

LEMMA ArgsFacts ==
  ASSUME Args
  PROVE  /\ IsFiniteSet(Dests) /\ Dests \subseteq Place /\ Srcs \subseteq Place
         /\ Temps \subseteq Reg /\ Temps \cap Srcs = {}
         /\ \A d \in Dests : /\ types[d] \in Type
                             /\ TmpFor(types[d]) \in Temps
                             /\ pred[d] # d
                             /\ pred[d] \in CONST \/ pred[d] \in Srcs
<1>1. IsFiniteSet(Dests)
  BY PlaceFacts, FS_Subset DEF Args
<1>2. /\ \A d \in Dests : pred[d] \in CONST \/ pred[d] \in Srcs
      /\ Srcs \subseteq Place
  BY DEF Args, Srcs
<1>3. /\ tmp_reg = IR_REG_NONE \/ tmp_reg \in GP \ Srcs
      /\ tmp_fp_reg = IR_REG_NONE \/ tmp_fp_reg \in FP \ Srcs
  BY DEF Args
<1>4. Temps \subseteq Reg /\ Temps \cap Srcs = {}
  BY <1>3 DEF Temps, Reg
<1>5. ASSUME NEW d \in Dests PROVE types[d] \in Type /\ TmpFor(types[d]) \in Temps
  <2>1. types[d] \in Type /\ types[d].class \in {"int", "fp"} /\ types[d].class \in Classes
    BY DEF Args, Type, Classes
  <2>2. CASE types[d].class = "int"
    <3>1. tmp_reg \in GP
      BY <2>1, <2>2 DEF Args
    <3>2. tmp_reg \in Nat
      BY <3>1, PlaceAssumption
    <3>3. tmp_reg # IR_REG_NONE
      BY <3>2 DEF IR_REG_NONE
    <3> QED BY <2>1, <2>2, <3>3 DEF Temps, TmpFor
  <2>3. CASE types[d].class = "fp"
    <3>1. tmp_fp_reg \in FP
      BY <2>1, <2>3 DEF Args
    <3>2. tmp_fp_reg \in Nat
      BY <3>1, PlaceAssumption
    <3>3. tmp_fp_reg # IR_REG_NONE
      BY <3>2 DEF IR_REG_NONE
    <3> QED BY <2>1, <2>3, <3>3 DEF Temps, TmpFor
  <2> QED BY <2>1, <2>2, <2>3
<1> QED BY <1>1, <1>2, <1>4, <1>5 DEF Args

(* No step changes the request *)
LEMMA ArgsStay ==
  ASSUME Args, UNCHANGED args
  PROVE  /\ Args' /\ Dests' = Dests /\ Srcs' = Srcs /\ Temps' = Temps
         /\ pred' = pred /\ types' = types
         /\ tmp_reg' = tmp_reg /\ tmp_fp_reg' = tmp_fp_reg
<1>1. /\ pred' = pred /\ types' = types
      /\ tmp_reg' = tmp_reg /\ tmp_fp_reg' = tmp_fp_reg
  BY DEF args
<1>2. Dests' = Dests
  BY <1>1 DEF Dests
<1>3. Srcs' = Srcs /\ Temps' = Temps /\ Classes' = Classes
  BY <1>1, <1>2 DEF Srcs, Temps, Classes
<1>4. OneClassCycles'
  <2>1. OneClassCycles
    BY DEF Args
  <2> SUFFICES ASSUME NEW C \in SUBSET Dests', {pred'[d] : d \in C} = C, NEW d \in C
               PROVE  types'[pred'[d]].class = types'[d].class
    BY Zenon DEF OneClassCycles
  <2>2. {pred[e] : e \in C} = C /\ C \in SUBSET Dests
    BY <1>1, <1>2
  <2> QED BY Zenon, <1>1, <2>1, <2>2 DEF OneClassCycles
<1> QED BY <1>1, <1>2, <1>3, <1>4 DEF Args

LEMMA ConditionsStay ==
  ASSUME Args, UNCHANGED args
  PROVE  NoLateNeed' = NoLateNeed /\ NoLateConst' = NoLateConst
<1>1. Dests' = Dests /\ Temps' = Temps /\ pred' = pred
  BY ArgsStay
<1>2. \A S : BehindTemps(S)' = BehindTemps(S)
  BY Zenon, <1>1 DEF BehindTemps
<1> QED BY Zenon, <1>1, <1>2 DEF NoLateNeed, NoLateConst

-----------------------------------------------------------------------------
LEMMA ContentFacts ==
  ASSUME Types, NEW r \in Place \cup CONST
  PROVE  /\ Content(r) \in Word
         /\ r \in CONST => Content(r).val = r
         /\ r \in Place => Content(r) = store[r]
<1>1. CASE r \in CONST
  <2>1. [val |-> r, bits |-> 2] \in Word
    BY <1>1 DEF Word, Value
  <2>2. r \notin Place
    BY <1>1, PlaceFacts
  <2> QED BY <1>1, <2>1, <2>2 DEF Content
<1>2. CASE r \notin CONST
  BY <1>2 DEF Content, Types
<1> QED BY <1>1, <1>2

LEMMA SourceFacts ==
  ASSUME Args, Types, NEW d \in Dests
  PROVE  /\ Source(d) \in Place \cup CONST
         /\ pred[d] \in CONST => Source(d) = pred[d]
         /\ pred[d] \in Srcs => Source(d) = loc[pred[d]] /\ loc[pred[d]] \in Place
<1>1. pred[d] \in CONST \/ pred[d] \in Srcs
  BY ArgsFacts
<1>2. pred[d] \in Srcs => pred[d] \notin CONST
  BY DEF Srcs
<1> QED BY <1>1, <1>2 DEF Source, Types

(* What ir_emit_dessa_move does: a temporary is all it may clobber, and    *)
(* only in a store to memory.                                              *)
LEMMA EmitMoveDoes ==
  ASSUME Args, Types, NEW d \in Dests, NEW r \in Place \cup CONST, EmitMove(d, r, types[d])
  PROVE  /\ store' \in [Place \cup {SPILL} -> Word]
         /\ store'[d].val = Content(r).val
         /\ \A p \in (Place \cup {SPILL}) \ ({d} \cup Temps) : store'[p] = store[p]
         /\ d \notin MEM => \A p \in (Place \cup {SPILL}) \ {d} : store'[p] = store[p]
<1> DEFINE v == Narrow(Content(r), types[d].width)
           t == TmpFor(types[d])
           M == Place \cup {SPILL}
<1>1. v \in Word /\ v.val = Content(r).val
  <2>1. types[d].width \in Width
    BY ArgsFacts DEF Type
  <2>2. Content(r) \in Word
    BY ContentFacts
  <2> QED BY <2>1, <2>2, NarrowKeeps DEF Word
<1>2. d \in Place /\ t \in Temps /\ t \in Reg /\ t \in Place
  BY ArgsFacts, PlaceFacts
<1>3. store \in [M -> Word] /\ d \in M /\ t \in M
  BY <1>2 DEF Types
<1>4. store' = IF NeedsTmp(d, r) THEN [store EXCEPT ![d] = v, ![t] = v]
                                 ELSE [store EXCEPT ![d] = v]
  BY DEF EmitMove
<1> HIDE DEF v, t, M
<1>5. CASE NeedsTmp(d, r)
  <2>1. d \in MEM /\ d # t
    BY <1>2, <1>5, PlaceFacts DEF NeedsTmp
  <2>2. store' = [store EXCEPT ![d] = v, ![t] = v]
    BY <1>4, <1>5
  <2>3. store' \in [M -> Word] /\ store'[d] = v
    BY <1>1, <1>3, <2>1, <2>2
  <2>4. \A p \in M \ {d, t} : store'[p] = store[p]
    BY <1>3, <2>2
  <2> QED BY <1>1, <1>2, <2>1, <2>3, <2>4 DEF M
<1>6. CASE ~NeedsTmp(d, r)
  <2>1. store' = [store EXCEPT ![d] = v]
    BY <1>4, <1>6
  <2>2. store' \in [M -> Word] /\ store'[d] = v
    BY <1>1, <1>3, <2>1
  <2>3. \A p \in M \ {d} : store'[p] = store[p]
    BY <1>3, <2>1
  <2> QED BY <1>1, <2>2, <2>3 DEF M
<1> QED BY <1>5, <1>6

LEMMA MovedDoes ==
  ASSUME Args, Types, NEW d \in Dests, Moved(d)
  PROVE  /\ loc' \in [Srcs -> Place]
         /\ pred[d] \in CONST => loc' = loc
         /\ pred[d] \in Srcs => loc'[pred[d]] = d
         /\ \A s \in Srcs : s # pred[d] => loc'[s] = loc[s]
<1>1. d \in Place /\ loc \in [Srcs -> Place]
  BY ArgsFacts DEF Types
<1>2. CASE pred[d] \in CONST
  <2>1. loc' = loc /\ pred[d] \notin Srcs
    BY <1>2 DEF Moved, Srcs
  <2> QED BY <1>1, <2>1
<1>3. CASE pred[d] \notin CONST
  <2>1. pred[d] \in Srcs
    BY <1>3, ArgsFacts
  <2> QED BY <1>1, <1>3, <2>1 DEF Moved
<1> QED BY <1>2, <1>3

-----------------------------------------------------------------------------
LEMMA InitIInv == OneClassInit => IInv
<1> SUFFICES ASSUME OneClassInit PROVE IInv
  OBVIOUS
<1> USE DEF OneClassInit
<1>1. Args
  <2>1. PICK D \in (SUBSET Place) \ {{}} : pred \in [D -> Place \cup CONST]
    BY DEF Init
  <2>2. Dests = D
    BY <2>1 DEF Dests
  <2> QED BY <2>1, <2>2 DEF Init, Args
<1>2. \A p \in Place \cup {SPILL} : [val |-> p, bits |-> 2] \in Word
  BY DEF Word, Value
<1>3. /\ store = [p \in Place \cup {SPILL} |-> [val |-> p, bits |-> 2]]
      /\ todo = Dests /\ ready = {} /\ pc = "start"
      /\ loc = [s \in Srcs |-> s]
  BY DEF Init
<1>4. Types
  <2>1. store \in [Place \cup {SPILL} -> Word]
    BY <1>2, <1>3
  <2>2. loc \in [Srcs -> Place]
    BY <1>1, <1>3, ArgsFacts
  <2> QED BY <1>3, <2>1, <2>2 DEF Types
<1>5. InStart
  BY <1>3 DEF InStart, InPlace
<1> QED BY <1>1, <1>3, <1>4, <1>5 DEF IInv

(* A single copy *)
LEMMA SingleInv ==
  ASSUME IInv, Single
  PROVE  IInv'
<1>1. /\ pc = "start" /\ Args /\ Types /\ InStart
      /\ pc' = "done" /\ todo' = {} /\ Cardinality(Dests) = 1
      /\ UNCHANGED <<args, ready, loc>>
  BY DEF Single, IInv
<1>2. PICK d : Dests = {d}
  BY <1>1, ArgsFacts, FS_Singleton
<1>3. First(Dests) = d
  <2>1. Dests \subseteq Nat /\ Dests # {}
    BY <1>1, <1>2, ArgsFacts, PlaceFacts
  <2> QED BY <1>2, <2>1, FirstIn
<1>4. EmitMove(d, pred[d], types[d]) /\ d \in Dests /\ pred[d] \in Place \cup CONST
  BY <1>1, <1>2, <1>3 DEF Single, Args
<1>5. store' \in [Place \cup {SPILL} -> Word] /\ store'[d].val = Content(pred[d]).val
  BY <1>1, <1>4, EmitMoveDoes
<1>6. Content(pred[d]).val = pred[d]
  BY <1>1, <1>4, ContentFacts DEF InStart
<1>7. Args' /\ Dests' = Dests /\ Srcs' = Srcs /\ pred' = pred
  BY <1>1, ArgsStay
<1>8. Types'
  BY <1>1, <1>5, <1>7 DEF Types
<1>9. Kept'
  BY <1>2, <1>5, <1>6, <1>7 DEF Kept
<1> QED BY <1>1, <1>7, <1>8, <1>9 DEF IInv

LEMMA StartInv ==
  ASSUME IInv, Start
  PROVE  IInv'
<1>1. /\ Args /\ Types /\ InStart /\ pc' = "trees"
      /\ ready' = (Dests \ Srcs) \ Temps
      /\ UNCHANGED <<args, store, todo, loc>>
  BY DEF Start, IInv
<1>2. /\ Args' /\ Dests' = Dests /\ Srcs' = Srcs /\ pred' = pred /\ Temps' = Temps
      /\ todo' = todo /\ loc' = loc /\ store' = store /\ todo = Dests
  BY <1>1, ArgsStay DEF InStart
<1>3. Types'
  BY <1>1, <1>2 DEF Types
<1>4. Kept' /\ Elsewhere(Srcs)' /\ Read' /\ TempsLast'
  BY <1>1, <1>2 DEF InStart, InPlace, Kept, Elsewhere, Read, TempsLast
<1>5. Found(todo)'
  <2>1. \A e \in Dests : pred[e] \in Srcs => store[loc[pred[e]]].val = pred[e]
    BY <1>1, ArgsFacts DEF InStart, InPlace
  <2> QED BY <1>2, <2>1 DEF Found
<1>6. Vacated(ready)' /\ InPlace(todo \ (ready \cup Temps))' /\ ready' \subseteq todo' \ Temps'
  BY <1>1, <1>2 DEF InStart, InPlace, Vacated
<1>7. InTrees'
  BY <1>4, <1>5, <1>6 DEF InTrees
<1> QED BY <1>1, <1>2, <1>3, <1>7 DEF IInv

(* A move of the first or the last stage, in which the places in H are not *)
(* released: it writes one destination and loses no value, provided that   *)
(* no other written destination and no source is clobbered.                *)
LEMMA TreeStep ==
  ASSUME Args, Types, NEW H, NEW d \in ready, ready \subseteq todo,
         Kept, Found(todo), Elsewhere(Srcs), Read, Vacated(ready), InPlace(todo \ (ready \cup H)),
         EmitMove(d, Source(d), types[d]), Moved(d), UNCHANGED args,
         todo' = todo \ {d}, ready' = (ready \ {d}) \cup Released(d, H),
         \A p \in (Dests \ todo) \cup Srcs : p # d => store'[p] = store[p]
  PROVE  /\ Kept' /\ Found(todo)' /\ Elsewhere(Srcs)' /\ Read' /\ Vacated(ready)'
         /\ \A e \in todo' \ (ready' \cup H) : e \in Srcs /\ loc'[e] = e
         /\ ready' \subseteq todo' /\ ready' \subseteq ready \cup (todo \ H)
         /\ loc' \in [Srcs -> Place] /\ store' \in [Place \cup {SPILL} -> Word]
         /\ todo' \subseteq Dests /\ ready' \subseteq Dests
<1>1. d \in Dests /\ d \in todo /\ todo \subseteq Dests /\ ready \subseteq Dests /\ pred[d] # d
  BY ArgsFacts DEF Types
<1>2. Dests' = Dests /\ Srcs' = Srcs /\ pred' = pred
  BY ArgsStay
<1>3. /\ loc' \in [Srcs -> Place]
      /\ pred[d] \in CONST => loc' = loc
      /\ pred[d] \in Srcs => loc'[pred[d]] = d
      /\ \A s \in Srcs : s # pred[d] => loc'[s] = loc[s]
  BY <1>1, MovedDoes
<1>4. Source(d) \in Place \cup CONST
  BY <1>1, SourceFacts
<1>5. store' \in [Place \cup {SPILL} -> Word] /\ store'[d].val = Content(Source(d)).val
  BY <1>1, <1>4, EmitMoveDoes
<1>6. store'[d].val = pred[d]
  <2>1. CASE pred[d] \in CONST
    BY <1>1, <1>4, <1>5, <2>1, SourceFacts, ContentFacts
  <2>2. CASE pred[d] \in Srcs
    BY <1>1, <1>4, <1>5, <2>2, SourceFacts, ContentFacts DEF Found
  <2> QED BY <1>1, <2>1, <2>2, ArgsFacts
<1>7. Released(d, H) \subseteq {pred[d]} /\ Released(d, H) \subseteq todo \ H
  BY DEF Released
<1>8. pred[d] \in todo \ H /\ loc[pred[d]] = pred[d] => pred[d] \in Released(d, H)
  BY DEF Released
<1>9. Kept'
  BY <1>1, <1>2, <1>6 DEF Kept
<1>10. Found(todo)'
  <2> SUFFICES ASSUME NEW e \in todo, e # d, pred[e] \in Srcs
               PROVE  store'[loc'[pred[e]]].val = pred[e]
    BY <1>2 DEF Found
  <2>1. CASE pred[e] = pred[d]
    BY <1>3, <1>6, <2>1
  <2>2. CASE pred[e] # pred[d]
    <3>1. loc'[pred[e]] = loc[pred[e]] /\ store[loc[pred[e]]].val = pred[e]
      BY <1>3, <2>2 DEF Found
    <3>2. loc[pred[e]] # d /\ loc[pred[e]] \in (Dests \ todo) \cup Srcs
      BY <1>1 DEF Elsewhere, Vacated
    <3> QED BY <3>1, <3>2
  <2> QED BY <2>1, <2>2
<1>11. Elsewhere(Srcs)'
  BY <1>1, <1>2, <1>3 DEF Elsewhere
<1>12. Read'
  BY <1>1, <1>2, <1>3 DEF Read
<1>13. Vacated(ready)'
  BY <1>1, <1>2, <1>3, <1>7 DEF Vacated
<1>14. ASSUME NEW e \in todo' \ (ready' \cup H) PROVE e \in Srcs /\ loc'[e] = e
  <2>1. e \in todo \ (ready \cup H) /\ e \notin Released(d, H)
    OBVIOUS
  <2>2. e \in Srcs /\ loc[e] = e
    BY <2>1 DEF InPlace
  <2>3. e # pred[d]
    BY <1>8, <2>1, <2>2
  <2> QED BY <1>3, <2>2, <2>3
<1>15. ready' \subseteq todo' /\ ready' \subseteq ready \cup (todo \ H)
  BY <1>1, <1>7
<1> QED BY <1>1, <1>3, <1>5, <1>9, <1>10, <1>11, <1>12, <1>13, <1>14, <1>15

LEMMA TreeInv ==
  ASSUME IInv, Tree
  PROVE  IInv'
<1> DEFINE d == First(ready)
<1>1. /\ pc = "trees" /\ Args /\ Types /\ InTrees /\ ready # {}
      /\ EmitMove(d, Source(d), types[d]) /\ Moved(d)
      /\ todo' = todo \ {d} /\ ready' = (ready \ {d}) \cup Released(d, Temps)
      /\ UNCHANGED args /\ pc' = pc
  BY DEF Tree, IInv
<1>2. d \in ready
  BY <1>1, FirstIn, ArgsFacts, PlaceFacts DEF Types
<1> HIDE DEF d
<1>3. /\ ready \subseteq todo \ Temps /\ TempsLast
      /\ Kept /\ Found(todo) /\ Elsewhere(Srcs) /\ Read /\ Vacated(ready)
      /\ InPlace(todo \ (ready \cup Temps))
  BY <1>1 DEF InTrees
<1>4. /\ Args' /\ Dests' = Dests /\ Srcs' = Srcs /\ Temps' = Temps
      /\ Temps \cap Srcs = {} /\ Srcs \subseteq Place /\ Dests \subseteq Place /\ d \in Dests
      /\ Source(d) \in Place \cup CONST
  BY <1>1, <1>2, ArgsStay, ArgsFacts, SourceFacts DEF Types
<1>5. ASSUME NEW p \in (Dests \ todo) \cup Srcs, p # d PROVE store'[p] = store[p]
  <2>1. p \in Place /\ p \notin Temps
    BY <1>3, <1>4 DEF TempsLast
  <2> QED BY <1>1, <1>4, <1>5, <2>1, EmitMoveDoes
<1>6. /\ Kept' /\ Found(todo)' /\ Elsewhere(Srcs)' /\ Read' /\ Vacated(ready)'
      /\ \A e \in todo' \ (ready' \cup Temps) : e \in Srcs /\ loc'[e] = e
      /\ ready' \subseteq todo' /\ ready' \subseteq ready \cup (todo \ Temps)
      /\ loc' \in [Srcs -> Place] /\ store' \in [Place \cup {SPILL} -> Word]
      /\ todo' \subseteq Dests /\ ready' \subseteq Dests
  <2>1. ready \subseteq todo
    BY <1>3
  <2> QED BY <1>1, <1>2, <1>3, <1>5, <2>1, TreeStep
<1>7. InPlace(todo \ (ready \cup Temps))'
  BY <1>4, <1>6 DEF InPlace
<1>8. TempsLast' /\ ready' \subseteq todo' \ Temps'
  BY <1>1, <1>2, <1>3, <1>4, <1>6 DEF TempsLast
<1>9. InTrees'
  BY <1>6, <1>7, <1>8 DEF InTrees
<1>10. Types'
  BY <1>1, <1>4, <1>6 DEF Types
<1> QED BY <1>1, <1>4, <1>9, <1>10 DEF IInv

LEMMA TreesDoneInv ==
  ASSUME IInv, TreesDone
  PROVE  IInv'
<1>1. /\ Args /\ Types /\ InTrees /\ ready = {} /\ pc' = "seek"
      /\ ready' = todo \cap Srcs
      /\ UNCHANGED <<args, store, todo, loc>>
  BY DEF TreesDone, IInv
<1>2. /\ Args' /\ Dests' = Dests /\ Srcs' = Srcs /\ pred' = pred /\ Temps' = Temps
      /\ todo' = todo /\ loc' = loc /\ store' = store
  BY <1>1, ArgsStay
<1>3. Types'
  BY <1>1, <1>2 DEF Types
<1>4. Kept' /\ Read' /\ TempsLast' /\ Found(todo)' /\ Elsewhere(Srcs)'
  BY <1>1, <1>2 DEF InTrees, Kept, Read, TempsLast, Found, Elsewhere
<1>5. InPlace(todo \ Temps)'
  BY <1>1, <1>2 DEF InTrees, InPlace
<1>6. Unresolved' /\ NoConstBehind' /\ Fresh(todo)' /\ ready' \subseteq Srcs'
  BY <1>1, <1>2 DEF Unresolved, NoConstBehind, Fresh
<1>7. InSeek'
  BY <1>4, <1>5, <1>6 DEF InSeek, Stage2
<1> QED BY <1>1, <1>2, <1>3, <1>7 DEF IInv

-----------------------------------------------------------------------------
(* What waits for no temporary goes around in cycles: if S holds what the  *)
(* temporaries wait for, the rest of todo is closed.                       *)
LEMMA RestIsClosed ==
  ASSUME Args, Types, Read, InPlace(todo \ Temps), NEW S \in SUBSET Dests, BehindTemps(S)
  PROVE  Closed(todo \ (S \cup Temps)) /\ todo \ (S \cup Temps) \subseteq todo \cap Srcs
<1> DEFINE B == todo \ (S \cup Temps)
<1>1. B \subseteq todo \cap Srcs /\ B \subseteq Dests
  BY DEF InPlace, Types
<1>2. IsFiniteSet(B)
  BY <1>1, ArgsFacts, FS_Subset
<1>3. ASSUME NEW b \in B PROVE \E e \in B : pred[e] = b
  <2>1. b \in Srcs /\ loc[b] = b /\ b \in Dests
    BY <1>1 DEF InPlace
  <2>2. PICK e \in Dests : pred[e] = b
    BY <2>1 DEF Srcs
  <2>3. e \in todo
    BY <2>1, <2>2 DEF Read
  <2>4. e \notin S \cup Temps
    BY <2>1, <2>2 DEF BehindTemps
  <2> QED BY <2>2, <2>3, <2>4
<1>4. \A e \in B : pred[e] \in B
  <2> HIDE DEF B
  <2> QED BY <1>2, <1>3, OntoIsClosed
<1> QED BY <1>1, <1>4 DEF Closed

(* Nothing that the search looks at changes while it only looks *)
LEMMA SeekStays ==
  ASSUME Args, Types, InSeek, UNCHANGED <<args, store, todo, loc>>,
         ready' \subseteq ready,
         \A C \in SUBSET (todo \cap Srcs) : Closed(C) => C \subseteq ready'
  PROVE  /\ InSeek' /\ Args' /\ Dests' = Dests /\ pred' = pred
         /\ todo' \subseteq Dests' /\ ready' \subseteq Dests'
         /\ loc' \in [Srcs' -> Place] /\ store' \in [Place \cup {SPILL} -> Word]
<1>1. /\ Args' /\ Dests' = Dests /\ Srcs' = Srcs /\ pred' = pred /\ Temps' = Temps
      /\ todo' = todo /\ loc' = loc /\ store' = store
  BY ArgsStay
<1>2. Kept' /\ Read' /\ TempsLast' /\ Found(todo)' /\ Elsewhere(Srcs)' /\ InPlace(todo \ Temps)'
  BY <1>1 DEF InSeek, Stage2, Kept, Read, TempsLast, Found, Elsewhere, InPlace
<1>3. Unresolved' /\ NoConstBehind' /\ ready' \subseteq Srcs'
  BY <1>1 DEF InSeek, Stage2, Unresolved, NoConstBehind, Closed
<1>4. Fresh(todo)'
  BY <1>1 DEF InSeek, Fresh, Closed
<1>5. InSeek'
  BY <1>2, <1>3, <1>4 DEF InSeek, Stage2
<1> QED BY <1>1, <1>5 DEF Types

LEMMA SeekInv ==
  ASSUME IInv, Seek
  PROVE  IInv'
<1> DEFINE f == First(ready)
<1>1. /\ Args /\ Types /\ InSeek /\ ready # {} /\ pc' = "walk"
      /\ visited' = {f} /\ to' = pred[f]
      /\ UNCHANGED <<args, store, todo, ready, loc>>
  BY DEF Seek, IInv
<1>2. f \in ready /\ f \in Dests
  BY <1>1, FirstIn, ArgsFacts, PlaceFacts DEF Types
<1> HIDE DEF f
<1>3. /\ InSeek' /\ Args' /\ Dests' = Dests /\ pred' = pred
      /\ todo' \subseteq Dests' /\ ready' \subseteq Dests'
      /\ loc' \in [Srcs' -> Place] /\ store' \in [Place \cup {SPILL} -> Word]
  <2>1. \A C \in SUBSET (todo \cap Srcs) : Closed(C) => C \subseteq ready'
    BY <1>1 DEF InSeek, Stage2, Unresolved
  <2> QED BY <1>1, <2>1, SeekStays
<1>4. Types'
  BY <1>1, <1>3 DEF Types
<1>5. Leads' /\ Beyond'
  BY <1>1, <1>2, <1>3 DEF Leads, Beyond, Closed
<1>6. InWalk'
  <2>1. {f} \in SUBSET ready'
    BY <1>1, <1>2
  <2>2. f \in ready' /\ pred'[f] = to' /\ visited' \subseteq {f} \cup {to'}
    BY <1>1, <1>2, <1>3
  <2>3. \A w \in {f} : pred'[w] \in {f} \cup {to'}
    BY <2>2
  <2> QED BY <1>5, <2>1, <2>2, <2>3 DEF InWalk
<1> QED BY <1>1, <1>3, <1>4, <1>6 DEF IInv

(* The walk meets no constant (IR_ASSERT, ir_emit.c:849): it goes around a *)
(* cycle, or behind a temporary, where NoLateConst excludes it.            *)
LEMMA WalkMeetsNoConst ==
  ASSUME Args, Types, InSeek, InWalk, to \in ready, NoLateConst
  PROVE  pred[to] \in Srcs
<1>1. PICK f \in ready : pred[f] = to
  BY DEF InWalk
<1>2. f \in Dests /\ to \in Dests /\ f \in Srcs
  BY DEF Types, InSeek, Stage2
<1>3. CASE f \notin todo
  BY <1>1, <1>2, <1>3, ArgsFacts DEF InSeek, Stage2, NoConstBehind
<1>4. CASE f \in todo
  <2>1. PICK S \in SUBSET Dests :
          BehindTemps(S) /\ \A d \in S : pred[d] \in Dests => pred[pred[d]] \notin CONST
    BY DEF NoLateConst
  <2>2. CASE f \in S
    BY <1>1, <1>2, <2>1, <2>2, ArgsFacts
  <2>3. CASE f \notin S
    <3> DEFINE B == todo \ (S \cup Temps)
    <3>1. Closed(B) /\ B \subseteq todo \cap Srcs
      BY <2>1, RestIsClosed DEF InSeek, Stage2
    <3>2. f \in B
      BY <1>2, <1>4, <2>3, ArgsFacts
    <3>3. to \in B /\ pred[to] \in B
      BY <1>1, <3>1, <3>2 DEF Closed
    <3> QED BY <3>1, <3>3
  <2> QED BY <2>2, <2>3
<1> QED BY <1>3, <1>4

LEMMA WalkInv ==
  ASSUME IInv, Walk
  PROVE  IInv'
<1>1. /\ Args /\ Types /\ InSeek /\ InWalk /\ to \in ready
      /\ to' = pred[to] /\ visited' = visited \cup ({pred[to]} \ CONST)
      /\ pc' = IF pred[to] \in CONST THEN "constant_in_cycle"
               ELSE IF pred[to] \in visited THEN "break" ELSE "walk"
      /\ UNCHANGED <<args, store, todo, ready, loc>>
  BY DEF Walk, IInv
<1>3. /\ InSeek' /\ Args' /\ Dests' = Dests /\ pred' = pred
      /\ todo' \subseteq Dests' /\ ready' \subseteq Dests'
      /\ loc' \in [Srcs' -> Place] /\ store' \in [Place \cup {SPILL} -> Word]
  <2>1. \A C \in SUBSET (todo \cap Srcs) : Closed(C) => C \subseteq ready'
    BY <1>1 DEF InSeek, Stage2, Unresolved
  <2> QED BY <1>1, <2>1, SeekStays
<1>0. CASE pred[to] \in CONST
  <2>1. pc' = "constant_in_cycle"
    BY <1>0, <1>1
  <2>2. ~NoLateConst'
    BY <1>0, <1>1, WalkMeetsNoConst, ConditionsStay DEF Srcs
  <2>3. Types'
    BY <1>3, <2>1 DEF Types
  <2> QED BY <1>3, <2>1, <2>2, <2>3 DEF IInv
<1> SUFFICES ASSUME pred[to] \notin CONST PROVE IInv'
  BY <1>0
<1>2. to \in Dests /\ pred[to] # to /\ visited' = visited \cup {to'}
  BY <1>1, ArgsFacts DEF Types
<1>4. pc' \in {"walk", "break"}
  BY <1>1, <1>2
<1>5. Types'
  BY <1>3, <1>4 DEF Types
<1>6. \A C \in SUBSET Dests : Closed(C) /\ to \in C => to' \in C
  BY <1>1 DEF Closed
<1>7. \A C \in SUBSET Dests : Closed(C) /\ C \cap visited' # {} => to' \in C
  BY <1>1, <1>2, <1>6 DEF InWalk, Leads
<1>8. PICK W \in SUBSET ready : /\ visited \subseteq W \cup {to}
                               /\ \A w \in W : pred[w] \in W \cup {to}
  BY <1>1 DEF InWalk
<1> DEFINE V == W \cup {to}
<1>9. V \in SUBSET ready' /\ \A w \in V : pred[w] \in V \cup {to'}
  BY <1>1, <1>8
<1>10. \A C : Closed(C)' = Closed(C)
  BY Zenon, <1>3 DEF Closed
<1>11. CASE pc' = "walk"
  <2>1. Leads'
    BY Zenon, <1>3, <1>7, <1>10 DEF Leads
  <2>2. Beyond'
    <3> SUFFICES ASSUME NEW v \in visited', v # to', NEW C \in SUBSET Dests, Closed(C), pred[v] \in C
                 PROVE  to' \in C
      BY Zenon, <1>3, <1>10 DEF Beyond
    <3>1. v \in visited
      BY <1>2
    <3>2. v = to => to' \in C
      BY <1>1
    <3>3. v # to => to \in C
      BY <1>1, <3>1 DEF InWalk, Beyond
    <3> QED BY <1>6, <3>2, <3>3
  <2>3. visited' \subseteq V \cup {to'}
    BY <1>2, <1>8
  <2>4. \E f \in ready' : pred'[f] = to'
    BY <1>1, <1>3
  <2>5. InWalk'
    BY <1>3, <1>9, <2>1, <2>2, <2>3, <2>4 DEF InWalk
  <2> QED BY <1>3, <1>5, <1>11, <2>5 DEF IInv
<1>12. CASE pc' = "break"
  <2>1. to' \in visited /\ to' # to
    BY <1>1, <1>2, <1>12
  <2>2. OnCycle(to)'
    <3> SUFFICES ASSUME NEW C \in SUBSET Dests, Closed(C), pred[to'] \in C
                 PROVE  to' \in C
      BY Zenon, <1>3, <1>10 DEF OnCycle
    <3>1. to \in C
      BY <1>1, <2>1 DEF InWalk, Beyond
    <3> QED BY <1>6, <3>1
  <2>3. VisitedReach(to)'
    BY Zenon, <1>3, <1>7, <1>10 DEF VisitedReach
  <2>4. Closed(V) /\ to' \in V
    BY <1>1, <1>8, <2>1 DEF Closed
  <2>5. V \subseteq todo
    BY <1>1, <1>9, <2>4 DEF InSeek, Fresh
  <2>6. V \in SUBSET (ready' \cap todo') /\ to' \in V /\ \A d \in V : pred'[d] \in V
    BY <1>1, <1>3, <1>9, <2>4, <2>5 DEF Closed
  <2>7. to' \in visited'
    BY <1>2
  <2>8. InBreak'
    <3> HIDE DEF V
    <3> QED BY Zenon, <2>2, <2>3, <2>6, <2>7 DEF InBreak, Closed
  <2> QED BY <1>3, <1>5, <1>12, <2>8 DEF IInv
<1> QED BY <1>4, <1>11, <1>12

LEMMA WalkOutInv ==
  ASSUME IInv, WalkOut
  PROVE  IInv'
<1>1. /\ Args /\ Types /\ InSeek /\ InWalk /\ to \notin ready
      /\ ready' = ready \ visited /\ pc' = "seek"
      /\ UNCHANGED <<args, store, todo, loc>>
  BY DEF WalkOut, IInv
<1>2. ASSUME NEW C \in SUBSET (todo \cap Srcs), Closed(C) PROVE C \subseteq ready'
  <2>1. C \subseteq ready /\ C \in SUBSET Dests
    BY <1>1, <1>2 DEF InSeek, Stage2, Unresolved, Types
  <2>2. C \cap visited = {}
    BY <1>1, <1>2, <2>1 DEF InWalk, Leads
  <2> QED BY <1>1, <2>1, <2>2
<1>3. /\ InSeek' /\ Args' /\ Dests' = Dests /\ pred' = pred
      /\ todo' \subseteq Dests' /\ ready' \subseteq Dests'
      /\ loc' \in [Srcs' -> Place] /\ store' \in [Place \cup {SPILL} -> Word]
  BY <1>1, <1>2, SeekStays
<1>4. Types'
  BY <1>1, <1>3 DEF Types
<1> QED BY <1>1, <1>3, <1>4 DEF IInv

-----------------------------------------------------------------------------
(* The places that the walk has closed: a cycle of copies of one class     *)
LEMMA TheCycle ==
  ASSUME Args, Types, InSeek, InBreak
  PROVE  \E Y \in SUBSET (ready \cap todo) :
            Closed(Y) /\ to \in Y /\ \A y \in Y : types[y].class = types[to].class
<1>1. PICK W \in SUBSET (ready \cap todo) : Closed(W) /\ to \in W
  BY DEF InBreak
<1> DEFINE Y == {w \in W : \A C \in SUBSET Dests : Closed(C) /\ to \in C => w \in C}
           I == {pred[y] : y \in Y}
<1>2. Y \subseteq W /\ Y \in SUBSET Dests /\ to \in Y
  BY <1>1 DEF Types
<1>3. \A C \in SUBSET Dests : Closed(C) /\ to \in C => Y \subseteq C
  OBVIOUS
<1>4. ASSUME NEW y \in Y PROVE pred[y] \in Y
  BY <1>1 DEF Closed
<1>5. Closed(Y)
  BY <1>4 DEF Closed
<1> HIDE DEF Y
<1>6. I \subseteq Y /\ Closed(I) /\ pred[to] \in I
  BY <1>2, <1>5 DEF Closed
<1>7. I = Y
  <2>1. I \in SUBSET Dests
    BY <1>2, <1>6
  <2>2. to \in I
    BY <1>6, <2>1 DEF InBreak, OnCycle
  <2> QED BY <1>3, <1>6, <2>1, <2>2
<1>8. \A y \in Y : types[pred[y]].class = types[y].class
  BY <1>2, <1>7 DEF Args, OneClassCycles
<1> DEFINE K == {y \in Y : types[y].class = types[to].class}
<1>9. K \in SUBSET Dests /\ Closed(K) /\ to \in K
  BY <1>2, <1>5, <1>8 DEF Closed
<1>10. Y \subseteq K
  <2> HIDE DEF K
  <2> QED BY <1>3, <1>9
<1> QED BY <1>1, <1>2, <1>5, <1>10

(* While the search looks around, a source that is still in its place      *)
(* holds its own value.                                                    *)
LEMMA InPlaceHolds ==
  ASSUME Args, Types, InSeek, NEW s \in Srcs, loc[s] = s
  PROVE  store[s].val = s
<1>1. PICK d \in Dests : pred[d] = s
  BY DEF Srcs
<1>2. d \in todo
  BY <1>1 DEF InSeek, Stage2, Read
<1> QED BY <1>1, <1>2 DEF InSeek, Found

LEMMA ExchangeInv ==
  ASSUME IInv, Exchange
  PROVE  IInv'
<1> DEFINE from == pred[to]
           w == IF types[to].width > types[from].width THEN types[to].width
                                                       ELSE types[from].width
<1>1. /\ Args /\ Types /\ InSeek /\ InBreak /\ pred[from] = to
      /\ store' = [store EXCEPT ![to] = Narrow(store[from], w), ![from] = Narrow(store[to], w)]
      /\ todo' = todo \ {to, from}
      /\ loc' = [loc EXCEPT ![to] = from, ![from] = to]
      /\ ready' = ready \ visited /\ pc' = "seek" /\ UNCHANGED args
  BY DEF Exchange, IInv, IsSwap
<1>2. PICK Y \in SUBSET (ready \cap todo) : Closed(Y) /\ to \in Y
  BY <1>1, TheCycle
<1>3. /\ to \in ready /\ to \in todo /\ from \in ready /\ from \in todo
      /\ to \in Dests /\ from \in Dests /\ to \in Srcs /\ from \in Srcs /\ from # to
  BY <1>1, <1>2, ArgsFacts DEF Closed, Types, InSeek, Stage2
<1>4. to \in Place /\ from \in Place /\ to \notin Temps /\ from \notin Temps
  BY <1>1, <1>3, ArgsFacts
<1>5. loc[to] = to /\ loc[from] = from
  BY <1>1, <1>3, <1>4 DEF InSeek, InPlace
<1>6. store[to].val = to /\ store[from].val = from
  BY <1>1, <1>3, <1>5, InPlaceHolds
<1>7. w \in Width /\ store[to] \in Word /\ store[from] \in Word
  BY <1>1, <1>3, <1>4, ArgsFacts DEF Type, Types
<1>8. /\ Narrow(store[from], w) \in Word /\ Narrow(store[from], w).val = from
      /\ Narrow(store[to], w) \in Word /\ Narrow(store[to], w).val = to
  <2> HIDE DEF w
  <2> QED BY <1>6, <1>7, NarrowKeeps DEF Word
<1> HIDE DEF w, from
<1>9. /\ store' \in [Place \cup {SPILL} -> Word]
      /\ store'[to].val = from /\ store'[from].val = to
      /\ \A p \in Place : p # to /\ p # from => store'[p] = store[p]
  <2>1. store \in [Place \cup {SPILL} -> Word]
    BY <1>1 DEF Types
  <2>2. store'[to] = Narrow(store[from], w) /\ store'[from] = Narrow(store[to], w)
    BY <1>1, <1>3, <1>4, <2>1
  <2>3. store' \in [Place \cup {SPILL} -> Word]
    BY <1>1, <1>4, <1>8, <2>1
  <2> QED BY <1>1, <1>4, <1>8, <2>1, <2>2, <2>3
<1>10. /\ loc' \in [Srcs -> Place] /\ loc'[to] = from /\ loc'[from] = to
       /\ \A s \in Srcs : s # to /\ s # from => loc'[s] = loc[s]
  BY <1>1, <1>3, <1>4 DEF Types
<1>11. /\ Args' /\ Dests' = Dests /\ Srcs' = Srcs /\ pred' = pred /\ Temps' = Temps
  BY <1>1, ArgsStay
<1>12. Types'
  BY <1>1, <1>9, <1>10, <1>11 DEF Types
<1>13. pred[to] = from /\ pred[from] = to
  BY <1>1 DEF from
<1>14. todo \subseteq Dests /\ Dests \subseteq Place /\ Srcs \subseteq Place
  BY <1>1, ArgsFacts DEF Types
<1>15. Kept'
  BY <1>1, <1>9, <1>11, <1>13, <1>14 DEF InSeek, Stage2, Kept
<1>16. Read'
  BY <1>1, <1>3, <1>10, <1>11, <1>13 DEF InSeek, Stage2, Read
<1>17. TempsLast' /\ InPlace(todo \ Temps)'
  BY <1>1, <1>4, <1>10, <1>11 DEF InSeek, Stage2, TempsLast, InPlace
<1>18. Elsewhere(Srcs)'
  BY <1>1, <1>3, <1>10, <1>11 DEF InSeek, Elsewhere
<1>19. Found(todo)'
  <2> SUFFICES ASSUME NEW d \in todo \ {to, from}, pred[d] \in Srcs
               PROVE  store'[loc'[pred[d]]].val = pred[d]
    BY <1>1, <1>11 DEF Found
  <2>1. CASE pred[d] \in {to, from}
    BY <1>9, <1>10, <2>1
  <2>2. CASE pred[d] \notin {to, from}
    <3>1. loc'[pred[d]] = loc[pred[d]] /\ store[loc[pred[d]]].val = pred[d]
      BY <1>1, <1>10, <2>2 DEF InSeek, Found
    <3>2. loc[pred[d]] \notin {to, from} /\ loc[pred[d]] \in Place
      BY <1>1, <1>3, <1>14, <2>2 DEF InSeek, Elsewhere
    <3> QED BY <1>9, <3>1, <3>2
  <2> QED BY <2>1, <2>2
<1>20. to \in visited /\ \A C \in SUBSET Dests : Closed(C) /\ C \cap visited # {} => to \in C
  BY <1>1 DEF InBreak, VisitedReach
<1>21. Unresolved'
  <2> SUFFICES ASSUME NEW C \in SUBSET (todo' \cap Srcs), Closed(C) PROVE C \subseteq ready'
    BY <1>11 DEF Unresolved, Closed
  <2>1. C \subseteq ready /\ to \notin C /\ C \in SUBSET Dests
    BY <1>1, <1>14 DEF InSeek, Stage2, Unresolved
  <2> QED BY <1>1, <1>20, <2>1
<1>22. NoConstBehind'
  <2> SUFFICES ASSUME NEW d \in ready' \ todo'
               PROVE  pred[d] \in Dests /\ pred[pred[d]] \notin CONST
    BY <1>11 DEF NoConstBehind
  <2>1. CASE d \in {to, from}
    BY <1>3, <1>4, <1>13, <2>1, PlaceFacts
  <2>2. CASE d \notin {to, from}
    BY <1>1, <2>2 DEF InSeek, Stage2, NoConstBehind
  <2> QED BY <2>1, <2>2
<1>23. Fresh(todo)'
  <2> SUFFICES ASSUME NEW C \in SUBSET ready', Closed(C) PROVE C \subseteq todo'
    BY <1>11 DEF Fresh, Closed
  <2>1. C \subseteq todo /\ to \notin C
    BY <1>1, <1>20 DEF InSeek, Fresh
  <2>2. from \notin C
    BY <1>13, <2>1 DEF Closed
  <2> QED BY <1>1, <2>1, <2>2
<1>24. ready' \subseteq Srcs'
  BY <1>1, <1>11 DEF InSeek, Stage2
<1>25. InSeek'
  BY <1>15, <1>16, <1>17, <1>18, <1>19, <1>21, <1>22, <1>23, <1>24 DEF InSeek, Stage2
<1> QED BY <1>1, <1>11, <1>12, <1>25 DEF IInv

LEMMA SaveInv ==
  ASSUME IInv, Save
  PROVE  IInv'
<1> DEFINE type == types[pred[to]]
           t == TmpFor(type)
<1>1. /\ Args /\ Types /\ InSeek /\ InBreak
      /\ store' = [store EXCEPT ![t] = Narrow(store[to], type.width)]
      /\ loc' = [loc EXCEPT ![to] = t]
      /\ root' = to /\ to' = to /\ spilled' = FALSE /\ pc' = "cycle"
      /\ todo' = todo /\ ready' = ready /\ visited' = visited /\ UNCHANGED args
  BY DEF Save, IInv
<1>2. PICK Y \in SUBSET (ready \cap todo) :
         Closed(Y) /\ to \in Y /\ \A y \in Y : types[y].class = types[to].class
  BY <1>1, TheCycle
<1>3. /\ to \in ready /\ to \in todo /\ pred[to] \in Dests /\ pred[to] \in Y
      /\ to \in Dests /\ to \in Srcs /\ Y \subseteq Dests
  BY <1>1, <1>2 DEF Closed, Types, InSeek, Stage2
<1>4. to \in Place /\ to \notin Temps /\ t \in Temps /\ t \in Place /\ t # to /\ t \notin Srcs
  BY <1>1, <1>3, ArgsFacts, PlaceFacts
<1>5. t = TmpFor(types[to])
  BY <1>2, <1>3 DEF TmpFor
<1>6. loc[to] = to /\ store[to].val = to
  <2>1. loc[to] = to
    BY <1>1, <1>3, <1>4 DEF InSeek, InPlace
  <2> QED BY <1>1, <1>3, <2>1, InPlaceHolds
<1>7. Narrow(store[to], type.width) \in Word /\ Narrow(store[to], type.width).val = to
  <2>1. type.width \in Width /\ store[to] \in Word
    BY <1>1, <1>3, <1>4, ArgsFacts DEF Type, Types
  <2> QED BY <1>6, <2>1, NarrowKeeps DEF Word
<1> HIDE DEF type, t
<1>8. /\ store' \in [Place \cup {SPILL} -> Word] /\ store'[t].val = to
      /\ \A p \in Place : p # t => store'[p] = store[p]
  BY <1>1, <1>4, <1>7 DEF Types
<1>9. /\ loc' \in [Srcs -> Place] /\ loc'[to] = t
      /\ \A s \in Srcs : s # to => loc'[s] = loc[s]
  BY <1>1, <1>3, <1>4 DEF Types
<1>10. /\ Args' /\ Dests' = Dests /\ Srcs' = Srcs /\ pred' = pred /\ Temps' = Temps
       /\ types' = types /\ tmp_reg' = tmp_reg /\ tmp_fp_reg' = tmp_fp_reg
  BY <1>1, ArgsStay
<1>11. Types'
  BY <1>1, <1>8, <1>9, <1>10 DEF Types
<1>12. todo \subseteq Dests /\ Dests \subseteq Place /\ Srcs \subseteq Place
  BY <1>1, ArgsFacts DEF Types
<1>13. t \notin Dests \ todo
  BY <1>1, <1>4 DEF InSeek, Stage2, TempsLast
<1>14. Kept' /\ Read' /\ TempsLast'
  <2>1. Kept'
    BY <1>1, <1>8, <1>10, <1>12, <1>13 DEF InSeek, Stage2, Kept
  <2>2. Read'
    <3> SUFFICES ASSUME NEW d \in Dests \ todo, pred[d] \in Srcs PROVE loc'[pred[d]] # pred[d]
      BY <1>1, <1>10 DEF Read
    <3>1. CASE pred[d] = to
      BY <1>4, <1>9, <3>1
    <3>2. CASE pred[d] # to
      BY <1>1, <1>9, <3>2 DEF InSeek, Stage2, Read
    <3> QED BY <3>1, <3>2
  <2>3. TempsLast'
    BY <1>1, <1>10 DEF InSeek, Stage2, TempsLast
  <2> QED BY <2>1, <2>2, <2>3
<1>15. Unresolved' /\ NoConstBehind' /\ ready' \subseteq Srcs'
  BY <1>1, <1>10 DEF InSeek, Stage2, Unresolved, NoConstBehind, Closed
<1>16. OnCycle(root)' /\ VisitedReach(root)' /\ root' \in visited'
  BY <1>1, <1>10 DEF InBreak, OnCycle, VisitedReach, Closed
<1>17. Found({d \in todo : pred[d] # root})'
  <2> SUFFICES ASSUME NEW d \in todo, pred[d] # to, pred[d] \in Srcs
               PROVE  store'[loc'[pred[d]]].val = pred[d]
    BY <1>1, <1>10 DEF Found
  <2>1. loc'[pred[d]] = loc[pred[d]] /\ store[loc[pred[d]]].val = pred[d]
    BY <1>1, <1>9 DEF InSeek, Found
  <2>2. loc[pred[d]] # t /\ loc[pred[d]] \in Place
    BY <1>1, <1>4, <1>12, <1>13 DEF InSeek, Elsewhere
  <2> QED BY <1>8, <2>1, <2>2
<1>18. Elsewhere(Srcs \ {root})' /\ InPlace(todo \ (Temps \cup {to}))'
  BY <1>1, <1>9, <1>10 DEF InSeek, Elsewhere, InPlace
<1>19. loc'[root'] = TmpFor(types[root])' /\ store'[Saved'].val = root'
  <2>1. TmpFor(types[root])' = t
    BY <1>1, <1>5, <1>10 DEF TmpFor
  <2>2. Saved' = t
    BY <1>1, <2>1 DEF Saved
  <2> QED BY <1>1, <1>8, <1>9, <2>1, <2>2
<1>20. Resolving(Y)'
  <2>1. InPlace((Y \cap todo) \ {to})'
    <3> SUFFICES ASSUME NEW e \in Y, e # to PROVE e \in Srcs /\ loc'[e] = e
      BY <1>1, <1>10 DEF InPlace
    <3>1. e \in Srcs /\ e \in todo /\ e \notin Temps
      BY <1>1, <1>2, ArgsFacts DEF InSeek, Stage2
    <3> QED BY <1>1, <1>9, <3>1 DEF InSeek, InPlace
  <2>2. Fresh(todo \cup Y)'
    BY <1>1, <1>10 DEF InSeek, Fresh, Closed
  <2>3. Y \ todo' = {} /\ Y \subseteq ready' /\ Y \subseteq todo' /\ Closed(Y)'
    BY <1>1, <1>2, <1>10 DEF Closed
  <2>4. \A y \in Y : types'[y].class = types'[root'].class
    BY <1>1, <1>2, <1>10
  <2>5. root' \in Y /\ to' \in Y /\ to' = root'
    BY <1>1, <1>2
  <2> QED BY <2>1, <2>2, <2>3, <2>4, <2>5 DEF Resolving
<1>21. InCycle'
  <2>1. spilled' \in BOOLEAN
    BY <1>1
  <2>2. Y \in SUBSET Dests'
    BY <1>3, <1>10
  <2> QED BY <1>14, <1>15, <1>16, <1>17, <1>18, <1>19, <1>20, <2>1, <2>2 DEF InCycle, Stage2
<1> QED BY <1>1, <1>10, <1>11, <1>21 DEF IInv

(* A move inside a cycle, to its next place or to the last one: it writes  *)
(* one destination and may clobber the temporaries.                        *)
LEMMA CycleStep ==
  ASSUME Args, Types, InCycle, NEW W \in SUBSET Dests, Resolving(W), pred[to] = root => to # root,
         UNCHANGED args, Moved(to), todo' = todo \ {to}, ready' \subseteq ready,
         store'[to].val = pred[to],
         \A p \in Place \ ({to} \cup Temps) : store'[p] = store[p]
  PROVE  /\ Kept' /\ Read' /\ TempsLast' /\ NoConstBehind' /\ ready' \subseteq Srcs
         /\ \A d \in todo' : pred[d] \in Srcs /\ (pred[d] # root \/ pred[to] = root)
                             => store'[loc'[pred[d]]].val = pred[d]
         /\ \A s \in Srcs : (s # root \/ pred[to] = root) /\ loc'[s] # s
                             => loc'[s] \in Dests \ todo'
         /\ \A e \in todo' \ Temps : e # pred[to] => e \in Srcs /\ loc'[e] = e
         /\ loc' \in [Srcs -> Place] /\ loc'[pred[to]] = to
         /\ \A s \in Srcs : s # pred[to] => loc'[s] = loc[s]
<1>1. /\ to \in Dests /\ to \in todo /\ to \in Srcs /\ to \notin Temps /\ to \in Place
      /\ pred[to] \in Dests /\ pred[to] \in Srcs /\ pred[to] # to /\ pred[to] \in W
      /\ pred[pred[to]] \in Place
  <2>1. to \in W /\ to \in todo /\ pred[to] \in W /\ pred[pred[to]] \in W /\ W \subseteq ready
    BY DEF Resolving, Closed
  <2>2. W \subseteq Dests /\ W \subseteq Srcs
    BY <2>1 DEF InCycle, Stage2
  <2> QED BY <2>1, <2>2, ArgsFacts
<1>2. /\ Stage2 /\ Found({d \in todo : pred[d] # root}) /\ Elsewhere(Srcs \ {root})
      /\ InPlace(todo \ (Temps \cup {to}))
  BY DEF InCycle
<1>3. /\ loc' \in [Srcs -> Place] /\ loc'[pred[to]] = to
      /\ \A s \in Srcs : s # pred[to] => loc'[s] = loc[s]
  BY <1>1, MovedDoes
<1>4. Dests' = Dests /\ Srcs' = Srcs /\ pred' = pred /\ Temps' = Temps
  BY ArgsStay
<1>5. todo \subseteq Dests /\ Dests \subseteq Place /\ Srcs \subseteq Place /\ Temps \cap Srcs = {}
  BY ArgsFacts DEF Types
<1>6. Kept'
  <2> SUFFICES ASSUME NEW d \in Dests, d \notin todo \ {to} PROVE store'[d].val = pred[d]
    BY <1>4 DEF Kept
  <2>1. d # to => d \notin Temps /\ d \in Place /\ store[d].val = pred[d]
    BY <1>2, <1>5 DEF Stage2, Kept, TempsLast
  <2> QED BY <2>1
<1>7. Read'
  BY <1>1, <1>2, <1>3, <1>4 DEF Stage2, Read
<1>8. TempsLast' /\ ready' \subseteq Srcs
  BY <1>1, <1>2, <1>4 DEF Stage2, TempsLast
<1>9. NoConstBehind'
  <2> SUFFICES ASSUME NEW d \in ready, d \notin todo \ {to}
               PROVE  pred[d] \in Dests /\ pred[pred[d]] \notin CONST
    BY <1>4 DEF NoConstBehind
  <2>1. d # to => pred[d] \in Dests /\ pred[pred[d]] \notin CONST
    BY <1>2 DEF Stage2, NoConstBehind
  <2> QED BY <1>1, <2>1, PlaceFacts
<1>10. loc[to] = to => to = root
  BY DEF Resolving
<1>11. ASSUME NEW d \in todo', pred[d] \in Srcs, pred[d] # root \/ pred[to] = root
       PROVE  store'[loc'[pred[d]]].val = pred[d]
  <2>1. CASE pred[d] = pred[to]
    BY <1>3, <2>1
  <2>2. CASE pred[d] # pred[to]
    <3>1. pred[d] # root /\ d \in todo
      BY <1>11, <2>2
    <3>2. loc'[pred[d]] = loc[pred[d]] /\ store[loc[pred[d]]].val = pred[d]
      BY <1>2, <1>3, <1>11, <2>2, <3>1 DEF Found
    <3>3. loc[pred[d]] \in Srcs \cup (Dests \ todo)
      BY <1>2, <1>11, <3>1 DEF Elsewhere
    <3>4. loc[pred[d]] # to
      BY <1>1, <1>2, <1>10, <1>11, <3>1 DEF Elsewhere
    <3>5. loc[pred[d]] \in Place \ ({to} \cup Temps)
      BY <1>2, <1>5, <3>3, <3>4 DEF Stage2, TempsLast
    <3> QED BY <3>2, <3>5
  <2> QED BY <2>1, <2>2
<1>12. ASSUME NEW s \in Srcs, s # root \/ pred[to] = root, loc'[s] # s
       PROVE  loc'[s] \in Dests \ todo'
  BY <1>1, <1>2, <1>3, <1>12 DEF Elsewhere
<1>13. ASSUME NEW e \in todo' \ Temps, e # pred[to] PROVE e \in Srcs /\ loc'[e] = e
  BY <1>2, <1>3, <1>13 DEF InPlace
<1> QED BY <1>3, <1>6, <1>7, <1>8, <1>9, <1>11, <1>12, <1>13

(* The next place of a cycle is not written yet: the places written so far *)
(* would be a cycle without the root.                                      *)
LEMMA NextOfCycle ==
  ASSUME Args, Types, InCycle, NEW W \in SUBSET Dests, Resolving(W), pred[to] # root
  PROVE  pred[to] \in W \cap todo
<1>1. to \in W /\ to \in todo /\ pred[to] \in W /\ root \in W
  BY DEF Resolving, Closed
<1>2. ASSUME pred[to] \notin todo PROVE FALSE
  <2> DEFINE Q == ((W \ todo) \cup {to}) \ {root}
  <2>1. to # root /\ root \notin todo
    BY <1>1, <1>2 DEF Resolving
  <2>2. \A p \in W \ todo : pred[p] \in Q
    BY DEF Resolving
  <2>3. Closed(Q)
    BY <1>1, <1>2, <2>2 DEF Closed
  <2>4. pred[root] \in Q /\ Q \in SUBSET Dests
    BY <1>1, <2>1, <2>2
  <2> HIDE DEF Q
  <2>5. root \in Q
    BY <2>3, <2>4 DEF InCycle, OnCycle
  <2> QED BY <2>5 DEF Q
<1> QED BY <1>1, <1>2

(* What a move of Follow does to the places and to the saved value *)
LEMMA FollowStores ==
  ASSUME Args, Types, InCycle, NEW W \in SUBSET Dests, Resolving(W), Follow
  PROVE  /\ store' \in [Place \cup {SPILL} -> Word]
         /\ store'[to].val = pred[to]
         /\ \A p \in Place \ ({to} \cup Temps) : store'[p] = store[p]
         /\ spilled' \in BOOLEAN
         /\ store'[IF spilled' THEN SPILL ELSE TmpFor(types[root])].val = root
<1> DEFINE r == loc[pred[to]]
           type == types[to]
           v == Narrow(store[r], type.width)
           t == TmpFor(type)
           M == Place \cup {SPILL}
<1>1. /\ pred[to] # root
      /\ store' = IF ~NeedsTmp(to, r) THEN [store EXCEPT ![to] = v]
                  ELSE IF spilled THEN [store EXCEPT ![to] = v, ![t] = v]
                  ELSE [store EXCEPT ![SPILL] = Narrow(store[t], type.width),
                                     ![to] = v, ![t] = v]
      /\ spilled' = (spilled \/ NeedsTmp(to, r))
  BY DEF Follow
<1>2. /\ to \in todo /\ to \in Dests /\ to \in Srcs /\ to \notin Temps /\ to \in Place
      /\ pred[to] \in Srcs /\ r \in Place
  <2>1. to \in W /\ to \in todo /\ pred[to] \in W /\ W \subseteq ready
    BY DEF Resolving, Closed
  <2>2. W \subseteq Srcs
    BY <2>1 DEF InCycle, Stage2
  <2> QED BY <2>1, <2>2, ArgsFacts DEF Types
<1>3. t \in Temps /\ t \in Place /\ t # to /\ t = TmpFor(types[root])
  <2>1. types[to].class = types[root].class
    BY DEF Resolving
  <2> QED BY <1>2, <2>1, ArgsFacts, PlaceFacts DEF TmpFor
<1>4. store \in [M -> Word] /\ SPILL \notin Place /\ to # SPILL /\ t # SPILL
  BY <1>2, <1>3, PlaceFacts DEF Types
<1>5. type.width \in Width /\ store[r] \in Word /\ store[t] \in Word
  BY <1>2, <1>3, <1>4, ArgsFacts DEF Type
<1>6. v \in Word /\ v.val = pred[to]
  <2>1. store[r].val = pred[to]
    BY <1>1, <1>2 DEF InCycle, Found
  <2> QED BY <1>5, <2>1, NarrowKeeps DEF Word
<1>7. Narrow(store[t], type.width) \in Word /\ Narrow(store[t], type.width).val = store[t].val
  BY <1>5, NarrowKeeps DEF Word
<1>8. spilled \in BOOLEAN /\ (spilled => store[SPILL].val = root) /\ (~spilled => store[t].val = root)
  BY <1>3 DEF InCycle, Saved
<1> HIDE DEF v, t, r, type
<1>9. CASE ~NeedsTmp(to, r)
  <2>1. store' = [store EXCEPT ![to] = v] /\ spilled' = spilled
    BY <1>1, <1>8, <1>9
  <2>2. store' \in [M -> Word] /\ store'[to] = v /\ \A p \in M : p # to => store'[p] = store[p]
    BY <1>2, <1>4, <1>6, <2>1
  <2> QED BY <1>3, <1>4, <1>6, <1>8, <2>1, <2>2
<1>10. CASE NeedsTmp(to, r) /\ spilled
  <2>1. store' = [store EXCEPT ![to] = v, ![t] = v] /\ spilled' = TRUE
    BY <1>1, <1>10
  <2>2. /\ store' \in [M -> Word] /\ store'[to] = v
        /\ \A p \in M : p # to /\ p # t => store'[p] = store[p]
    BY <1>2, <1>3, <1>4, <1>6, <2>1
  <2>3. store'[SPILL].val = root
    BY <1>4, <1>8, <1>10, <2>2
  <2> QED BY <1>3, <1>6, <2>1, <2>2, <2>3
<1>11. CASE NeedsTmp(to, r) /\ ~spilled
  <2> DEFINE u == Narrow(store[t], type.width)
  <2>1. store' = [store EXCEPT ![SPILL] = u, ![to] = v, ![t] = v] /\ spilled' = TRUE
    BY <1>1, <1>11
  <2>2. u \in Word /\ u.val = root
    BY <1>7, <1>8, <1>11
  <2> HIDE DEF u
  <2>3. /\ store' \in [M -> Word] /\ store'[to] = v /\ store'[SPILL] = u
        /\ \A p \in M : p # to /\ p # t /\ p # SPILL => store'[p] = store[p]
    BY <1>2, <1>3, <1>4, <1>6, <2>1, <2>2
  <2>4. \A p \in Place \ ({to} \cup Temps) : store'[p] = store[p]
    BY <1>3, <1>4, <2>3
  <2> QED BY <1>6, <2>1, <2>2, <2>3, <2>4
<1> QED BY <1>8, <1>9, <1>10, <1>11

LEMMA FollowInv ==
  ASSUME IInv, Follow
  PROVE  IInv'
<1>1. /\ Args /\ Types /\ InCycle /\ pred[to] # root /\ pc = "cycle" /\ pc' = pc
      /\ Moved(to) /\ todo' = todo \ {to} /\ to' = pred[to]
      /\ ready' = ready /\ visited' = visited /\ root' = root /\ UNCHANGED args
  BY DEF Follow, IInv
<1>2. PICK W \in SUBSET Dests : Resolving(W)
  BY <1>1 DEF InCycle
<1>3. /\ store' \in [Place \cup {SPILL} -> Word]
      /\ store'[to].val = pred[to]
      /\ \A p \in Place \ ({to} \cup Temps) : store'[p] = store[p]
      /\ spilled' \in BOOLEAN
      /\ store'[IF spilled' THEN SPILL ELSE TmpFor(types[root])].val = root
  BY <1>1, <1>2, FollowStores
<1>4. /\ Kept' /\ Read' /\ TempsLast' /\ NoConstBehind' /\ ready' \subseteq Srcs
      /\ \A d \in todo' : pred[d] \in Srcs /\ (pred[d] # root \/ pred[to] = root)
                          => store'[loc'[pred[d]]].val = pred[d]
      /\ \A s \in Srcs : (s # root \/ pred[to] = root) /\ loc'[s] # s
                          => loc'[s] \in Dests \ todo'
      /\ \A e \in todo' \ Temps : e # pred[to] => e \in Srcs /\ loc'[e] = e
      /\ loc' \in [Srcs -> Place] /\ loc'[pred[to]] = to
      /\ \A s \in Srcs : s # pred[to] => loc'[s] = loc[s]
  BY <1>1, <1>2, <1>3, CycleStep
<1>5. /\ Args' /\ Dests' = Dests /\ Srcs' = Srcs /\ pred' = pred /\ Temps' = Temps
      /\ types' = types /\ tmp_reg' = tmp_reg /\ tmp_fp_reg' = tmp_fp_reg
  BY <1>1, ArgsStay
<1>6. /\ W \subseteq ready /\ Closed(W) /\ root \in W /\ to \in W /\ to \in todo
      /\ pred[to] \in W /\ pred[to] \in todo /\ pred[to] # to /\ W \subseteq Srcs
  <2>1. to \in W /\ to \in todo /\ W \subseteq ready /\ Closed(W) /\ root \in W
    BY <1>2 DEF Resolving
  <2>2. pred[to] \in W \cap todo
    BY <1>1, <1>2, NextOfCycle
  <2> QED BY <1>1, <2>1, <2>2, ArgsFacts DEF InCycle, Stage2
<1>7. Types'
  BY <1>1, <1>3, <1>4, <1>5 DEF Types
<1>8. Unresolved'
  BY <1>1, <1>5 DEF InCycle, Stage2, Unresolved, Closed
<1>9. OnCycle(root)' /\ VisitedReach(root)' /\ root' \in visited'
  BY <1>1, <1>5 DEF InCycle, OnCycle, VisitedReach, Closed
<1>10. Found({d \in todo : pred[d] # root})' /\ Elsewhere(Srcs \ {root})'
  BY <1>1, <1>4, <1>5 DEF Found, Elsewhere
<1>11. InPlace(todo \ (Temps \cup {to}))'
  BY <1>1, <1>4, <1>5 DEF InPlace
<1>12. loc'[root'] = TmpFor(types[root])' /\ store'[Saved'].val = root'
  <2>1. TmpFor(types[root])' = TmpFor(types[root])
    BY <1>1, <1>5 DEF TmpFor
  <2>2. loc'[root] = TmpFor(types[root])
    BY <1>1, <1>4, <1>6 DEF InCycle
  <2>3. Saved' = IF spilled' THEN SPILL ELSE TmpFor(types[root])
    BY <2>1 DEF Saved
  <2> QED BY Zenon, <1>1, <1>3, <2>1, <2>2, <2>3
<1>13. Resolving(W)'
  <2>1. InPlace((W \cap todo) \ {to})'
    <3> SUFFICES ASSUME NEW e \in W \cap todo', e # pred[to] PROVE e \in Srcs /\ loc'[e] = e
      BY <1>1, <1>5 DEF InPlace
    <3>1. e \notin Temps
      BY <1>1, <1>6, ArgsFacts
    <3> QED BY <1>4, <3>1
  <2>2. \A p \in W \ todo' : pred[p] \in ((W \ todo') \cup {to'}) \ {root'}
    <3> SUFFICES ASSUME NEW p \in W, p \notin todo \ {to}
                 PROVE  pred[p] \in ((W \ todo') \cup {pred[to]}) \ {root}
      BY <1>1
    <3>1. p # to => pred[p] \in ((W \ todo) \cup {to}) \ {root}
      BY <1>2 DEF Resolving
    <3> QED BY <1>1, <1>6, <3>1
  <2>3. to' # root' /\ root' \notin todo' /\ loc'[to'] # to'
    BY <1>1, <1>2, <1>4, <1>6 DEF Resolving
  <2>4. \A C \in SUBSET Dests : Closed(C) /\ C \cap (W \ todo') # {} => to' \in C
    <3> SUFFICES ASSUME NEW C \in SUBSET Dests, Closed(C), NEW c \in C, c \in W, c \notin todo \ {to}
                 PROVE  pred[to] \in C
      BY <1>1
    <3>1. to \in C
      BY <1>2 DEF Resolving
    <3> QED BY <3>1 DEF Closed
  <2>5. Fresh(todo \cup W)'
    BY <1>1, <1>2, <1>5, <1>6 DEF Resolving, Fresh, Closed
  <2>6. \A w \in W : types'[w].class = types'[root'].class
    BY <1>1, <1>2, <1>5 DEF Resolving
  <2>7. W \subseteq ready' /\ Closed(W)' /\ root' \in W /\ to' \in W \cap todo'
    BY <1>1, <1>5, <1>6 DEF Closed
  <2>8. \A C : Closed(C)' = Closed(C)
    BY Zenon, <1>5 DEF Closed
  <2> QED BY <1>5, <2>1, <2>2, <2>3, <2>4, <2>5, <2>6, <2>7, <2>8 DEF Resolving
<1>14. InCycle'
  <2>1. W \in SUBSET Dests'
    BY <1>5
  <2> QED BY <1>3, <1>4, <1>5, <1>8, <1>9, <1>10, <1>11, <1>12, <1>13, <2>1 DEF InCycle, Stage2
<1> QED BY <1>1, <1>5, <1>7, <1>14 DEF IInv

(* What the last move of a cycle does: the saved value is restored *)
LEMMA CloseStores ==
  ASSUME Args, Types, InCycle, NEW W \in SUBSET Dests, Resolving(W), Close
  PROVE  /\ store' \in [Place \cup {SPILL} -> Word]
         /\ store'[to].val = pred[to]
         /\ \A p \in Place \ ({to} \cup Temps) : store'[p] = store[p]
<1> DEFINE type == types[to]
           t == TmpFor(type)
           u == Narrow(store[SPILL], type.width)
           restored == IF spilled THEN [store EXCEPT ![t] = u] ELSE store
           M == Place \cup {SPILL}
<1>1. pred[to] = root /\ store' = [restored EXCEPT ![to] = Narrow(restored[loc[root]], type.width)]
  BY DEF Close
<1>2. to \in Dests /\ to \notin Temps /\ to \in Place
  <2>1. to \in W /\ to \in Srcs
    BY DEF Resolving, InCycle, Stage2
  <2> QED BY <2>1, ArgsFacts
<1>3. t \in Temps /\ t \in Place /\ t = TmpFor(types[root])
  <2>1. types[to].class = types[root].class
    BY DEF Resolving
  <2> QED BY <1>2, <2>1, ArgsFacts, PlaceFacts DEF TmpFor
<1>4. store \in [M -> Word] /\ type.width \in Width
  BY <1>2, ArgsFacts DEF Types, Type
<1>5. u \in Word /\ u.val = store[SPILL].val
  BY <1>4, NarrowKeeps DEF Word
<1>6. /\ spilled \in BOOLEAN /\ (spilled => store[SPILL].val = root)
      /\ (~spilled => store[t].val = root) /\ loc[root] = t
  BY <1>3 DEF InCycle, Saved
<1> HIDE DEF u, t
<1>7. /\ restored \in [M -> Word] /\ restored[t].val = root
      /\ \A p \in Place : p # t => restored[p] = store[p]
  BY <1>3, <1>4, <1>5, <1>6
<1> HIDE DEF restored
<1> DEFINE v == Narrow(restored[t], type.width)
<1>8. v \in Word /\ v.val = root
  <2>1. restored[t] \in Word
    BY <1>3, <1>7
  <2> QED BY <1>4, <1>7, <2>1, NarrowKeeps DEF Word
<1>9. store' = [restored EXCEPT ![to] = v]
  BY <1>1, <1>6
<1> HIDE DEF v
<1>10. /\ store' \in [M -> Word] /\ store'[to] = v
       /\ \A p \in Place : p # to => store'[p] = restored[p]
  BY <1>2, <1>7, <1>8, <1>9
<1> QED BY <1>1, <1>3, <1>7, <1>8, <1>10

LEMMA CloseInv ==
  ASSUME IInv, Close
  PROVE  IInv'
<1>1. /\ Args /\ Types /\ InCycle /\ pred[to] = root /\ pc' = "seek"
      /\ Moved(to) /\ todo' = todo \ {to} /\ ready' = ready \ visited /\ UNCHANGED args
  BY DEF Close, IInv
<1>2. PICK W \in SUBSET Dests : Resolving(W)
  BY <1>1 DEF InCycle
<1>3. /\ store' \in [Place \cup {SPILL} -> Word]
      /\ store'[to].val = pred[to]
      /\ \A p \in Place \ ({to} \cup Temps) : store'[p] = store[p]
  BY <1>1, <1>2, CloseStores
<1>4. to # root /\ root \notin todo
  <2>1. to \in Dests
    BY <1>2 DEF Resolving
  <2>2. to # root
    BY <1>1, <2>1, ArgsFacts
  <2> QED BY <1>2, <2>2 DEF Resolving
<1>5. /\ Kept' /\ Read' /\ TempsLast' /\ NoConstBehind' /\ ready' \subseteq Srcs
      /\ \A d \in todo' : pred[d] \in Srcs /\ (pred[d] # root \/ pred[to] = root)
                          => store'[loc'[pred[d]]].val = pred[d]
      /\ \A s \in Srcs : (s # root \/ pred[to] = root) /\ loc'[s] # s
                          => loc'[s] \in Dests \ todo'
      /\ \A e \in todo' \ Temps : e # pred[to] => e \in Srcs /\ loc'[e] = e
      /\ loc' \in [Srcs -> Place]
  <2>1. ready' \subseteq ready
    BY <1>1
  <2> QED BY <1>1, <1>2, <1>3, <1>4, <2>1, CycleStep
<1>6. Args' /\ Dests' = Dests /\ Srcs' = Srcs /\ pred' = pred /\ Temps' = Temps
  BY <1>1, ArgsStay
<1>7. Types'
  BY <1>1, <1>3, <1>5, <1>6 DEF Types
<1>8. Found(todo)' /\ Elsewhere(Srcs)' /\ InPlace(todo \ Temps)'
  BY <1>1, <1>4, <1>5, <1>6 DEF Found, Elsewhere, InPlace
<1>9. \A C : Closed(C)' = Closed(C)
  BY Zenon, <1>6 DEF Closed
<1>10. Unresolved'
  <2> SUFFICES ASSUME NEW C \in SUBSET (todo' \cap Srcs), Closed(C) PROVE C \subseteq ready'
    BY Zenon, <1>6, <1>9 DEF Unresolved
  <2>1. C \in SUBSET (todo \cap Srcs) /\ C \in SUBSET Dests /\ root \notin C
    BY <1>1, <1>4 DEF Types
  <2>2. C \subseteq ready
    BY <1>1, <2>1 DEF InCycle, Stage2, Unresolved
  <2>3. C \cap visited = {}
    BY <1>1, <2>1 DEF InCycle, VisitedReach
  <2> QED BY <1>1, <2>2, <2>3
<1>11. Fresh(todo)'
  <2> SUFFICES ASSUME NEW C \in SUBSET ready', Closed(C) PROVE C \subseteq todo'
    BY Zenon, <1>9 DEF Fresh
  <2>1. C \in SUBSET ready /\ C \in SUBSET Dests /\ root \notin C
    BY <1>1 DEF Types, InCycle
  <2>2. C \subseteq todo \cup W
    BY <1>2, <2>1 DEF Resolving, Fresh
  <2>3. to \notin C
    BY <1>1, <2>1 DEF Closed
  <2>4. C \cap (W \ todo) = {}
    BY <1>2, <2>1, <2>3 DEF Resolving
  <2> QED BY <1>1, <2>2, <2>3, <2>4
<1>12. InSeek'
  BY <1>5, <1>6, <1>8, <1>10, <1>11 DEF InSeek, Stage2
<1> QED BY <1>1, <1>6, <1>7, <1>12 DEF IInv

-----------------------------------------------------------------------------
(* When no cycle is left, what remains waits for a temporary *)
LEMMA CyclesDoneInv ==
  ASSUME IInv, CyclesDone
  PROVE  IInv'
<1>1. /\ Args /\ Types /\ InSeek /\ ready = {} /\ pc' = "last"
      /\ ready' = todo \ Srcs
      /\ UNCHANGED <<args, store, todo, loc>>
  BY DEF CyclesDone, IInv
<1>2. /\ Args' /\ Dests' = Dests /\ Srcs' = Srcs /\ pred' = pred
      /\ todo' = todo /\ loc' = loc /\ store' = store
  BY <1>1, ArgsStay
<1>3. Types'
  BY <1>1, <1>2 DEF Types
<1>4. Kept' /\ Read' /\ Found(todo)' /\ Elsewhere(Srcs)'
  BY <1>1, <1>2 DEF InSeek, Stage2, Kept, Read, Found, Elsewhere
<1>5. ready' \subseteq todo' /\ Vacated(ready)' /\ InPlace(todo \ ready)'
  BY <1>1, <1>2, ArgsFacts DEF InSeek, Vacated, InPlace
<1>6. NoLateNeed' => todo' \cap MEM = {}
  <2> SUFFICES ASSUME NoLateNeed PROVE todo' \cap MEM = {}
    BY <1>1, ConditionsStay
  <2>1. PICK S \in SUBSET Dests : BehindTemps(S) /\ S \cap MEM = {}
    BY DEF NoLateNeed
  <2> DEFINE B == todo \ (S \cup Temps)
  <2>2. Closed(B) /\ B \in SUBSET (todo \cap Srcs)
    BY <1>1, <2>1, RestIsClosed DEF InSeek, Stage2
  <2>3. B = {}
    <3> HIDE DEF B
    <3> QED BY <1>1, <2>2 DEF InSeek, Stage2, Unresolved
  <2> QED BY <1>1, <1>2, <2>1, <2>3, ArgsFacts, PlaceFacts
<1>7. \A C \in SUBSET (todo' \cap Srcs') : Closed(C)' => C = {}
  BY <1>1, <1>2 DEF InSeek, Stage2, Unresolved, Closed
<1>8. InLast'
  BY <1>4, <1>5, <1>6, <1>7 DEF InLast
<1> QED BY <1>1, <1>2, <1>3, <1>8 DEF IInv

(* A move clobbers no more than the temporary of its class. *)
LEMMA EmitMoveSpares ==
  ASSUME Args, Types, NEW d \in Dests, NEW r \in Place \cup CONST, EmitMove(d, r, types[d]),
         NEW p \in Place, p # d, NeedsTmp(d, r) => p # TmpFor(types[d])
  PROVE  store'[p] = store[p]
<1> DEFINE v == Narrow(Content(r), types[d].width)
           t == TmpFor(types[d])
<1>1. store' = IF NeedsTmp(d, r) THEN [store EXCEPT ![d] = v, ![t] = v] ELSE [store EXCEPT ![d] = v]
  BY DEF EmitMove
<1> HIDE DEF v, t
<1> QED BY <1>1 DEF Types, t

LEMMA LastTreeInv ==
  ASSUME IInv, LastTree
  PROVE  IInv'
<1> DEFINE d == First(ready)
<1>1. /\ pc = "last" /\ Args /\ Types /\ InLast /\ ready # {}
      /\ EmitMove(d, Source(d), types[d]) /\ Moved(d)
      /\ todo' = todo \ {d} /\ ready' = (ready \ {d}) \cup Released(d, {})
      /\ pc' = IF NeedsTmp(d, Source(d)) /\ Taken(types[d]) THEN "no_temporary" ELSE pc
      /\ UNCHANGED args
  BY DEF LastTree, IInv
<1>2. d \in ready
  BY <1>1, FirstIn, ArgsFacts, PlaceFacts DEF Types
<1> HIDE DEF d
<1>3. d \in Dests /\ ready \subseteq todo
  BY <1>1, <1>2 DEF InLast, Types
<1>5. /\ Args' /\ Dests' = Dests /\ Srcs' = Srcs /\ pred' = pred
      /\ Srcs \subseteq Place /\ Dests \subseteq Place /\ Source(d) \in Place \cup CONST
  BY <1>1, <1>3, ArgsStay, ArgsFacts, SourceFacts
<1>0. CASE NeedsTmp(d, Source(d)) /\ Taken(types[d])
  <2>1. pc' = "no_temporary"
    BY <1>0, <1>1
  <2>2. d \in MEM /\ d \in todo
    BY <1>0, <1>2, <1>3 DEF NeedsTmp
  <2>3. ~NoLateNeed'
    BY <1>1, <2>2, ConditionsStay DEF InLast
  <2>4. store' \in [Place \cup {SPILL} -> Word]
    BY <1>1, <1>3, <1>5, EmitMoveDoes
  <2>5. loc' \in [Srcs -> Place]
    BY <1>1, <1>3, MovedDoes
  <2>6. Types'
    BY <1>1, <1>5, <2>1, <2>4, <2>5 DEF Types, Released
  <2> QED BY <1>5, <2>1, <2>3, <2>6 DEF IInv
<1> SUFFICES ASSUME NeedsTmp(d, Source(d)) => ~Taken(types[d]) PROVE IInv'
  BY <1>0
<1>4. pc' = "last"
  BY <1>1
<1>6. \A p \in (Dests \ todo) \cup Srcs : p # d => store'[p] = store[p]
  <2> SUFFICES ASSUME NEW p \in (Dests \ todo) \cup Srcs, p # d PROVE store'[p] = store[p]
    OBVIOUS
  <2>1. NeedsTmp(d, Source(d)) => p # TmpFor(types[d])
    BY <1>1, <1>3, ArgsFacts DEF Taken
  <2> QED BY <1>1, <1>3, <1>5, <2>1, EmitMoveSpares
<1>7. /\ Kept /\ Found(todo) /\ Elsewhere(Srcs) /\ Read /\ Vacated(ready)
      /\ InPlace(todo \ (ready \cup {}))
  BY <1>1 DEF InLast, InPlace
<1>8. /\ Kept' /\ Found(todo)' /\ Elsewhere(Srcs)' /\ Read' /\ Vacated(ready)'
      /\ \A e \in todo' \ (ready' \cup {}) : e \in Srcs /\ loc'[e] = e
      /\ ready' \subseteq todo'
      /\ loc' \in [Srcs -> Place] /\ store' \in [Place \cup {SPILL} -> Word]
      /\ todo' \subseteq Dests /\ ready' \subseteq Dests
  BY <1>1, <1>2, <1>3, <1>6, <1>7, TreeStep
<1>9. InPlace(todo \ ready)'
  BY <1>5, <1>8 DEF InPlace
<1>10. \A C \in SUBSET (todo' \cap Srcs') : Closed(C)' => C = {}
  BY <1>1, <1>5 DEF InLast, Closed
<1>13. NoLateNeed' => todo' \cap MEM = {}
  <2>1. NoLateNeed' = NoLateNeed
    BY <1>1, ConditionsStay
  <2> QED BY <1>1, <2>1 DEF InLast
<1>11. InLast'
  BY <1>8, <1>9, <1>10, <1>13 DEF InLast
<1>12. Types'
  BY <1>4, <1>5, <1>8 DEF Types
<1> QED BY <1>4, <1>5, <1>11, <1>12 DEF IInv

(* The last stage ends with nothing to do: what it left would be closed *)
LEMMA LastDoneInv ==
  ASSUME IInv, LastDone
  PROVE  IInv'
<1>1. /\ Args /\ Types /\ InLast /\ ready = {} /\ pc' = "done"
      /\ UNCHANGED <<args, store, todo, ready, loc>>
  BY DEF LastDone, IInv
<1>2. todo \subseteq Dests /\ todo \subseteq Srcs /\ InPlace(todo)
  BY <1>1 DEF InLast, InPlace, Types
<1>3. ASSUME NEW t \in todo PROVE \E e \in todo : pred[e] = t
  <2>1. PICK e \in Dests : pred[e] = t
    BY <1>2 DEF Srcs
  <2>2. e \in todo
    BY <1>1, <1>2, <2>1 DEF InLast, Read, InPlace
  <2> QED BY <2>1, <2>2
<1>4. IsFiniteSet(todo)
  BY <1>1, <1>2, ArgsFacts, FS_Subset
<1>5. Closed(todo)
  BY <1>3, <1>4, OntoIsClosed DEF Closed
<1>6. todo = {}
  BY <1>1, <1>2, <1>5 DEF InLast
<1>7. Args' /\ Dests' = Dests /\ Srcs' = Srcs /\ pred' = pred
  BY <1>1, ArgsStay
<1>8. Types'
  BY <1>1, <1>7 DEF Types
<1>9. todo' = {} /\ Kept'
  BY <1>1, <1>6, <1>7 DEF InLast, Kept
<1> QED BY <1>1, <1>7, <1>8, <1>9 DEF IInv

LEMMA StutterIInv ==
  ASSUME IInv, UNCHANGED vars
  PROVE  IInv'
<1>1. UNCHANGED <<args, store, todo, ready, loc, visited, to, root, spilled, pc>>
  BY DEF vars, args
<1>2. /\ pred' = pred /\ types' = types /\ tmp_reg' = tmp_reg /\ tmp_fp_reg' = tmp_fp_reg
      /\ Args' /\ Dests' = Dests /\ Srcs' = Srcs /\ Temps' = Temps
      /\ NoLateNeed' = NoLateNeed /\ NoLateConst' = NoLateConst
  BY <1>1, ArgsStay, ConditionsStay DEF IInv
<1>3. \A C : Closed(C)' = Closed(C)
  BY Zenon, <1>2 DEF Closed
<1>4. Types'
  BY <1>1, <1>2 DEF IInv, Types
<1>5. Kept' = Kept /\ Read' = Read /\ TempsLast' = TempsLast /\ Elsewhere(Srcs)' = Elsewhere(Srcs)
  BY <1>1, <1>2 DEF Kept, Read, TempsLast, Elsewhere
<1>6. Found(todo)' = Found(todo)
  BY <1>1, <1>2 DEF Found
<1>7. InStart' = InStart /\ InTrees' = InTrees
  BY <1>1, <1>2, <1>5, <1>6 DEF InStart, InTrees, InPlace, Vacated
<1>8. Unresolved' = Unresolved /\ NoConstBehind' = NoConstBehind /\ Fresh(todo)' = Fresh(todo)
  BY Zenon, <1>1, <1>2, <1>3 DEF Unresolved, NoConstBehind, Fresh
<1>9. Stage2' = Stage2
  BY <1>1, <1>2, <1>5, <1>8 DEF Stage2
<1>10. InSeek' = InSeek
  BY <1>1, <1>2, <1>5, <1>6, <1>8, <1>9 DEF InSeek, InPlace
<1>11. InWalk' = InWalk /\ InBreak' = InBreak
  BY Zenon, <1>1, <1>2, <1>3 DEF InWalk, InBreak, Leads, Beyond, OnCycle, VisitedReach
<1>12. InLast' = InLast
  BY Zenon, <1>1, <1>2, <1>3, <1>5, <1>6 DEF InLast, Vacated, InPlace
<1>13. InCycle' = InCycle
  <2>1. \A W : Resolving(W)' = Resolving(W)
    BY Zenon, <1>1, <1>2, <1>3 DEF Resolving, InPlace, Fresh
  <2>2. OnCycle(root)' = OnCycle(root) /\ VisitedReach(root)' = VisitedReach(root)
    BY Zenon, <1>1, <1>2, <1>3 DEF OnCycle, VisitedReach
  <2>3. TmpFor(types[root])' = TmpFor(types[root]) /\ Saved' = Saved
    BY <1>1, <1>2 DEF TmpFor, Saved
  <2>4. Found({d \in todo : pred[d] # root})' = Found({d \in todo : pred[d] # root})
    BY <1>1, <1>2 DEF Found
  <2>5. /\ Elsewhere(Srcs \ {root})' = Elsewhere(Srcs \ {root})
        /\ InPlace(todo \ (Temps \cup {to}))' = InPlace(todo \ (Temps \cup {to}))
    BY <1>1, <1>2 DEF Elsewhere, InPlace
  <2> QED BY <1>1, <1>2, <1>9, <2>1, <2>2, <2>3, <2>4, <2>5 DEF InCycle
<1> QED BY <1>1, <1>2, <1>4, <1>5, <1>7, <1>10, <1>11, <1>12, <1>13 DEF IInv

LEMMA NextIInv ==
  ASSUME IInv, [Next]_vars
  PROVE  IInv'
<1>1. CASE Single      BY <1>1, SingleInv
<1>2. CASE Start       BY <1>2, StartInv
<1>3. CASE Tree        BY <1>3, TreeInv
<1>4. CASE TreesDone   BY <1>4, TreesDoneInv
<1>5. CASE Seek        BY <1>5, SeekInv
<1>6. CASE Walk        BY <1>6, WalkInv
<1>7. CASE WalkOut     BY <1>7, WalkOutInv
<1>8. CASE Exchange    BY <1>8, ExchangeInv
<1>9. CASE Save        BY <1>9, SaveInv
<1>10. CASE Follow     BY <1>10, FollowInv
<1>11. CASE Close      BY <1>11, CloseInv
<1>12. CASE CyclesDone BY <1>12, CyclesDoneInv
<1>13. CASE LastTree   BY <1>13, LastTreeInv
<1>14. CASE LastDone   BY <1>14, LastDoneInv
<1>15. CASE Done \/ UNCHANGED vars
  BY <1>15, StutterIInv DEF Done
<1> QED BY <1>1, <1>2, <1>3, <1>4, <1>5, <1>6, <1>7, <1>8, <1>9, <1>10, <1>11, <1>12,
          <1>13, <1>14, <1>15 DEF Next

LEMMA AlwaysIInv == Spec /\ OneClassCycles => []IInv
<1> QED BY InitIInv, NextIInv, PTL DEF Spec, OneClassInit

-----------------------------------------------------------------------------
(* Whatever the registers, the slots and the copies, as long as no cycle   *)
(* of the copies mixes integers with floating point values: when the moves *)
(* of ir_dessa_parallel_copy have been made, each PHI holds the value its  *)
(* operand had before them.                                                *)
THEOREM PhisGetTheirValues == Spec /\ OneClassCycles => []RightValue
<1>1. IInv => RightValue
  BY DEF IInv, Kept, RightValue
<1> QED BY <1>1, AlwaysIInv, PTL

(* Under the same condition no stage of ir_dessa_parallel_copy overwrites  *)
(* a value that is needed later, and a cycle is resolved only while all of *)
(* its places hold their own values.  An assertion can fail only if a      *)
(* chain of copies behind a put-off temporary has a spill slot in it       *)
(* (ir_emit.c:660) or goes back over two copies to a constant              *)
(* (ir_emit.c:849).                                                        *)
THEOREM NoPhiOperandLost == Spec /\ OneClassCycles => []NothingLost
<1>1. ASSUME IInv PROVE NothingLost
  <2>1. Args /\ Types
    BY <1>1 DEF IInv
  <2>2. (~TemporaryLeft => ~NoLateNeed) /\ (~NoConstantInCycle => ~NoLateConst)
    BY <1>1 DEF IInv, TemporaryLeft, NoConstantInCycle
  <2>3. ASSUME pc \in {"trees", "seek", "walk", "break", "last"}, NEW d \in Dests
        PROVE  IF d \in todo THEN Content(Source(d)).val = pred[d] ELSE store[d].val = pred[d]
    <3>1. Kept /\ Found(todo)
      BY <1>1, <2>3 DEF IInv, InTrees, InSeek, Stage2, InLast
    <3>2. CASE pred[d] \in CONST
      BY <2>1, <3>1, <3>2, SourceFacts, ContentFacts DEF Kept
    <3>3. CASE pred[d] \in Srcs
      BY <2>1, <3>1, <3>3, SourceFacts, ContentFacts DEF Kept, Found
    <3> QED BY <2>1, <3>2, <3>3, ArgsFacts
  <2>4. ASSUME pc = "break"
        PROVE  /\ to \in todo /\ pred[to] \in todo
               /\ loc[pred[to]] = pred[to] /\ loc[to] = to
    <3>1. InSeek /\ InBreak
      BY <1>1, <2>4 DEF IInv
    <3>2. PICK W \in SUBSET (ready \cap todo) : Closed(W) /\ to \in W
      BY <3>1 DEF InBreak
    <3>3. \A w \in W : w \in todo \ Temps
      BY <2>1, <3>1, <3>2, ArgsFacts DEF InSeek, Stage2
    <3> QED BY <3>1, <3>2, <3>3 DEF InSeek, InPlace, Closed
  <2> QED BY <2>2, <2>3, <2>4 DEF NothingLost
<1> QED BY <1>1, AlwaysIInv, PTL

=============================================================================
