------------------------- MODULE ParallelCopyProofs -------------------------
(***************************************************************************)
(* ir_parallel_copy copies the right values for any register file and any  *)
(* set of copies.                                                          *)
(*                                                                         *)
(* RightValue speaks of the end only.  IInv says why it comes about.       *)
(* During the first phase a register is ready when its old value has been  *)
(* moved elsewhere or is not wanted, and a register that is neither ready  *)
(* nor written still holds its own value and has not been read.  So when   *)
(* nothing is ready every register that is left has a reader that is left: *)
(* `pred' maps the finite set todo onto itself and is therefore one to     *)
(* one, i.e. what is left are cycles.  In the second phase the one         *)
(* register whose value has been lost is the head of the current cycle,    *)
(* and a copy of it is in the temporary.                                   *)
(***************************************************************************)
EXTENDS ParallelCopy, FiniteSetTheorems, WellFoundedInduction, TLAPS

(* The arguments satisfy what the caller guarantees *)
Args ==
    /\ pred \in [Dests -> Reg] /\ Dests \subseteq Reg
    /\ \A d \in Dests : pred[d] # d /\ SameClass(pred[d], d)
    /\ types \in [Srcs -> Width]
    /\ tmp_reg \in GP \ Dests
    /\ tmp_fp_reg \in FP \ Dests

Written == \A d \in Dests \ Pending : regs[d].val = pred[d]
Intact(T) == \A t \in T : t \in Srcs /\ loc[t] = t /\ regs[t].val = t
OneReader(T) == \A d, e \in T : pred[d] = pred[e] => d = e

InStart == /\ todo = {} /\ ready = {}
           /\ \A s \in Srcs : loc[s] = s
           /\ \A r \in Reg : regs[r].val = r

InBlades ==
    /\ \A d \in todo : regs[loc[pred[d]]].val = pred[d]
    /\ \A d \in ready : d \in Srcs => loc[d] # d
    /\ \A d \in todo \ ready : d \in Srcs /\ loc[d] = d
    /\ \A s \in Srcs : loc[s] # s => loc[s] \in Dests \ todo
    /\ \A d \in Dests \ todo : loc[pred[d]] # pred[d]

InAxles ==
    /\ ready = {}
    /\ Intact(todo)
    /\ \A d \in todo : pred[d] \in todo
    /\ OneReader(todo)

InChain ==
    /\ ready = {}
    /\ to \in Dests
    /\ Intact(todo \ {to})
    /\ OneReader(todo \cup {to})
    /\ \E b \in Srcs : /\ b \in Dests /\ b \notin todo
                       /\ loc[b] \in Reg \ Dests
                       /\ regs[loc[b]].val = b
                       /\ \A d \in todo \cup {to} : pred[d] \in (todo \ {to}) \cup {b}

IInv ==
    /\ TypeOK
    /\ Args
    /\ pc = "start" => InStart
    /\ pc = "blades" => InBlades /\ Written
    /\ pc = "axles" => InAxles /\ Written
    /\ pc = "chain" => InChain /\ Written
    /\ RightValue

-----------------------------------------------------------------------------
(* ir_regset_pop_first returns a member of the set *)
LEMMA FirstIn ==
  ASSUME NEW S \in SUBSET Nat, S # {}
  PROVE  First(S) \in S
<1>1. PICK x \in S : \A y \in S : <<y, x>> \notin OpToRel(<, Nat)
  BY Zenon, WFMin, NatLessThanWellFounded
<1>2. ASSUME NEW y \in S PROVE x <= y
  <2>1. ~(y < x)
    BY Zenon, <1>1, <1>2 DEF OpToRel
  <2> QED BY <1>2, <2>1
<1> QED BY Zenon, <1>2 DEF First

(* A map of a finite set that reaches all of the set stays in it and is    *)
(* one to one.                                                             *)
LEMMA OntoIsOneToOne ==
  ASSUME NEW T, IsFiniteSet(T), NEW f,
         \A t \in T : \E d \in T : f[d] = t
  PROVE  /\ \A d \in T : f[d] \in T
         /\ \A d, e \in T : f[d] = f[e] => d = e
<1> DEFINE g == [d \in T |-> f[d]]
           I == {f[d] : d \in T}
<1>1. g \in Surjection(T, I)
  BY DEF Surjection
<1>2. IsFiniteSet(I) /\ Cardinality(I) <= Cardinality(T)
      /\ (Cardinality(I) = Cardinality(T) <=> g \in Injection(T, I))
  BY <1>1, FS_Surjection
<1>3. T \in SUBSET I
  OBVIOUS
<1>4. Cardinality(T) <= Cardinality(I) /\ (Cardinality(I) = Cardinality(T) => I = T)
  BY <1>2, <1>3, FS_Subset
<1>5. Cardinality(I) \in Nat /\ Cardinality(T) \in Nat
  BY <1>2, FS_CardinalityType
<1>6. Cardinality(I) = Cardinality(T)
  <2> HIDE DEF I
  <2> QED BY <1>2, <1>4, <1>5
<1>7. I = T /\ g \in Injection(T, I)
  BY <1>2, <1>4, <1>6
<1> QED BY Zenon, <1>7 DEF Injection, IsInjective

(* A move keeps the identity of the value *)
LEMMA NarrowKeeps ==
  ASSUME NEW v \in [val : Reg, bits : 1 .. 2], NEW w \in Width
  PROVE  Narrow(v, w) \in [val : Reg, bits : 1 .. 2] /\ Narrow(v, w).val = v.val
<1>1. w \in 1 .. 2
  BY WidthAssumption
<1> QED BY <1>1 DEF Narrow

LEMMA ArgsFacts ==
  ASSUME Args
  PROVE  /\ Reg \subseteq Nat /\ IsFiniteSet(Reg)
         /\ \A d \in Dests : /\ d \in Reg /\ pred[d] \in Reg /\ pred[d] \in Srcs
                             /\ pred[d] # d /\ types[pred[d]] \in Width
<1>1. Reg \subseteq Nat /\ IsFiniteSet(Reg)
  BY Zenon, RegAssumption, FS_Union DEF Reg
<1>2. \A d \in Dests : pred[d] \in Srcs
  BY DEF Srcs
<1> QED BY <1>1, <1>2 DEF Args

(* No step changes the request *)
LEMMA ArgsStay ==
  ASSUME Args, UNCHANGED args
  PROVE  Args' /\ Dests' = Dests /\ Srcs' = Srcs /\ pred' = pred
<1>1. /\ pred' = pred /\ types' = types
      /\ tmp_reg' = tmp_reg /\ tmp_fp_reg' = tmp_fp_reg
  BY DEF args
<1>2. Dests' = Dests
  BY <1>1 DEF Dests
<1>3. Srcs' = Srcs
  BY <1>1, <1>2 DEF Srcs
<1> QED BY <1>1, <1>2, <1>3 DEF Args

(* What one emitted move does *)
LEMMA MoveToDoes ==
  ASSUME TypeOK, Args, NEW d \in Dests, MoveTo(d)
  PROVE  /\ regs' \in [Reg -> [val : Reg, bits : 1 .. 2]]
         /\ loc' \in [Srcs -> Reg]
         /\ regs'[d].val = regs[loc[pred[d]]].val
         /\ \A r \in Reg \ {d} : regs'[r] = regs[r]
         /\ loc'[pred[d]] = d
         /\ \A s \in Srcs \ {pred[d]} : loc'[s] = loc[s]
<1>1. /\ d \in Reg /\ pred[d] \in Srcs /\ types[pred[d]] \in Width
  BY ArgsFacts
<1>2. loc[pred[d]] \in Reg /\ loc \in [Srcs -> Reg]
  BY <1>1 DEF TypeOK
<1>3. regs \in [Reg -> [val : Reg, bits : 1 .. 2]]
  BY DEF TypeOK
<1>4. regs[loc[pred[d]]] \in [val : Reg, bits : 1 .. 2]
  BY <1>2, <1>3
<1> DEFINE v == Narrow(regs[loc[pred[d]]], types[pred[d]])
<1>5. v \in [val : Reg, bits : 1 .. 2] /\ v.val = regs[loc[pred[d]]].val
  BY <1>1, <1>4, NarrowKeeps
<1>6. regs' = [regs EXCEPT ![d] = v] /\ loc' = [loc EXCEPT ![pred[d]] = d]
  BY DEF MoveTo
<1> HIDE DEF v
<1>7. regs' \in [Reg -> [val : Reg, bits : 1 .. 2]]
  BY Zenon, <1>3, <1>5, <1>6
<1>8. loc' \in [Srcs -> Reg]
  BY <1>1, <1>2, <1>6
<1>9. regs'[d] = v /\ \A r \in Reg \ {d} : regs'[r] = regs[r]
  BY <1>1, <1>3, <1>6
<1>10. loc'[pred[d]] = d /\ \A s \in Srcs \ {pred[d]} : loc'[s] = loc[s]
  BY <1>1, <1>2, <1>6
<1> QED BY <1>5, <1>7, <1>8, <1>9, <1>10

-----------------------------------------------------------------------------
LEMMA InitIInv == Init => IInv
<1> SUFFICES ASSUME Init PROVE IInv
  OBVIOUS
<1>1. Args
  <2>1. PICK D \in SUBSET Reg : pred \in [D -> Reg]
    BY DEF Init
  <2>2. Dests = D
    BY <2>1 DEF Dests
  <2> QED BY <2>1, <2>2 DEF Init, Args
<1>2. Srcs \subseteq Reg
  BY <1>1, ArgsFacts DEF Srcs
<1>3. TypeOK
  BY <1>1, <1>2 DEF Init, TypeOK, Args
<1>4. InStart /\ pc = "start"
  BY <1>2 DEF Init, InStart
<1> QED BY <1>1, <1>3, <1>4 DEF IInv, RightValue

LEMMA IndependentIInv == IInv /\ Independent => IInv'
<1> SUFFICES ASSUME IInv, Independent PROVE IInv'
  OBVIOUS
<1>1. TypeOK /\ Args /\ InStart
  BY DEF IInv, Independent
<1>2. Args' /\ Dests' = Dests /\ Srcs' = Srcs /\ pred' = pred
  BY <1>1, ArgsStay DEF Independent
<1> DEFINE N(r) == Narrow(regs[pred[r]], types[pred[r]])
<1>3. ASSUME NEW r \in Dests
      PROVE  N(r) \in [val : Reg, bits : 1 .. 2] /\ N(r).val = pred[r]
  <2>1. pred[r] \in Reg /\ types[pred[r]] \in Width
    BY <1>1, ArgsFacts
  <2>2. regs[pred[r]] \in [val : Reg, bits : 1 .. 2] /\ regs[pred[r]].val = pred[r]
    BY <1>1, <2>1 DEF TypeOK, InStart
  <2> QED BY <2>1, <2>2, NarrowKeeps
<1>4. regs' = [r \in Reg |-> IF r \in Dests THEN N(r) ELSE regs[r]]
  BY DEF Independent
<1> HIDE DEF N
<1>5. regs' \in [Reg -> [val : Reg, bits : 1 .. 2]]
  BY <1>1, <1>3, <1>4 DEF TypeOK
<1>6. \A d \in Dests : regs'[d].val = pred[d]
  BY <1>1, <1>3, <1>4, ArgsFacts
<1>7. pc' = "done" /\ UNCHANGED <<todo, ready, loc, to>>
  BY DEF Independent
<1>8. TypeOK'
  BY <1>1, <1>2, <1>5, <1>7 DEF TypeOK
<1> QED BY <1>2, <1>6, <1>7, <1>8 DEF IInv, RightValue

LEMMA StartIInv == IInv /\ Start => IInv'
<1> SUFFICES ASSUME IInv, Start PROVE IInv'
  OBVIOUS
<1>1. TypeOK /\ Args /\ InStart
  BY DEF IInv, Start
<1>2. Args' /\ Dests' = Dests /\ Srcs' = Srcs /\ pred' = pred
  BY <1>1, ArgsStay DEF Start
<1>3. /\ todo' = Dests /\ ready' = Dests \ Srcs /\ pc' = "blades"
      /\ regs' = regs /\ loc' = loc /\ to' = to
  BY DEF Start
<1>4. TypeOK'
  BY <1>1, <1>2, <1>3 DEF TypeOK
<1>5. InBlades'
  <2>1. \A d \in Dests : regs[loc[pred[d]]].val = pred[d]
    BY <1>1, ArgsFacts DEF InStart
  <2> QED BY <1>1, <1>2, <1>3, <2>1 DEF InBlades, InStart
<1>6. Written'
  BY <1>2, <1>3 DEF Written, Pending
<1> QED BY <1>2, <1>3, <1>4, <1>5, <1>6 DEF IInv, RightValue

LEMMA BladeIInv == IInv /\ Blade => IInv'
<1> SUFFICES ASSUME IInv, Blade PROVE IInv'
  OBVIOUS
<1> DEFINE d == First(ready)
           from == pred[d]
<1>1. TypeOK /\ Args /\ InBlades /\ Written /\ pc = "blades"
  BY DEF IInv, Blade
<1>2. Args' /\ Dests' = Dests /\ Srcs' = Srcs /\ pred' = pred
  BY <1>1, ArgsStay DEF Blade
<1>3. d \in ready
  <2>1. ready \in SUBSET Nat /\ ready # {}
    BY <1>1, ArgsFacts DEF Blade, TypeOK, Args
  <2> QED BY <2>1, FirstIn
<1>4. d \in todo /\ d \in Dests
  BY <1>1, <1>3 DEF TypeOK
<1>5. /\ MoveTo(d) /\ todo' = todo \ {d} /\ pc' = "blades" /\ to' = to
      /\ ready' = (ready \ {d}) \cup (IF Released(d) THEN {from} ELSE {})
  BY <1>1 DEF Blade
<1> HIDE DEF d
<1>6. /\ regs' \in [Reg -> [val : Reg, bits : 1 .. 2]]
      /\ loc' \in [Srcs -> Reg]
      /\ regs'[d].val = regs[loc[from]].val
      /\ \A r \in Reg \ {d} : regs'[r] = regs[r]
      /\ loc'[from] = d
      /\ \A s \in Srcs \ {from} : loc'[s] = loc[s]
  BY <1>1, <1>4, <1>5, MoveToDoes
<1>7. /\ d \in Reg /\ from \in Srcs /\ from # d
      /\ \A e \in Dests : e \in Reg /\ pred[e] \in Srcs /\ pred[e] # e
  BY <1>1, <1>4, ArgsFacts
<1>8. regs'[d].val = from
  BY <1>1, <1>4, <1>6 DEF InBlades
<1> HIDE DEF from
<1>9. TypeOK'
  <2>1. ready' \subseteq todo'
    BY <1>1, <1>5, <1>7 DEF Released, TypeOK, from
  <2> QED BY <1>1, <1>2, <1>5, <1>6, <2>1 DEF TypeOK
<1>10. Written'
  <2> SUFFICES ASSUME NEW e \in Dests, e \notin todo \ {d}
               PROVE  regs'[e].val = pred[e]
    BY <1>2, <1>5 DEF Written, Pending
  <2>1. CASE e = d
    BY <1>8, <2>1 DEF from
  <2>2. CASE e # d
    <3>1. regs[e].val = pred[e]
      BY <1>1, <2>2 DEF Written, Pending
    <3> QED BY <1>6, <1>7, <2>2, <3>1
  <2> QED BY <2>1, <2>2
<1>11. InBlades'
  <2>1. ASSUME NEW e \in todo, e # d PROVE regs'[loc'[pred[e]]].val = pred[e]
    <3>0. e \in Dests /\ pred[e] \in Srcs /\ regs[loc[pred[e]]].val = pred[e]
      BY <1>1, <1>7, <2>1 DEF InBlades, TypeOK
    <3>1. CASE pred[e] = from
      BY <1>6, <1>8, <3>1
    <3>2. CASE pred[e] # from
      <4>1. loc'[pred[e]] = loc[pred[e]] /\ loc[pred[e]] \in Reg
        BY <1>1, <1>6, <3>0, <3>2 DEF TypeOK
      <4>2. loc[pred[e]] # d
        BY <1>1, <1>3, <1>4, <3>0 DEF InBlades
      <4> QED BY <1>6, <3>0, <4>1, <4>2
    <3> QED BY <3>1, <3>2
  <2>2. ASSUME NEW e \in ready', e \in Srcs PROVE loc'[e] # e
    <3>1. CASE e = from
      BY <1>6, <1>7, <3>1
    <3>2. CASE e # from
      BY Zenon, <1>1, <1>5, <1>6, <2>2, <3>2 DEF InBlades
    <3> QED BY <3>1, <3>2
  <2>3. ASSUME NEW e \in todo' \ ready' PROVE e \in Srcs /\ loc'[e] = e
    <3>1. e \in todo /\ e \notin ready /\ e \in Srcs /\ loc[e] = e
      BY <1>1, <1>5, <2>3 DEF InBlades
    <3>2. e # from
      BY <1>5, <2>3, <3>1 DEF Released, from
    <3> QED BY <1>6, <3>1, <3>2
  <2>4. ASSUME NEW s \in Srcs, loc'[s] # s PROVE loc'[s] \in Dests \ todo'
    <3>1. CASE s = from
      BY <1>4, <1>5, <1>6, <3>1
    <3>2. CASE s # from
      BY <1>1, <1>5, <1>6, <2>4, <3>2 DEF InBlades
    <3> QED BY <3>1, <3>2
  <2>5. ASSUME NEW e \in Dests \ todo' PROVE loc'[pred[e]] # pred[e]
    <3>1. CASE pred[e] = from
      BY <1>6, <1>7, <3>1
    <3>2. CASE pred[e] # from
      <4>1. e \notin todo
        BY <1>5, <2>5, <3>2 DEF from
      <4> QED BY <1>1, <1>6, <1>7, <2>5, <3>2, <4>1 DEF InBlades
    <3> QED BY <3>1, <3>2
  <2> QED BY Zenon, <1>2, <1>5, <2>1, <2>2, <2>3, <2>4, <2>5 DEF InBlades
<1> QED BY <1>2, <1>5, <1>9, <1>10, <1>11 DEF IInv, RightValue

(* What the first phase leaves over are cycles *)
LEMMA BladesDoneIInv == IInv /\ BladesDone => IInv'
<1> SUFFICES ASSUME IInv, BladesDone PROVE IInv'
  OBVIOUS
<1>1. TypeOK /\ Args /\ InBlades /\ Written /\ pc = "blades" /\ ready = {}
  BY DEF IInv, BladesDone
<1>2. Args' /\ Dests' = Dests /\ Srcs' = Srcs /\ pred' = pred
  BY <1>1, ArgsStay DEF BladesDone
<1>3. /\ UNCHANGED <<regs, todo, ready, loc, to>>
      /\ pc' = IF todo = {} THEN "done" ELSE "axles"
  BY DEF BladesDone
<1>4. TypeOK'
  BY <1>1, <1>2, <1>3 DEF TypeOK
<1>5. Written'
  BY <1>1, <1>2, <1>3 DEF Written, Pending
<1>6. ASSUME NEW t \in todo PROVE \E e \in todo : pred[e] = t
  <2>1. t \in Srcs /\ loc[t] = t
    BY <1>1 DEF InBlades
  <2>2. PICK e \in Dests : pred[e] = t
    BY <2>1 DEF Srcs
  <2>3. e \in todo
    BY <1>1, <2>1, <2>2 DEF InBlades
  <2> QED BY <2>2, <2>3
<1>7. IsFiniteSet(todo)
  <2>1. todo \in SUBSET Reg
    BY <1>1 DEF TypeOK, Args
  <2> QED BY <1>1, <2>1, ArgsFacts, FS_Subset
<1>8. (\A e \in todo : pred[e] \in todo) /\ OneReader(todo)
  BY <1>6, <1>7, OntoIsOneToOne DEF OneReader
<1>9. Intact(todo)
  <2> SUFFICES ASSUME NEW t \in todo PROVE t \in Srcs /\ loc[t] = t /\ regs[t].val = t
    BY DEF Intact
  <2>1. t \in Srcs /\ loc[t] = t
    BY <1>1 DEF InBlades
  <2>2. PICK e \in todo : pred[e] = t
    BY <1>6
  <2> QED BY <1>1, <2>1, <2>2 DEF InBlades
<1>10. InAxles'
  BY <1>1, <1>2, <1>3, <1>8, <1>9 DEF InAxles, Intact, OneReader
<1>11. RightValue'
  BY <1>2, <1>3, <1>5 DEF RightValue, Written, Pending
<1> QED BY <1>2, <1>3, <1>4, <1>5, <1>10, <1>11 DEF IInv

LEMMA ExchangeIInv == IInv /\ Exchange => IInv'
<1> SUFFICES ASSUME IInv, Exchange PROVE IInv'
  OBVIOUS
<1> DEFINE d == First(todo)
           from == pred[d]
           w == IF types[d] > types[from] THEN types[d] ELSE types[from]
<1>1. TypeOK /\ Args /\ InAxles /\ Written /\ pc = "axles"
  BY Zenon DEF IInv, Exchange
<1>2. Args' /\ Dests' = Dests /\ Srcs' = Srcs /\ pred' = pred
  BY Zenon, <1>1, ArgsStay DEF Exchange
<1>3. d \in todo
  <2>1. todo \in SUBSET Nat /\ todo # {}
    BY Zenon, <1>1, ArgsFacts DEF Exchange, TypeOK, Args
  <2> QED BY <2>1, FirstIn
<1>4. /\ pred[from] = d
      /\ regs' = [regs EXCEPT ![d] = Narrow(regs[from], w), ![from] = Narrow(regs[d], w)]
      /\ todo' = todo \ {d, from}
      /\ loc' = [loc EXCEPT ![d] = from, ![from] = d]
      /\ pc' = "axles" /\ ready' = ready /\ to' = to
  BY Zenon, <1>1 DEF Exchange, IsSwap
<1> HIDE DEF d
<1>5. from \in todo /\ from # d /\ d \in Dests /\ from \in Dests /\ d \in Reg /\ from \in Reg
  BY <1>1, <1>3, ArgsFacts DEF InAxles, TypeOK
<1>6. d \in Srcs /\ from \in Srcs /\ types[d] \in Width /\ types[from] \in Width
  <2>1. d \in Srcs /\ from \in Srcs
    BY <1>1, <1>3, <1>5 DEF InAxles, Intact
  <2> QED BY <1>1, <2>1 DEF Args
<1> HIDE DEF from
<1>7. w \in Width
  BY <1>6
<1> HIDE DEF w
<1>8. /\ Narrow(regs[from], w) \in [val : Reg, bits : 1 .. 2]
      /\ Narrow(regs[from], w).val = from
      /\ Narrow(regs[d], w) \in [val : Reg, bits : 1 .. 2]
      /\ Narrow(regs[d], w).val = d
  <2>1. /\ regs[from] \in [val : Reg, bits : 1 .. 2] /\ regs[from].val = from
        /\ regs[d] \in [val : Reg, bits : 1 .. 2] /\ regs[d].val = d
    BY <1>1, <1>3, <1>5 DEF InAxles, Intact, TypeOK
  <2> QED BY <1>7, <2>1, NarrowKeeps
<1>9. /\ regs' \in [Reg -> [val : Reg, bits : 1 .. 2]]
      /\ regs'[d].val = from /\ regs'[from].val = d
      /\ \A r \in Reg \ {d, from} : regs'[r] = regs[r]
  BY Zenon, <1>1, <1>4, <1>5, <1>8 DEF TypeOK
<1>10. /\ loc' \in [Srcs -> Reg]
       /\ \A s \in Srcs \ {d, from} : loc'[s] = loc[s]
  BY <1>1, <1>4, <1>5, <1>6 DEF TypeOK
<1>11. TypeOK'
  BY Zenon, <1>1, <1>2, <1>4, <1>9, <1>10 DEF TypeOK, InAxles
<1>12. Written'
  <2> SUFFICES ASSUME NEW e \in Dests, e \notin todo \ {d, from}
               PROVE  regs'[e].val = pred[e]
    BY Zenon, <1>2, <1>4 DEF Written, Pending
  <2>1. CASE e = d
    BY <1>9, <2>1 DEF from
  <2>2. CASE e = from
    BY <1>4, <1>9, <2>2
  <2>3. CASE e # d /\ e # from
    <3>1. e \in Reg /\ regs[e].val = pred[e]
      BY <1>1, <2>3, ArgsFacts DEF Written, Pending
    <3> QED BY <1>9, <2>3, <3>1
  <2> QED BY <2>1, <2>2, <2>3
<1>13. InAxles'
  <2>1. ASSUME NEW e \in todo, e # d, e # from
        PROVE  /\ pred[e] \in todo \ {d, from}
               /\ e \in Srcs /\ loc'[e] = e /\ regs'[e].val = e
    <3>1. pred[e] \in todo /\ e \in Srcs /\ loc[e] = e /\ regs[e].val = e /\ e \in Reg
      BY <1>1, <2>1 DEF InAxles, Intact, TypeOK
    <3>2. pred[e] # d
      BY <1>1, <1>4, <1>5, <2>1 DEF InAxles, OneReader
    <3>3. pred[e] # from
      BY <1>1, <1>3, <2>1 DEF InAxles, OneReader, from
    <3> QED BY <1>9, <1>10, <2>1, <3>1, <3>2, <3>3
  <2>2. OneReader(todo)
    BY <1>1 DEF InAxles
  <2>3. Intact(todo)'
    BY Zenon, <1>2, <1>4, <2>1 DEF Intact
  <2>4. OneReader(todo)'
    BY <1>2, <1>4, <2>2 DEF OneReader
  <2>5. ready' = {} /\ \A e \in todo' : pred'[e] \in todo'
    BY Zenon, <1>1, <1>2, <1>4, <2>1 DEF InAxles
  <2> QED BY <2>3, <2>4, <2>5 DEF InAxles
<1> QED BY <1>2, <1>4, <1>11, <1>12, <1>13 DEF IInv, RightValue

LEMMA SaveIInv == IInv /\ Save => IInv'
<1> SUFFICES ASSUME IInv, Save PROVE IInv'
  OBVIOUS
<1> DEFINE d == First(todo)
           t == TmpFor(d)
           v == Narrow(regs[d], types[pred[d]])
<1>1. TypeOK /\ Args /\ InAxles /\ Written /\ pc = "axles"
  BY DEF IInv, Save
<1>2. Args' /\ Dests' = Dests /\ Srcs' = Srcs /\ pred' = pred
  BY Zenon, <1>1, ArgsStay DEF Save
<1>3. d \in todo
  <2>1. todo \in SUBSET Nat /\ todo # {}
    BY Zenon, <1>1, ArgsFacts DEF Save, TypeOK, Args
  <2> QED BY <2>1, FirstIn
<1>4. /\ regs' = [regs EXCEPT ![t] = v]
      /\ loc' = [loc EXCEPT ![d] = t]
      /\ todo' = todo \ {d} /\ to' = d /\ pc' = "chain" /\ ready' = ready
  BY Zenon DEF Save
<1> HIDE DEF d
<1>5. t \in Reg \ Dests
  BY <1>1 DEF TmpFor, Args, Reg
<1>6. /\ d \in Dests /\ d \in Reg /\ types[pred[d]] \in Width
      /\ d \in Srcs /\ regs[d].val = d /\ regs[d] \in [val : Reg, bits : 1 .. 2]
  <2>1. d \in Dests
    BY <1>1, <1>3 DEF TypeOK
  <2>2. d \in Reg /\ types[pred[d]] \in Width
    BY <1>1, <2>1, ArgsFacts
  <2> QED BY <1>1, <1>3, <2>1, <2>2 DEF InAxles, Intact, TypeOK
<1>7. v \in [val : Reg, bits : 1 .. 2] /\ v.val = d
  BY <1>6, NarrowKeeps
<1> HIDE DEF t, v
<1>8. /\ regs' \in [Reg -> [val : Reg, bits : 1 .. 2]] /\ regs'[t] = v
      /\ \A r \in Reg \ {t} : regs'[r] = regs[r]
  BY <1>1, <1>4, <1>5, <1>7 DEF TypeOK
<1>9. /\ loc' \in [Srcs -> Reg] /\ loc'[d] = t
      /\ \A s \in Srcs \ {d} : loc'[s] = loc[s]
  BY <1>1, <1>4, <1>5, <1>6 DEF TypeOK
<1>10. TypeOK'
  BY Zenon, <1>1, <1>2, <1>4, <1>6, <1>8, <1>9 DEF TypeOK, InAxles
<1>11. Written'
  <2> SUFFICES ASSUME NEW e \in Dests, e \notin (todo \ {d}) \cup {d}
               PROVE  regs'[e].val = pred[e]
    BY Zenon, <1>2, <1>4 DEF Written, Pending
  <2>1. e \in Reg /\ e # t /\ e \notin todo
    BY <1>1, <1>5, ArgsFacts
  <2>2. regs[e].val = pred[e]
    BY <1>1, <2>1 DEF Written, Pending
  <2> QED BY <1>8, <2>1, <2>2
<1>12. InChain'
  <2>1. ASSUME NEW e \in todo, e # d PROVE e \in Srcs /\ loc'[e] = e /\ regs'[e].val = e
    <3>1. e \in Srcs /\ loc[e] = e /\ regs[e].val = e /\ e \in Dests
      BY <1>1, <2>1 DEF InAxles, Intact, TypeOK
    <3>2. e \in Reg /\ e # t
      BY <1>1, <1>5, <3>1, ArgsFacts
    <3> QED BY <1>8, <1>9, <2>1, <3>1, <3>2
  <2>2. (todo \ {d}) \cup {d} = todo
    BY <1>3
  <2>3. Intact(todo \ {to})'
    BY <1>2, <1>4, <2>1 DEF Intact
  <2>4. OneReader(todo \cup {to})'
    BY <1>1, <1>2, <1>4, <2>2 DEF InAxles, OneReader
  <2>5. /\ d \in Srcs' /\ d \in Dests' /\ d \notin todo'
        /\ loc'[d] \in Reg \ Dests' /\ regs'[loc'[d]].val = d
        /\ \A e \in todo' \cup {to'} : pred'[e] \in (todo' \ {to'}) \cup {d}
    BY Zenon, <1>1, <1>2, <1>4, <1>5, <1>6, <1>7, <1>8, <1>9, <2>2 DEF InAxles
  <2> QED BY Zenon, <1>1, <1>2, <1>4, <1>6, <2>3, <2>4, <2>5 DEF InChain, InAxles
<1> QED BY Zenon, <1>2, <1>4, <1>10, <1>11, <1>12 DEF IInv, RightValue

LEMMA ChainIInv == IInv /\ Chain => IInv'
<1> SUFFICES ASSUME IInv, Chain PROVE IInv'
  OBVIOUS
<1> DEFINE n == pred[to]
<1>1. TypeOK /\ Args /\ InChain /\ Written /\ pc = "chain"
  BY DEF IInv, Chain
<1>2. Args' /\ Dests' = Dests /\ Srcs' = Srcs /\ pred' = pred
  BY <1>1, ArgsStay DEF Chain
<1>3. to \in Dests /\ to \in Reg /\ n \in Reg /\ n \in Srcs /\ MoveTo(to)
  BY Zenon, <1>1, ArgsFacts DEF InChain, Chain
<1>4. /\ todo' = todo \ {to} /\ ready' = ready
      /\ to' = IF Released(to) THEN n ELSE IR_REG_NONE
      /\ pc' = IF Released(to) THEN "chain" ELSE "axles"
  BY DEF Chain
<1>5. /\ regs' \in [Reg -> [val : Reg, bits : 1 .. 2]]
      /\ loc' \in [Srcs -> Reg]
      /\ regs'[to].val = regs[loc[n]].val
      /\ \A r \in Reg \ {to} : regs'[r] = regs[r]
      /\ \A s \in Srcs \ {n} : loc'[s] = loc[s]
  BY Zenon, <1>1, <1>3, MoveToDoes
<1>6. PICK b \in Srcs : /\ b \in Dests /\ b \notin todo
                        /\ loc[b] \in Reg \ Dests
                        /\ regs[loc[b]].val = b
                        /\ \A d \in todo \cup {to} : pred[d] \in (todo \ {to}) \cup {b}
  BY <1>1 DEF InChain
<1> HIDE DEF n
<1>7. n \in (todo \ {to}) \cup {b}
  BY <1>6 DEF n
<1>8. ready = {} /\ Intact(todo \ {to}) /\ OneReader(todo \cup {to})
  BY <1>1 DEF InChain
<1>9. regs[loc[n]].val = n
  BY <1>6, <1>7, <1>8 DEF Intact
(* what the move leaves of the other pending registers *)
<1>10. ASSUME NEW e \in todo, e # to
       PROVE  /\ e \in Srcs /\ e \in Dests /\ regs'[e].val = e
              /\ e # n => loc'[e] = e
              /\ pred[e] # n /\ pred[e] \in (todo \ {to}) \cup {b}
  <2>1. e \in Srcs /\ loc[e] = e /\ regs[e].val = e /\ e \in Dests /\ e \in Reg
    BY <1>1, <1>8, <1>10 DEF Intact, TypeOK
  <2>2. pred[e] # n
    BY <1>8, <1>10 DEF OneReader, n
  <2> QED BY <1>5, <1>6, <1>10, <2>1, <2>2
<1>11. ASSUME NEW e \in Dests, e \notin todo \ {to}
       PROVE  regs'[e].val = pred[e]
  <2>1. CASE e = to
    BY <1>5, <1>9, <2>1 DEF n
  <2>2. CASE e # to
    <3>1. e \in Reg /\ regs[e].val = pred[e]
      BY <1>1, <1>11, <2>2, ArgsFacts DEF Written, Pending
    <3> QED BY <1>5, <2>2, <3>1
  <2> QED BY <2>1, <2>2
<1>12. CASE n = b
  <2>1. ~Released(to)
    BY <1>6, <1>12 DEF Released, n
  <2>2. pc' = "axles" /\ to' = IR_REG_NONE
    BY <1>4, <2>1
  <2>3. TypeOK'
    BY Zenon, <1>1, <1>2, <1>4, <1>5, <1>8, <2>2 DEF TypeOK
  <2>4. Written'
    BY Zenon, <1>2, <1>4, <1>11, <2>2 DEF Written, Pending
  <2>5. \A e \in todo \ {to} : e # n /\ pred[e] \in todo \ {to}
    BY <1>6, <1>10, <1>12
  <2>6. Intact(todo)'
    BY <1>2, <1>4, <1>10, <2>5 DEF Intact
  <2>7. OneReader(todo)'
    BY <1>2, <1>4, <1>8 DEF OneReader
  <2>8. InAxles'
    BY Zenon, <1>2, <1>4, <1>8, <2>5, <2>6, <2>7 DEF InAxles
  <2> QED BY <1>2, <2>2, <2>3, <2>4, <2>8 DEF IInv, RightValue
<1>13. CASE n # b
  <2>1. n \in todo /\ n # to /\ n \in Dests
    BY <1>7, <1>10, <1>13
  <2>2. Released(to)
    BY <1>8, <2>1 DEF Released, Intact, n
  <2>3. pc' = "chain" /\ to' = n
    BY <1>4, <2>2
  <2>4. TypeOK'
    BY Zenon, <1>1, <1>2, <1>4, <1>5, <1>8, <2>1, <2>3 DEF TypeOK
  <2>5. Written'
    BY Zenon, <1>2, <1>4, <1>11, <2>1, <2>3 DEF Written, Pending
  <2>6. Intact(todo \ {to})'
    BY <1>2, <1>4, <1>10, <2>3 DEF Intact
  <2>7. OneReader(todo \cup {to})'
    BY <1>2, <1>4, <1>8, <2>1, <2>3 DEF OneReader
  <2>8. /\ b \notin todo' /\ loc'[b] = loc[b] /\ regs'[loc[b]] = regs[loc[b]]
        /\ \A d \in todo' \cup {to'} : pred[d] \in (todo' \ {to'}) \cup {b}
    BY ZenonT(60), <1>3, <1>4, <1>5, <1>6, <1>10, <1>13, <2>1, <2>3
  <2>9. InChain'
    <3>1. /\ b \in Srcs' /\ b \in Dests' /\ b \notin todo'
          /\ loc'[b] \in Reg \ Dests' /\ regs'[loc'[b]].val = b
          /\ \A d \in todo' \cup {to'} : pred'[d] \in (todo' \ {to'}) \cup {b}
      BY Zenon, <1>2, <1>6, <2>8
    <3>2. ready' = {} /\ to' \in Dests'
      BY <1>2, <1>4, <1>8, <2>1, <2>3
    <3> QED BY Zenon, <2>6, <2>7, <3>1, <3>2 DEF InChain
  <2>10. pc' \notin {"start", "blades", "axles", "done"}
    BY <2>3
  <2> QED BY <1>2, <2>3, <2>4, <2>5, <2>9, <2>10 DEF IInv, RightValue
<1> QED BY <1>12, <1>13

LEMMA AxlesDoneIInv == IInv /\ AxlesDone => IInv'
<1> SUFFICES ASSUME IInv, AxlesDone PROVE IInv'
  OBVIOUS
<1>1. TypeOK /\ Args /\ Written /\ pc = "axles" /\ todo = {}
  BY DEF IInv, AxlesDone
<1>2. Args' /\ Dests' = Dests /\ Srcs' = Srcs /\ pred' = pred
  BY <1>1, ArgsStay DEF AxlesDone
<1>3. RightValue'
  BY <1>1, <1>2 DEF AxlesDone, RightValue, Written, Pending
<1>4. TypeOK'
  BY <1>1, <1>2 DEF AxlesDone, TypeOK
<1> QED BY <1>2, <1>3, <1>4 DEF AxlesDone, IInv

LEMMA StutterIInv == IInv /\ UNCHANGED vars => IInv'
<1> SUFFICES ASSUME IInv, UNCHANGED vars PROVE IInv'
  OBVIOUS
<1>1. /\ Args' /\ Dests' = Dests /\ Srcs' = Srcs
      /\ pred' = pred /\ regs' = regs /\ todo' = todo /\ ready' = ready
      /\ loc' = loc /\ to' = to /\ pc' = pc
  BY ArgsStay DEF IInv, vars, args
<1>2. TypeOK' /\ RightValue'
  BY <1>1 DEF IInv, TypeOK, RightValue
<1>3. /\ Written <=> Written'
      /\ InStart <=> InStart'
      /\ InBlades <=> InBlades'
      /\ InAxles <=> InAxles'
      /\ InChain <=> InChain'
  BY Zenon, <1>1 DEF Written, Pending, InStart, InBlades, InAxles, InChain, Intact, OneReader
<1> QED BY <1>1, <1>2, <1>3 DEF IInv

(* Whatever the register file, the copies and the temporaries are, and     *)
(* whether or not the target has an exchange instruction, when             *)
(* ir_parallel_copy returns each destination holds the value its source    *)
(* held at the start.                                                      *)
THEOREM ParallelCopyCorrect == Spec => []RightValue
<1>1. IInv /\ [Next]_vars => IInv'
  BY IndependentIInv, StartIInv, BladeIInv, BladesDoneIInv, ExchangeIInv,
     SaveIInv, ChainIInv, AxlesDoneIInv, StutterIInv DEF Next, Done
<1>2. IInv => RightValue
  BY DEF IInv
<1> QED BY InitIInv, <1>1, <1>2, PTL DEF Spec

(* At every point in between, a value that a later move needs is still in  *)
(* the register `loc' names, and no later move touches what was written.   *)
THEOREM NoSourceOverwritten == Spec => []NothingLost
<1>1. IInv /\ [Next]_vars => IInv'
  BY IndependentIInv, StartIInv, BladeIInv, BladesDoneIInv, ExchangeIInv,
     SaveIInv, ChainIInv, AxlesDoneIInv, StutterIInv DEF Next, Done
<1>2. IInv => NothingLost
  <2> SUFFICES ASSUME IInv, pc \in {"blades", "axles", "chain"},
                      NEW d \in Pending
               PROVE  regs[loc[pred[d]]].val = pred[d]
    BY Zenon DEF IInv, Written, NothingLost
  <2>1. CASE pc = "blades"
    BY <2>1 DEF IInv, InBlades, Pending
  <2>2. CASE pc = "axles"
    BY <2>2 DEF IInv, InAxles, Intact, Pending
  <2>3. CASE pc = "chain"
    BY <2>3 DEF IInv, InChain, Intact, Pending
  <2> QED BY <2>1, <2>2, <2>3
<1> QED BY InitIInv, <1>1, <1>2, PTL DEF Spec
=============================================================================
