----------------------------- MODULE SccpProofs ----------------------------
(***************************************************************************)
(* Sparse conditional constant propagation, from the analysis to the last  *)
(* pruned merge, keeps its circular lists of equal values right and only   *)
(* ever weakens what it believes, for graphs of any size that ir_check     *)
(* accepts and values of any width.                                        *)
(***************************************************************************)
EXTENDS Sccp, SccpLemmas, TLAPS

-----------------------------------------------------------------------------
(* The steps of ir_sccp_analyze *)

LEMMA RestFacts ==
  ASSUME IInv, pc = "analyze", NEW r \in work
  PROVE  /\ IrCheck(g) /\ Sound(Rest(r)) /\ Rest(r).v = values /\ Rest(r).w = work \ {r}
         /\ r \in Refs(g) /\ g.op[r] # "NOP" /\ values[r].op \in Lattice(g.op[r])
         /\ values[r].op = "BOTTOM" => g.op[r] \in BBStart \ Merge
         /\ values[r] \in Cells(Refs(g))
<1>1. IrCheck(g) /\ Good(g, values) /\ Queue(g, values, work)
  BY DEF IInv
<1>2. Rest(r).v = values /\ Rest(r).w = work \ {r}
  BY DEF Rest
<1>3. Rest(r) \in [v : [Refs(g) -> Cells(Refs(g))], w : SUBSET Refs(g)]
  BY <1>1 DEF Rest, Good, Typed, Queue
<1>4. Queue(g, Rest(r).v, Rest(r).w)
  BY <1>1, <1>2 DEF Queue
<1>5. Sound(Rest(r))
  BY <1>1, <1>2, <1>3, <1>4 DEF Sound
<1>6. /\ r \in Refs(g) /\ g.op[r] # "NOP"
      /\ values[r].op = "BOTTOM" => g.op[r] \in BBStart \ Merge
  BY <1>1 DEF Queue
<1>7. values[r].op \in Lattice(g.op[r]) /\ values[r] \in Cells(Refs(g))
  BY <1>1, <1>6 DEF Good, Typed
<1> QED BY <1>1, <1>2, <1>5, <1>6, <1>7

LEMMA ReadyFacts ==
  ASSUME IInv, pc = "analyze", NEW r \in work, g.op[r] \in Data,
         g.op[r] \in Foldable \ {"PHI", "NOP"} => OperandsKnown(g, values, r)
  PROVE  Ready(Rest(r), r)
<1>1. g.op[r] \notin BBStart
  BY DEF Data, Foldable, Binary, Unary, Cmp, BBStart, Merge
<1> QED BY <1>1, RestFacts DEF Ready

(* What the analysis computes from the rest of the worklist becomes the    *)
(* next state.                                                             *)
LEMMA Becoming ==
  ASSUME IInv, pc = "analyze", NEW r \in work, NEW t, Step(Rest(r), t), Becomes(t)
  PROVE  IInv' /\ source' = source /\ DOMAIN values = Refs(g) /\ AllWeaker(values, values')
<1>1. Sound(t) /\ AllWeaker(values, t.v)
  BY RestFacts DEF Step
<1>2. values' = t.v /\ work' = t.w /\ source' = source /\ g' = g /\ pc' = pc
  BY DEF Becomes
<1>3. g = source /\ IrCheck(source) /\ Good(source, values)
  BY DEF IInv
<1>4. Good(source, t.v) /\ Queue(source, t.v, t.w)
  BY <1>1, <1>3 DEF Sound
<1>5. IInv'
  BY <1>2, <1>3, <1>4 DEF IInv
<1> QED BY <1>1, <1>2, <1>3, <1>5 DEF Good, Typed

LEMMA DeadStep ==
  ASSUME IInv, NEW r \in work, AnalyzeDead(r)
  PROVE  \E t : Step(Rest(r), t) /\ Becomes(t)
BY RestFacts, StepSame DEF AnalyzeDead, Pop, Quiet

LEMMA PhiInsnStep ==
  ASSUME IInv, NEW r \in work, AnalyzePhiInsn(r)
  PROVE  \E t : Step(Rest(r), t) /\ Becomes(t)
<1>1. pc = "analyze" /\ g.op[r] = "PHI" /\ Becomes(Propagate(Rest(r), AnalyzePhi(Rest(r), r), r))
  BY DEF AnalyzePhiInsn, Pop, IsData, Quiet
<1>2. g.op[r] \in Data /\ g.op[r] \notin Foldable \ {"PHI", "NOP"}
  BY <1>1 DEF Data, Foldable
<1>3. Ready(Rest(r), r)
  BY <1>1, <1>2, ReadyFacts
<1>4. Step(Rest(r), AnalyzePhi(Rest(r), r))
  BY <1>1, <1>3, RestFacts, AnalyzePhiStep
<1>5. Step(Rest(r), Propagate(Rest(r), AnalyzePhi(Rest(r), r), r))
  BY <1>1, <1>4, RestFacts, PropagateStep
<1> QED BY <1>1, <1>5

LEMMA FoldableStep ==
  ASSUME IInv, NEW r \in work, AnalyzeFoldable(r)
  PROVE  \E t : Step(Rest(r), t) /\ Becomes(t)
<1> DEFINE ins == {x \in Range(g.in[r]) : x > 0}
           s == Rest(r)
<1>1. pc = "analyze" /\ g.op[r] \in Foldable \ {"PHI"}
  BY DEF AnalyzeFoldable, Pop, IsData
<1>2. \/ Becomes(AddInputs(s, ins))
      \/ /\ \A x \in ins : values[x].op # "TOP"
         /\ \/ Becomes(Propagate(s, SccpFold(s, r), r))
            \/ Becomes(AddUses(MakeBottomEx(s, r), r))
  BY Zenon DEF AnalyzeFoldable, Quiet
<1>3. /\ IrCheck(g) /\ Sound(s) /\ r \in Refs(g) /\ g.op[r] # "NOP"
      /\ \A x \in ins : x \in Refs(g) /\ g.op[x] # "NOP"
  BY <1>1, RestFacts, CheckFacts
<1>4. CASE Becomes(AddInputs(s, ins))
  <2>1. Step(s, AddInputs(s, ins))
    BY <1>3, AddInputsStep
  <2> QED BY <1>4, <2>1
<1>5. ASSUME \A x \in ins : values[x].op # "TOP"
      PROVE  Step(s, Propagate(s, SccpFold(s, r), r)) /\ Step(s, AddUses(MakeBottomEx(s, r), r))
  <2>1. OperandsKnown(g, values, r)
    BY <1>5 DEF OperandsKnown
  <2>2. Ready(s, r)
    BY <1>1, <1>3, <2>1, ReadyFacts DEF Data
  <2>3. Step(s, SccpFold(s, r)) /\ Step(s, MakeBottomEx(s, r))
    BY <1>1, <1>3, <2>2, SccpFoldStep, MakeBottomExStep
  <2>4. Step(s, Propagate(s, SccpFold(s, r), r))
    BY <1>3, <2>3, PropagateStep
  <2>5. Step(MakeBottomEx(s, r), AddUses(MakeBottomEx(s, r), r))
    BY <1>3, <2>3, AddUsesStep DEF Step
  <2> QED BY <1>3, <2>3, <2>4, <2>5, StepTransitive
<1> QED BY <1>2, <1>4, <1>5

LEMMA ParamStep ==
  ASSUME IInv, NEW r \in work, AnalyzeParam(r)
  PROVE  \E t : Step(Rest(r), t) /\ Becomes(t)
<1> DEFINE s == Rest(r)
           t1 == MakeBottomEx(s, r)
           t2 == AddInputs(t1, Range(g.in[r]))
<1>1. pc = "analyze" /\ g.op[r] \in Data \ Foldable /\ Becomes(AddUses(t2, r))
  BY DEF AnalyzeParam, Pop, IsData, Quiet
<1>2. /\ IrCheck(g) /\ Sound(s) /\ r \in Refs(g)
      /\ \A x \in Range(g.in[r]) : x > 0 => x \in Refs(g) /\ g.op[x] # "NOP"
  BY <1>1, RestFacts, CheckFacts
<1>3. Ready(s, r)
  BY <1>1, ReadyFacts
<1>4. Step(s, t1) /\ Sound(t1)
  BY <1>2, <1>3, MakeBottomExStep DEF Step
<1>5. Step(t1, t2) /\ Sound(t2)
  BY <1>2, <1>4, AddInputsStep DEF Step
<1>6. Step(t2, AddUses(t2, r))
  BY <1>2, <1>5, AddUsesStep
<1> HIDE DEF t1, t2, s
<1>7. Step(s, t2)
  BY <1>2, <1>4, <1>5, StepTransitive
<1>8. Step(s, AddUses(t2, r))
  BY <1>2, <1>6, <1>7, StepTransitive
<1> QED BY <1>1, <1>8 DEF s

LEMMA NotData ==
  /\ \A o \in Merge \cup BBStart \cup {"IF", "SWITCH"} : o \notin Data \cup Load /\ o \notin Foldable
  /\ Merge \subseteq BBStart /\ "IF" \notin BBStart /\ "SWITCH" \notin BBStart
BY DEF Merge, BBStart, Data, Load, Foldable, Binary, Unary, Cmp

(* Control that is reached for good *)
LEMMA ControlBottom ==
  ASSUME IrCheck(g), NEW s, Sound(s), NEW r \in Refs(g), r \notin s.w, g.op[r] \notin Data
  PROVE  Step(s, MakeBottom(s, r)) /\ Step(s, AddUses(MakeBottom(s, r), r))
<1>1. s.v[r].op # "COPY"
  BY SoundFacts DEF Typed, Lattice, Merge
<1>2. g.op[r] \notin Foldable \ {"PHI", "NOP"}
  BY DEF Data
<1>3. Step(s, MakeBottom(s, r)) /\ Sound(MakeBottom(s, r))
  BY <1>1, <1>2, MakeBottomStep DEF Step
<1>4. Step(MakeBottom(s, r), AddUses(MakeBottom(s, r), r))
  BY <1>3, AddUsesStep
<1> QED BY <1>3, <1>4, StepTransitive

LEMMA MergeStep ==
  ASSUME IInv, NEW r \in work, AnalyzeMerge(r)
  PROVE  \E t : Step(Rest(r), t) /\ Becomes(t)
<1> DEFINE s == Rest(r)
           missing == {k \in DOMAIN g.in[r] : ~Reachable(values, g.in[r][k])}
           lost == Cardinality(missing)
           s1 == IF lost = 0 THEN MakeBottom(s, r)
                 ELSE [s EXCEPT !.v[r].op = "MERGE", !.v[r].word = lost]
<1>1. pc = "analyze" /\ g.op[r] \in Merge
  BY DEF AnalyzeMerge, Pop
<1>2. Becomes(s) \/ Becomes(PhisNow(s1, r)) \/ Becomes(AddUses(s1, r))
  BY Zenon DEF AnalyzeMerge
<1>3. /\ IrCheck(g) /\ Sound(s) /\ s.v = values /\ r \notin s.w /\ r \in Refs(g)
      /\ values[r].op \in {"TOP", "MERGE"} /\ values[r] \in Cells(Refs(g))
      /\ g.op[r] \notin Data \cup Load /\ g.op[r] \notin Foldable
  BY <1>1, RestFacts, NotData DEF Lattice
<1>4. missing = Lost(g, s.v, r)
  BY <1>3 DEF Reachable, Lost
<1>5. lost \in Nat
  <2>1. g.in[r] \in Seq(Int)
    BY <1>3, CheckFacts
  <2>2. DOMAIN g.in[r] = 1 .. Len(g.in[r]) /\ Len(g.in[r]) \in Nat /\ 1 \in Int
    BY <2>1
  <2>3. IsFiniteSet(1 .. Len(g.in[r]))
    BY <2>2, FS_Interval
  <2>4. IsFiniteSet(missing)
    BY <2>2, <2>3, FS_Subset
  <2> QED BY <2>4, FS_CardinalityType
<1> HIDE DEF missing, lost
<1>6. Step(s, s1)
  <2>1. CASE lost = 0
    BY <2>1, <1>3, ControlBottom
  <2>2. CASE lost # 0
    <3> DEFINE c == WithWord(WithOp(values[r], "MERGE"), lost)
               t == [v |-> [s.v EXCEPT ![r] = c], w |-> s.w]
    <3>1. s \in [v : [Refs(g) -> Cells(Refs(g))], w : SUBSET Refs(g)]
      BY <1>3, SoundFacts
    <3>2. s1 = t
      <4>1. s1 = [s EXCEPT !.v[r].op = "MERGE", !.v[r].word = lost]
        BY <2>2
      <4> HIDE DEF s1, s
      <4>2. s.v[r] = values[r]
        BY <1>3
      <4> QED BY <4>1, <4>2, <3>1, <1>3 DEF WithOp, WithWord
    <3>3. c \in Cells(Refs(g)) /\ c.op = "MERGE" /\ c.word = lost
      <4>1. "MERGE" \in Ops
        BY DEF Ops
      <4> QED BY <1>3, <1>5, <4>1, OpFacts, WordFacts
    <3> HIDE DEF c
    <3>4. c.op \in Lattice(g.op[r])
      BY <1>1, <1>3, <3>3 DEF Lattice
    <3>5. Weaker(s.v[r], c)
      <4>1. CASE values[r].op = "TOP"
        BY <1>3, <3>3, <4>1, RankFacts DEF Weaker
      <4>2. CASE values[r].op = "MERGE"
        <5>1. lost <= values[r].word
          BY <1>3, <1>4, <4>2, SoundFacts DEF Progress, lost
        <5> QED BY <1>3, <3>3, <4>2, <5>1 DEF Weaker
      <4> QED BY <1>3, <4>1, <4>2
    <3>6. Cardinality(Lost(g, s.v, r)) <= c.word
      BY <1>4, <1>5, <3>3 DEF lost
    <3> HIDE DEF t, s, s1
    <3>7. t = [v |-> [s.v EXCEPT ![r] = c], w |-> s.w]
      BY DEF t
    <3>8. Step(s, t)
      BY <1>3, <3>3, <3>4, <3>5, <3>6, <3>7, CellStep DEF Valued
    <3> QED BY <3>2, <3>8
  <2> QED BY <2>1, <2>2
<1> HIDE DEF s1, s
<1>7. Sound(s1)
  BY <1>6 DEF Step
<1>8. Step(s1, PhisNow(s1, r)) /\ Step(s1, AddUses(s1, r))
  BY <1>3, <1>7, PhisNowStep, AddUsesStep
<1>9. Step(s, PhisNow(s1, r)) /\ Step(s, AddUses(s1, r)) /\ Step(s, s)
  BY <1>3, <1>6, <1>8, StepTransitive, StepSame
<1> QED BY <1>2, <1>9 DEF s

LEMMA BlockStartStep ==
  ASSUME IInv, NEW r \in work, AnalyzeBlockStart(r)
  PROVE  \E t : Step(Rest(r), t) /\ Becomes(t)
<1>1. pc = "analyze" /\ g.op[r] \in BBStart \ Merge /\ Becomes(AddUses(MakeBottom(Rest(r), r), r))
  BY DEF AnalyzeBlockStart, Pop
<1>2. g.op[r] \notin Data
  BY <1>1, NotData
<1>3. Step(Rest(r), AddUses(MakeBottom(Rest(r), r), r))
  BY <1>1, <1>2, RestFacts, ControlBottom
<1> QED BY <1>1, <1>3

LEMMA UnreachableStep ==
  ASSUME IInv, NEW r \in work, AnalyzeUnreachable(r)
  PROVE  \E t : Step(Rest(r), t) /\ Becomes(t)
BY RestFacts, StepSame DEF AnalyzeUnreachable, Controlled, Pop, Quiet

(* The output taken is one of the targets of the branch. *)
LEMMA OutputFacts ==
  ASSUME NEW r, NEW c, OutputFor(r, c) # 0
  PROVE  OutputFor(r, c) \in Range(g.use[r])
<1> DEFINE out == Range(g.use[r])
           case == {u \in out : g.op[u] = "CASE_VAL" /\ ConstVal(g.in[u][2]) = c}
           taken == IF g.op[r] = "IF"
                      THEN {u \in out : (g.op[u] = "IF_TRUE") = (c # 0)}
                    ELSE IF case # {} THEN case
                    ELSE {u \in out : g.op[u] = "CASE_DEFAULT"}
<1>1. OutputFor(r, c) = IF taken = {} THEN 0 ELSE CHOOSE u \in taken : TRUE
  BY Zenon DEF OutputFor
<1>2. taken \subseteq out
  OBVIOUS
<1> HIDE DEF taken, out
<1>3. taken # {} => (CHOOSE u \in taken : TRUE) \in taken
  BY Zenon
<1>4. OutputFor(r, c) \in out
  BY Zenon, <1>1, <1>2, <1>3
<1> QED BY <1>4 DEF out

LEMMA SplitInsnStep ==
  ASSUME IInv, NEW r \in work, AnalyzeSplit(r)
  PROVE  \E t : Step(Rest(r), t) /\ Becomes(t)
<1> DEFINE s == Rest(r)
           c == g.in[r][2]
           out == IF Known(values, c) THEN OutputFor(r, KnownVal(values, c)) ELSE 0
           taken == [v |-> [values EXCEPT ![r].op = "IF", ![r].word = out], w |-> s.w \cup {out}]
<1>1. pc = "analyze" /\ g.op[r] \in {"IF", "SWITCH"}
  BY DEF AnalyzeSplit, Controlled, Pop
<1>2. \/ Becomes(AddInputs(s, {c}))
      \/ out # 0 /\ values[r].op = "TOP" /\ Becomes(taken)
      \/ Becomes(s)
      \/ Becomes(AddUses(MakeBottom(s, r), r))
  BY Zenon DEF AnalyzeSplit, Quiet
<1>3. /\ IrCheck(g) /\ Sound(s) /\ s.v = values /\ r \notin s.w /\ r \in Refs(g)
      /\ values[r] \in Cells(Refs(g)) /\ g.op[r] \notin Data \cup Load /\ g.op[r] \notin Foldable
      /\ g.op[r] \notin Merge
  BY <1>1, RestFacts, NotData
<1>4. Step(s, AddInputs(s, {c}))
  <2> DEFINE S == {c}
  <2>1. IsOperand(g, c)
    BY <1>1, <1>3, ShapeFacts
  <2>2. \A x \in S : x > 0 => x \in Refs(g) /\ g.op[x] # "NOP"
    BY <2>1 DEF IsOperand, Data, Foldable, Binary, Unary, Cmp, Load
  <2> HIDE DEF S
  <2>3. Step(s, AddInputs(s, S))
    BY <1>3, <2>2, AddInputsStep
  <2> QED BY <2>3 DEF S
<1>5. ASSUME out # 0, values[r].op = "TOP" PROVE Step(s, taken)
  <2>1. out \in Range(g.use[r])
    BY <1>5, OutputFacts
  <2>2. out \in Refs(g) /\ g.op[out] # "NOP" /\ g.op[out] \in BBStart \ Merge /\ out \in Nat
    BY <1>1, <1>3, <2>1, CheckFacts, ShapeFacts
  <2> HIDE DEF out
  <2> DEFINE d == WithWord(WithOp(values[r], "IF"), out)
             t == [v |-> [s.v EXCEPT ![r] = d], w |-> s.w]
             N == {out}
  <2>3. s \in [v : [Refs(g) -> Cells(Refs(g))], w : SUBSET Refs(g)]
    BY <1>3, SoundFacts
  <2>4. taken = [v |-> [values EXCEPT ![r] = d], w |-> s.w \cup N]
    <3> HIDE DEF s
    <3>1. values \in [Refs(g) -> Cells(Refs(g))]
      BY <1>3, <2>3
    <3>2. [values EXCEPT ![r].op = "IF", ![r].word = out] = [values EXCEPT ![r] = d]
      BY <1>3, <3>1 DEF WithOp, WithWord
    <3> HIDE DEF d
    <3> QED BY <3>2
  <2>5. d \in Cells(Refs(g)) /\ d.op = "IF" /\ d.word = out
    <3>1. "IF" \in Ops
      BY DEF Ops
    <3> QED BY <1>3, <2>2, <3>1, OpFacts, WordFacts
  <2> HIDE DEF d
  <2>6. d.op \in Lattice(g.op[r])
    BY <1>1, <1>3, <2>5 DEF Lattice
  <2>7. Weaker(s.v[r], d)
    BY <1>3, <1>5, <2>5, RankFacts DEF Weaker
  <2>8. t.v = [values EXCEPT ![r] = d] /\ t.w = s.w
    BY <1>3
  <2> HIDE DEF t, s, taken
  <2>9. t = [v |-> [s.v EXCEPT ![r] = d], w |-> s.w]
    BY DEF t
  <2>10. Step(s, t)
    BY <1>3, <1>5, <2>5, <2>6, <2>7, <2>9, CellStep DEF Valued
  <2>11. N \in SUBSET Refs(g) /\ \A x \in N : g.op[x] # "NOP" /\ g.op[x] \in BBStart \ Merge
    BY <2>2
  <2>12. taken = [v |-> t.v, w |-> t.w \cup N]
    BY <2>4, <2>8
  <2> HIDE DEF N
  <2>13. Step(t, taken)
    BY <2>10, <2>11, <2>12, QueueStep DEF Step
  <2> QED BY <1>3, <2>10, <2>13, StepTransitive
<1>6. Step(s, s) /\ Step(s, AddUses(MakeBottom(s, r), r))
  BY <1>3, StepSame, ControlBottom
<1> HIDE DEF taken, out, c
<1> QED BY <1>2, <1>4, <1>5, <1>6

LEMMA ControlStep ==
  ASSUME IInv, NEW r \in work, AnalyzeControl(r)
  PROVE  \E t : Step(Rest(r), t) /\ Becomes(t)
<1> DEFINE s == Rest(r)
           dead == g.op[r] \in Load /\ Len(g.use[r]) = 1
           S == Range(Tail(g.in[r]))
           s1 == IF dead THEN s ELSE AddInputs(s, S)
<1>1. pc = "analyze" /\ g.op[r] \notin Data \cup BBStart /\ Becomes(AddUses(MakeBottom(s1, r), r))
  BY Zenon DEF AnalyzeControl, Controlled, Pop
<1>2. /\ IrCheck(g) /\ Sound(s) /\ s.v = values /\ r \notin s.w /\ r \in Refs(g) /\ g.op[r] # "NOP"
      /\ g.op[r] # "PHI"
  BY <1>1, RestFacts DEF Data, Foldable
<1>3. \A x \in S : x # r /\ (x > 0 => x \in Refs(g) /\ g.op[x] # "NOP")
  <2>1. /\ g.in[r] \in Seq(Int) /\ g.in[r] # << >> /\ r \notin Range(g.in[r])
        /\ \A x \in Range(g.in[r]) : x > 0 => x \in Refs(g) /\ g.op[x] # "NOP"
    BY <1>1, <1>2, CheckFacts, ShapeFacts
  <2>2. S \subseteq Range(g.in[r])
    <3>1. /\ Tail(g.in[r]) \in Seq(Int) /\ Len(g.in[r]) \in Nat
          /\ \A k \in DOMAIN Tail(g.in[r]) : k + 1 \in DOMAIN g.in[r] /\ Tail(g.in[r])[k] = g.in[r][k + 1]
      BY <2>1
    <3> QED BY <3>1 DEF Range
  <2> QED BY <2>1, <2>2
<1> HIDE DEF S, s
<1>4. Step(s, s1) /\ r \notin s1.w
  <2>1. CASE dead
    BY <2>1, <1>2, StepSame
  <2>2. CASE ~dead
    BY <2>2, <1>2, <1>3, AddInputsStep
  <2> QED BY <2>1, <2>2
<1> HIDE DEF s1
<1>5. Step(s1, AddUses(MakeBottom(s1, r), r))
  BY <1>1, <1>2, <1>4, ControlBottom DEF Step
<1>6. Step(s, AddUses(MakeBottom(s1, r), r))
  BY <1>2, <1>4, <1>5, StepTransitive
<1> QED BY <1>1, <1>6 DEF s

(* A step of the analysis keeps the invariant and weakens what it believes. *)
LEMMA AnalyzeInv ==
  ASSUME IInv, Analyze
  PROVE  IInv' /\ source' = source /\ \A x \in DOMAIN values : Weaker(values[x], values'[x])
<1>1. PICK r \in work : \/ AnalyzeDead(r) \/ AnalyzePhiInsn(r) \/ AnalyzeFoldable(r) \/ AnalyzeParam(r)
                        \/ AnalyzeMerge(r) \/ AnalyzeBlockStart(r) \/ AnalyzeUnreachable(r)
                        \/ AnalyzeSplit(r) \/ AnalyzeControl(r)
  BY Zenon DEF Analyze
<1>2. pc = "analyze"
  BY Zenon, <1>1 DEF AnalyzeDead, AnalyzePhiInsn, AnalyzeFoldable, AnalyzeParam, AnalyzeMerge,
     AnalyzeBlockStart, AnalyzeUnreachable, AnalyzeSplit, AnalyzeControl, Controlled, Pop
<1>3. \E t : Step(Rest(r), t) /\ Becomes(t)
  BY <1>1, DeadStep, PhiInsnStep, FoldableStep, ParamStep, MergeStep, BlockStartStep,
     UnreachableStep, SplitInsnStep, ControlStep
<1>4. PICK t : Step(Rest(r), t) /\ Becomes(t)
  BY <1>3
<1>5. IInv' /\ source' = source /\ DOMAIN values = Refs(g) /\ AllWeaker(values, values')
  BY <1>2, <1>4, Becoming
<1> QED BY <1>5 DEF AllWeaker

(* A step keeps the invariant and weakens what the analysis believes. *)
LEMMA NextInv ==
  ASSUME IInv, [SccpNext]_vars
  PROVE  IInv' /\ source' = source /\ \A x \in DOMAIN values : Weaker(values[x], values'[x])
<1>1. CASE Analyze
  BY <1>1, AnalyzeInv
<1>2. CASE source' = source /\ values' = values /\ (pc' = "analyze" => pc = pc' /\ g' = g /\ work' = work)
  <2>1. IInv'
    BY <1>2 DEF IInv
  <2>2. \A x \in DOMAIN values : values[x].word \in Nat
    BY DEF IInv, Good, Typed, Cells
  <2> QED BY <1>2, <2>1, <2>2, WeakerSame
<1>3. CASE Analyzed \/ Transformed \/ Pruned
  BY <1>2, <1>3 DEF Analyzed, Transformed, Pruned
<1>4. CASE Transform
  <2>1. source' = source /\ values' = values /\ pc' = pc /\ pc = "transform"
    BY Zenon, <1>4 DEF Transform
  <2> QED BY <1>2, <2>1
<1>5. CASE Prune
  <2>1. source' = source /\ values' = values /\ pc' = pc /\ pc = "prune"
    BY Zenon, <1>5 DEF Prune
  <2> QED BY <1>2, <2>1
<1>6. CASE UNCHANGED vars
  BY <1>2, <1>6 DEF vars
<1> QED BY <1>1, <1>3, <1>4, <1>5, <1>6 DEF SccpNext

(* The circular lists are right: the list through a copy holds its         *)
(* identity, which is BOTTOM, and all copies of that identity              *)
(* (ir_sccp_add_identity, ir_sccp_split_partition).                        *)
THEOREM RingsTheorem == SccpSpec => []RingsMatchIdentities
<1>1. IInv => RingsMatchIdentities
  BY InvRings
<1>2. SccpInit => IInv
  BY InitInv
<1>3. IInv /\ [SccpNext]_vars => IInv'
  BY NextInv
<1> QED BY <1>1, <1>2, <1>3, PTL DEF SccpSpec

(* Facts are only ever weakened: nothing becomes TOP again, a constant     *)
(* never becomes another one, BOTTOM is final and a merge never loses an   *)
(* input it had (ir_sccp_meet, IR_MAKE_BOTTOM, ir_sccp_analyze).           *)
THEOREM OnlyWeakenedTheorem == SccpSpec => OnlyWeakened
<1> DEFINE Weakens == \A r \in DOMAIN values :
             /\ Rank(values'[r].op) <= Rank(values[r].op)
             /\ values[r].op = "CONST" /\ values'[r].op = "CONST" => values'[r].val = values[r].val
             /\ values[r].op = "MERGE" /\ values'[r].op = "MERGE" => values'[r].word <= values[r].word
<1>1. ASSUME IInv, [SccpNext]_vars PROVE Weakens
  <2> SUFFICES ASSUME NEW r \in DOMAIN values
               PROVE  /\ Rank(values'[r].op) <= Rank(values[r].op)
                      /\ values[r].op = "CONST" /\ values'[r].op = "CONST" => values'[r].val = values[r].val
                      /\ values[r].op = "MERGE" /\ values'[r].op = "MERGE" => values'[r].word <= values[r].word
    OBVIOUS
  <2>1. Weaker(values[r], values'[r])
    BY <1>1, NextInv
  <2>2. values[r].op \in Ops /\ values'[r].op \in Ops
    <3>1. values \in [Refs(source) -> Cells(Refs(source))]
      BY <1>1 DEF IInv, Good, Typed
    <3>2. values' \in [Refs(source) -> Cells(Refs(source))]
      BY <1>1, NextInv DEF IInv, Good, Typed
    <3> QED BY <3>1, <3>2 DEF Cells
  <2>3. Rank(values[r].op) \in Nat /\ Rank(values'[r].op) \in Nat
    BY <2>2, RankType
  <2>4. Rank("CONST") = 2 /\ Rank("MERGE") = 2
    BY RankFacts
  <2> QED BY <2>1, <2>3, <2>4 DEF Weaker
<1>2. SccpInit => IInv
  BY InitInv
<1>3. IInv /\ [SccpNext]_vars => IInv'
  BY NextInv
<1>4. IInv /\ [SccpNext]_vars => [Weakens]_vars
  BY <1>1
<1> HIDE DEF Weakens
<1>5. SccpSpec => [][Weakens]_vars
  BY <1>2, <1>3, <1>4, PTL DEF SccpSpec
<1> QED BY <1>5, PTL DEF OnlyWeakened, Weakens
============================================================================
