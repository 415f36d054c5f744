----------------------------- MODULE SccpLemmas ----------------------------
(***************************************************************************)
(* The operations ir_sccp_analyze is made of (the worklist, the meets, the *)
(* folding of an instruction and the evaluation of a PHI) keep the         *)
(* invariant and only weaken what the analysis believes.                   *)
(***************************************************************************)
EXTENDS SccpCopies, TLAPS

-----------------------------------------------------------------------------
(* Steps of the analysis *)

LEMMA RankFacts ==
  /\ Rank("TOP") = 3 /\ Rank("CONST") = 2 /\ Rank("IF") = 2 /\ Rank("MERGE") = 2
  /\ Rank("COPY") = 1 /\ Rank("BOTTOM") = 0
BY Zenon DEF Rank

LEMMA RankType == \A o \in Ops : Rank(o) \in Nat
BY RankFacts DEF Ops

LEMMA WeakerTransitive ==
  ASSUME NEW D, NEW a \in Cells(D), NEW b \in Cells(D), NEW c \in Cells(D), Weaker(a, b), Weaker(b, c)
  PROVE  Weaker(a, c)
<1>1. a.op \in Ops /\ b.op \in Ops /\ c.op \in Ops /\ a.word \in Nat /\ b.word \in Nat /\ c.word \in Nat
  BY DEF Cells
<1>2. Rank(a.op) \in Nat /\ Rank(b.op) \in Nat /\ Rank(c.op) \in Nat
  BY <1>1, RankType
<1>3. CASE b.op = a.op /\ c.op = b.op
  BY <1>1, <1>2, <1>3 DEF Weaker
<1>4. CASE b.op # a.op \/ c.op # b.op
  BY <1>2, <1>4 DEF Weaker
<1> QED BY <1>3, <1>4

LEMMA StepTransitive ==
  ASSUME NEW s, NEW t, NEW q, Sound(s), Step(s, t), Step(t, q)
  PROVE  Step(s, q)
<1>1. \A x \in Refs(g) : s.v[x] \in Cells(Refs(g)) /\ t.v[x] \in Cells(Refs(g)) /\ q.v[x] \in Cells(Refs(g))
  BY DEF Sound, Step
<1>2. \A x \in Refs(g) : Weaker(s.v[x], t.v[x]) /\ Weaker(t.v[x], q.v[x])
  BY DEF Step, AllWeaker
<1>3. \A x \in Refs(g) : Weaker(s.v[x], q.v[x])
  BY <1>1, <1>2, WeakerTransitive
<1> QED BY <1>3 DEF Step, AllWeaker

LEMMA SoundFacts ==
  ASSUME NEW s, Sound(s)
  PROVE  /\ s \in [v : [Refs(g) -> Cells(Refs(g))], w : SUBSET Refs(g)]
         /\ s.v \in [Refs(g) -> Cells(Refs(g))] /\ s.w \in SUBSET Refs(g)
         /\ Typed(g, s.v) /\ Circles(g, s.v) /\ Progress(g, s.v) /\ Queue(g, s.v, s.w)
         /\ Words(g, s.v) /\ Copies(g, s.v) /\ Forest(s.v) /\ Rings(g, s.v)
BY DEF Sound, Good, Circles

(* Any change that leaves copies and BOTTOM alone, makes nothing a copy    *)
(* and weakens the rest is sound.                                          *)
LEMMA SoundStep ==
  ASSUME IrCheck(g), NEW s, Sound(s), NEW t,
         t \in [v : [Refs(g) -> Cells(Refs(g))], w : SUBSET Refs(g)],
         \A x \in Refs(g) : t.v[x].op \in Lattice(g.op[x]),
         \A x \in Refs(g) : s.v[x].op \in {"COPY", "BOTTOM"} => t.v[x] = s.v[x],
         \A x \in Refs(g) : s.v[x].op \notin {"COPY", "BOTTOM"} =>
                              t.v[x].op # "COPY" /\ (Valued(g, x) => t.v[x].word \in {0, 1}),
         \A x \in Refs(g) : g.op[x] \in Foldable \ {"PHI", "NOP"} /\ t.v[x].op # "TOP" =>
                              s.v[x].op # "TOP" \/ OperandsKnown(g, s.v, x),
         \A x \in Refs(g) : t.v[x].op = "MERGE" =>
                              \/ s.v[x].op = "MERGE" /\ t.v[x].word = s.v[x].word
                              \/ Cardinality(Lost(g, s.v, x)) <= t.v[x].word,
         AllWeaker(s.v, t.v), Queue(g, t.v, t.w)
  PROVE  Step(s, t)
<1>1. t.v \in [Refs(g) -> Cells(Refs(g))] /\ Typed(g, t.v)
  BY DEF Typed
<1>2. Circles(g, t.v)
  BY <1>1, SoundFacts, CirclesKept
<1>3. \A x \in Refs(g) : t.v[x].op = "TOP" => s.v[x].op = "TOP"
  <2> SUFFICES ASSUME NEW x \in Refs(g), t.v[x].op = "TOP" PROVE s.v[x].op = "TOP"
    OBVIOUS
  <2>1. Weaker(s.v[x], t.v[x]) /\ s.v[x].op \in Ops
    BY SoundFacts DEF AllWeaker, Cells
  <2> QED BY <2>1, RankFacts DEF Weaker, Ops
<1>4. Progress(g, t.v)
  BY <1>1, <1>3, SoundFacts, ProgressKept
<1> QED BY <1>1, <1>2, <1>4 DEF Step, Sound, Good

LEMMA WeakerSame ==
  ASSUME NEW a, NEW b, a.word \in Nat, b.op = a.op, b.val = a.val, b.word = a.word
  PROVE  Weaker(a, b)
BY DEF Weaker

LEMMA StepSame ==
  ASSUME NEW s, Sound(s)
  PROVE  Step(s, s)
<1>1. \A x \in Refs(g) : s.v[x].word \in Nat
  BY SoundFacts DEF Cells
<1>2. \A x \in Refs(g) : Weaker(s.v[x], s.v[x])
  BY <1>1, WeakerSame
<1> QED BY <1>2 DEF Step, AllWeaker

(* More instructions are queued. *)
LEMMA QueueStep ==
  ASSUME NEW s, Sound(s), NEW N \in SUBSET Refs(g), NEW t, t = [v |-> s.v, w |-> s.w \cup N],
         \A r \in N : g.op[r] # "NOP" /\ (s.v[r].op = "BOTTOM" => g.op[r] \in BBStart \ Merge)
  PROVE  Step(s, t)
<1>1. t.v = s.v /\ t.w = s.w \cup N
  OBVIOUS
<1>2. t \in [v : [Refs(g) -> Cells(Refs(g))], w : SUBSET Refs(g)]
  BY SoundFacts
<1>3. Queue(g, t.v, t.w)
  BY <1>1, SoundFacts DEF Queue
<1>4. AllWeaker(s.v, t.v)
  BY <1>1, StepSame DEF Step
<1> QED BY <1>1, <1>2, <1>3, <1>4 DEF Step, Sound

(* Fewer instructions are queued. *)
LEMMA DequeueStep ==
  ASSUME NEW s, Sound(s), NEW N, NEW t, t = [v |-> s.v, w |-> s.w \ N]
  PROVE  Step(s, t)
<1>1. t.v = s.v /\ t.w = s.w \ N
  OBVIOUS
<1>2. t \in [v : [Refs(g) -> Cells(Refs(g))], w : SUBSET Refs(g)]
  BY SoundFacts
<1>3. Queue(g, t.v, t.w)
  BY <1>1, SoundFacts DEF Queue
<1>4. AllWeaker(s.v, t.v)
  BY <1>1, StepSame DEF Step
<1> QED BY <1>1, <1>2, <1>3, <1>4 DEF Step, Sound

LEMMA AddUsesStep ==
  ASSUME IrCheck(g), NEW s, Sound(s), NEW r \in Refs(g)
  PROVE  Step(s, AddUses(s, r))
<1> DEFINE N == {u \in Range(g.use[r]) : s.v[u].op # "BOTTOM"}
<1>1. \A u \in N : u \in Refs(g) /\ g.op[u] # "NOP" /\ s.v[u].op # "BOTTOM"
  BY CheckFacts
<1>2. AddUses(s, r) = [s EXCEPT !.w = s.w \cup N]
  BY Zenon DEF AddUses
<1> HIDE DEF N
<1>3. AddUses(s, r) = [v |-> s.v, w |-> s.w \cup N]
  BY <1>2, SoundFacts
<1> QED BY <1>1, <1>3, QueueStep

(* The operands of an instruction that are still TOP are queued, each once. *)
LEMMA AddInputsStep ==
  ASSUME IrCheck(g), NEW s, Sound(s), NEW S, \A x \in S : x > 0 => x \in Refs(g) /\ g.op[x] # "NOP"
  PROVE  /\ Step(s, AddInputs(s, S))
         /\ \A x \in Refs(g) : /\ AddInputs(s, S).v[x].op = s.v[x].op
                               /\ s.v[x].op # "TOP" => AddInputs(s, S).v[x] = s.v[x]
         /\ \A x \in AddInputs(s, S).w : x \in s.w \/ x \in S
<1> DEFINE new == {r \in S : r > 0 /\ s.v[r].op = "TOP" /\ s.v[r].word = 0}
           u == [r \in DOMAIN s.v |-> IF r \in new THEN WithWord(s.v[r], 1) ELSE s.v[r]]
           t == [v |-> u, w |-> s.w \cup new]
<1>1. AddInputs(s, S) = t
  BY Zenon DEF AddInputs, WithWord
<1>2. s.v \in [Refs(g) -> Cells(Refs(g))] /\ DOMAIN s.v = Refs(g) /\ s.w \in SUBSET Refs(g)
  BY SoundFacts
<1>3. new \subseteq Refs(g) /\ (\A x \in new : g.op[x] # "NOP" /\ s.v[x].op = "TOP") /\ new \subseteq S
  OBVIOUS
<1>4. t.v = u /\ t.w = s.w \cup new
  OBVIOUS
<1> HIDE DEF new, t
<1>5. ASSUME NEW x \in Refs(g)
      PROVE  /\ WithWord(s.v[x], 1) \in Cells(Refs(g)) /\ WithWord(s.v[x], 1).op = s.v[x].op
             /\ WithWord(s.v[x], 1).word = 1 /\ WithWord(s.v[x], 1).val = s.v[x].val
  BY <1>2, WordFacts
<1>6. u \in [Refs(g) -> Cells(Refs(g))] /\ \A x \in Refs(g) : u[x] = IF x \in new THEN WithWord(s.v[x], 1) ELSE s.v[x]
  BY <1>2, <1>5
<1> HIDE DEF u
<1>7. \A x \in Refs(g) : /\ u[x].op = s.v[x].op /\ u[x].val = s.v[x].val
                         /\ u[x].word = (IF x \in new THEN 1 ELSE s.v[x].word)
                         /\ s.v[x].op # "TOP" => u[x] = s.v[x]
  BY <1>3, <1>5, <1>6
<1>8. Step(s, t)
  <2>1. t \in [v : [Refs(g) -> Cells(Refs(g))], w : SUBSET Refs(g)]
    BY <1>2, <1>3, <1>6 DEF t
  <2>2. \A x \in Refs(g) : t.v[x].op \in Lattice(g.op[x])
    BY <1>4, <1>7, SoundFacts DEF Typed
  <2>3. \A x \in Refs(g) : s.v[x].op \in {"COPY", "BOTTOM"} => t.v[x] = s.v[x]
    BY <1>4, <1>7
  <2>4. \A x \in Refs(g) : s.v[x].op \notin {"COPY", "BOTTOM"} =>
                             t.v[x].op # "COPY" /\ (Valued(g, x) => t.v[x].word \in {0, 1})
    BY <1>4, <1>7, SoundFacts DEF Words
  <2>5. \A x \in Refs(g) : g.op[x] \in Foldable \ {"PHI", "NOP"} /\ t.v[x].op # "TOP" =>
                             s.v[x].op # "TOP" \/ OperandsKnown(g, s.v, x)
    BY <1>4, <1>7
  <2>6. \A x \in Refs(g) : t.v[x].op = "MERGE" =>
                             \/ s.v[x].op = "MERGE" /\ t.v[x].word = s.v[x].word
                             \/ Cardinality(Lost(g, s.v, x)) <= t.v[x].word
    BY <1>4, <1>7
  <2>7. AllWeaker(s.v, t.v)
    <3> SUFFICES ASSUME NEW x \in Refs(g) PROVE Weaker(s.v[x], u[x])
      BY <1>4 DEF AllWeaker
    <3>1. CASE s.v[x].op = "TOP"
      BY <1>7, <3>1 DEF Weaker
    <3>2. CASE s.v[x].op # "TOP"
      <4>1. s.v[x].word \in Nat
        BY <1>2 DEF Cells
      <4> QED BY <1>7, <3>2, <4>1, WeakerSame
    <3> QED BY <3>1, <3>2
  <2>8. Queue(g, t.v, t.w)
    BY <1>3, <1>4, <1>7, SoundFacts DEF Queue
  <2> QED BY <2>1, <2>2, <2>3, <2>4, <2>5, <2>6, <2>7, <2>8, SoundStep
<1> QED BY <1>1, <1>3, <1>4, <1>7, <1>8

(* One instruction that waits for nothing more gets a weaker value. *)
LEMMA CellStep ==
  ASSUME IrCheck(g), NEW s, Sound(s), NEW r \in Refs(g), r \notin s.w, s.v[r].op # "COPY",
         NEW c \in Cells(Refs(g)), c.op \in Lattice(g.op[r]), c.op # "COPY",
         s.v[r].op = "BOTTOM" => c = s.v[r],
         Valued(g, r) /\ s.v[r].op # "BOTTOM" => c.word \in {0, 1},
         g.op[r] \in Foldable \ {"PHI", "NOP"} => OperandsKnown(g, s.v, r),
         c.op = "MERGE" => Cardinality(Lost(g, s.v, r)) <= c.word,
         Weaker(s.v[r], c), NEW t, t = [v |-> [s.v EXCEPT ![r] = c], w |-> s.w]
  PROVE  Step(s, t)
<1>1. s.v \in [Refs(g) -> Cells(Refs(g))] /\ s.w \in SUBSET Refs(g)
  BY SoundFacts
<1>2. t \in [v : [Refs(g) -> Cells(Refs(g))], w : SUBSET Refs(g)]
  BY <1>1
<1>3. t.w = s.w /\ \A x \in Refs(g) : t.v[x] = IF x = r THEN c ELSE s.v[x]
  BY <1>1
<1>4. \A x \in Refs(g) : t.v[x].op \in Lattice(g.op[x])
  BY <1>3, SoundFacts DEF Typed
<1>5. \A x \in Refs(g) : s.v[x].op \in {"COPY", "BOTTOM"} => t.v[x] = s.v[x]
  BY <1>3
<1>6. \A x \in Refs(g) : s.v[x].op \notin {"COPY", "BOTTOM"} =>
                           t.v[x].op # "COPY" /\ (Valued(g, x) => t.v[x].word \in {0, 1})
  BY <1>3, SoundFacts DEF Words
<1>7. \A x \in Refs(g) : g.op[x] \in Foldable \ {"PHI", "NOP"} /\ t.v[x].op # "TOP" =>
                           s.v[x].op # "TOP" \/ OperandsKnown(g, s.v, x)
  BY <1>3
<1>8. \A x \in Refs(g) : t.v[x].op = "MERGE" =>
                           \/ s.v[x].op = "MERGE" /\ t.v[x].word = s.v[x].word
                           \/ Cardinality(Lost(g, s.v, x)) <= t.v[x].word
  BY <1>3
<1>9. AllWeaker(s.v, t.v)
  BY <1>3, StepSame DEF AllWeaker, Step
<1>10. Queue(g, t.v, t.w)
  BY <1>3, SoundFacts DEF Queue
<1> QED BY <1>2, <1>4, <1>5, <1>6, <1>7, <1>8, <1>9, <1>10, SoundStep

(* IR_MAKE_BOTTOM on what is not a copy *)
LEMMA MakeBottomStep ==
  ASSUME IrCheck(g), NEW s, Sound(s), NEW r \in Refs(g), r \notin s.w, s.v[r].op # "COPY",
         g.op[r] \in Foldable \ {"PHI", "NOP"} => OperandsKnown(g, s.v, r)
  PROVE  Step(s, MakeBottom(s, r))
<1> DEFINE c == WithOp(s.v[r], "BOTTOM")
           t == [v |-> [s.v EXCEPT ![r] = c], w |-> s.w]
<1>1. s \in [v : [Refs(g) -> Cells(Refs(g))], w : SUBSET Refs(g)] /\ s.v[r] \in Cells(Refs(g))
  BY SoundFacts
<1>2. MakeBottom(s, r) = t
  BY <1>1 DEF MakeBottom, WithOp
<1>3. /\ c \in Cells(Refs(g)) /\ c.op = "BOTTOM" /\ c.word = s.v[r].word /\ c.val = s.v[r].val
      /\ c.ring = s.v[r].ring
  <2>1. "BOTTOM" \in Ops
    BY DEF Ops
  <2> QED BY <1>1, <2>1, OpFacts
<1>4. s.v[r].op = "BOTTOM" => c = s.v[r]
  BY <1>1, <1>3 DEF Cells
<1> HIDE DEF c
<1>5. c.op \in Lattice(g.op[r])
  BY <1>3 DEF Lattice
<1>6. Valued(g, r) /\ s.v[r].op # "BOTTOM" => c.word \in {0, 1}
  BY <1>3, SoundFacts DEF Words
<1>7. Weaker(s.v[r], c)
  <2>1. CASE s.v[r].op = "BOTTOM"
    BY <1>3, <2>1 DEF Weaker
  <2>2. CASE s.v[r].op # "BOTTOM"
    <3>1. s.v[r].op \in Ops
      BY <1>1 DEF Cells
    <3>2. Rank(c.op) < Rank(s.v[r].op)
      BY <1>3, <2>2, <3>1, RankFacts DEF Ops
    <3> QED BY <3>2 DEF Weaker
  <2> QED BY <2>1, <2>2
<1> HIDE DEF t
<1>8. t = [v |-> [s.v EXCEPT ![r] = c], w |-> s.w]
  BY DEF t
<1>9. Step(s, t)
  BY <1>3, <1>4, <1>5, <1>6, <1>7, <1>8, CellStep
<1> QED BY <1>2, <1>9

-----------------------------------------------------------------------------
(* A value that waits for nothing more is met with another. *)

Ready(s, r) ==
  /\ r \in Refs(g) /\ r \notin s.w /\ g.op[r] \in Data /\ s.v[r].op # "BOTTOM"
  /\ g.op[r] \in Foldable \ {"PHI", "NOP"} => OperandsKnown(g, s.v, r)

(* Only op of one cell goes down, other lists may change. *)
LEMMA WeakerStep ==
  ASSUME IrCheck(g), NEW s, Sound(s), NEW r \in Refs(g), r \notin s.w,
         g.op[r] \in Foldable \ {"PHI", "NOP"} => OperandsKnown(g, s.v, r), g.op[r] \notin Merge,
         NEW t, t \in [v : [Refs(g) -> Cells(Refs(g))], w : SUBSET Refs(g)],
         Typed(g, t.v), Circles(g, t.v),
         \A x \in Refs(g) : x # r => t.v[x].op = s.v[x].op /\ t.v[x].val = s.v[x].val,
         \A x \in Refs(g) : s.v[x].op = "MERGE" => t.v[x].word = s.v[x].word,
         Rank(t.v[r].op) < Rank(s.v[r].op),
         \A m \in t.w : m \in s.w \/ (g.op[m] # "NOP" /\ t.v[m].op # "BOTTOM")
  PROVE  Step(s, t)
<1>1. \A x \in Refs(g) : s.v[x] \in Cells(Refs(g)) /\ t.v[x] \in Cells(Refs(g))
  BY SoundFacts
<1>2. \A x \in Refs(g) : s.v[x].op \in Ops /\ t.v[x].op \in Ops /\ s.v[x].word \in Nat
  BY <1>1 DEF Cells
<1>3. t.v[r].op # "TOP"
  BY <1>2, RankFacts DEF Ops
<1>4. t.v[r].op # "MERGE"
  BY DEF Typed, Lattice
<1>5. AllWeaker(s.v, t.v)
  BY <1>2 DEF AllWeaker, Weaker
<1>6. Progress(g, t.v)
  <2>1. \A x \in Refs(g) : t.v[x].op = "TOP" => s.v[x].op = "TOP"
    BY <1>3
  <2>2. \A x \in Refs(g) : g.op[x] \in Foldable \ {"PHI", "NOP"} /\ t.v[x].op # "TOP" =>
                             s.v[x].op # "TOP" \/ OperandsKnown(g, s.v, x)
    OBVIOUS
  <2>3. \A x \in Refs(g) : t.v[x].op = "MERGE" =>
                             \/ s.v[x].op = "MERGE" /\ t.v[x].word = s.v[x].word
                             \/ Cardinality(Lost(g, s.v, x)) <= t.v[x].word
    BY <1>4
  <2> QED BY <2>1, <2>2, <2>3, SoundFacts, ProgressKept
<1>7. Queue(g, t.v, t.w)
  BY SoundFacts DEF Queue
<1> QED BY <1>5, <1>6, <1>7 DEF Step, Sound, Good

LEMMA SplitStep ==
  ASSUME IrCheck(g), NEW s, Sound(s), NEW r, Ready(s, r), s.v[r].op = "COPY"
  PROVE  Step(s, Split(s, r))
<1> DEFINE t == Split(s, r)
<1>1. r \in Refs(g) /\ r \notin s.w /\ g.op[r] \in Data /\ g.op[r] \notin Merge
  BY DEF Ready, Data, Foldable, Binary, Unary, Cmp, Merge
<1>2. /\ t \in [v : [Refs(g) -> Cells(Refs(g))], w : SUBSET Refs(g)]
      /\ Typed(g, t.v) /\ Circles(g, t.v)
      /\ \A x \in Refs(g) : /\ t.v[x].op = (IF x = r THEN "BOTTOM" ELSE s.v[x].op)
                            /\ t.v[x].val = s.v[x].val
                            /\ x # r => t.v[x].word = s.v[x].word
      /\ \A m \in t.w : m \in s.w \/ (g.op[m] # "NOP" /\ t.v[m].op # "BOTTOM")
  BY <1>1, SoundFacts, SplitFacts
<1> HIDE DEF t
<1>3. Rank(t.v[r].op) < Rank(s.v[r].op)
  BY <1>1, <1>2, RankFacts
<1>4. \A x \in Refs(g) : s.v[x].op = "MERGE" => t.v[x].word = s.v[x].word
  BY <1>2
<1>5. Step(s, t)
  BY <1>1, <1>2, <1>3, <1>4, WeakerStep DEF Ready
<1> QED BY <1>5 DEF t

(* IR_MAKE_BOTTOM_EX *)
LEMMA MakeBottomExStep ==
  ASSUME IrCheck(g), NEW s, Sound(s), NEW r, Ready(s, r)
  PROVE  Step(s, MakeBottomEx(s, r))
<1>1. CASE s.v[r].op = "COPY"
  BY <1>1, SplitStep DEF MakeBottomEx
<1>2. CASE s.v[r].op # "COPY"
  BY <1>2, MakeBottomStep DEF MakeBottomEx, Ready
<1> QED BY <1>1, <1>2

(* ir_sccp_meet with a constant *)
LEMMA MeetConstStep ==
  ASSUME IrCheck(g), NEW s, Sound(s), NEW r, Ready(s, r), NEW n \in Val
  PROVE  Step(s, MeetConst(s, r, n))
<1>1. CASE s.v[r].op = "TOP"
  <2> DEFINE c == WithVal(WithOp(s.v[r], "CONST"), n)
             t == [v |-> [s.v EXCEPT ![r] = c], w |-> s.w]
  <2>1. s \in [v : [Refs(g) -> Cells(Refs(g))], w : SUBSET Refs(g)] /\ r \in Refs(g) /\ s.v[r] \in Cells(Refs(g))
    BY SoundFacts DEF Ready
  <2>2. MeetConst(s, r, n) = t
    BY <2>1, <1>1 DEF MeetConst, WithOp, WithVal
  <2>3. c \in Cells(Refs(g)) /\ c.op = "CONST" /\ c.val = n /\ c.word = s.v[r].word
    <3>1. "CONST" \in Ops
      BY DEF Ops
    <3> QED BY <2>1, <3>1, OpFacts, ValFacts
  <2> HIDE DEF c
  <2>4. c.op \in Lattice(g.op[r])
    BY <2>3 DEF Lattice, Ready
  <2>5. Valued(g, r) => c.word \in {0, 1}
    BY <1>1, <2>1, <2>3, SoundFacts DEF Words
  <2>6. Weaker(s.v[r], c)
    BY <1>1, <2>3, RankFacts DEF Weaker
  <2> HIDE DEF t
  <2>7. t = [v |-> [s.v EXCEPT ![r] = c], w |-> s.w]
    BY DEF t
  <2>8. Step(s, t)
    BY <1>1, <2>1, <2>3, <2>4, <2>5, <2>6, <2>7, CellStep DEF Ready
  <2> QED BY <2>2, <2>8
<1>2. CASE s.v[r].op = "CONST" /\ s.v[r].val = n
  BY <1>2, StepSame DEF MeetConst
<1>3. CASE s.v[r].op # "TOP" /\ ~(s.v[r].op = "CONST" /\ s.v[r].val = n)
  BY <1>3, MakeBottomExStep DEF MeetConst
<1> QED BY <1>1, <1>2, <1>3

(* ir_sccp_meet with a copy *)
LEMMA MeetCopyStep ==
  ASSUME IrCheck(g), NEW s, Sound(s), NEW r, Ready(s, r), NEW src \in Copied(g, s.v)
  PROVE  Step(s, MeetCopy(s, r, src))
<1>1. CASE s.v[r].op # "COPY"
  <2> DEFINE u == AddIdentity(s.v, src, r)
             t == [v |-> u, w |-> s.w]
  <2>1. /\ s \in [v : [Refs(g) -> Cells(Refs(g))], w : SUBSET Refs(g)] /\ r \in Refs(g) /\ s.v[r] \in Cells(Refs(g))
        /\ g.op[r] \in Data /\ g.op[r] \notin Merge /\ r \notin s.w
    BY SoundFacts DEF Ready, Data, Foldable, Binary, Unary, Cmp, Merge
  <2>2. s.v[r].op \in {"TOP", "CONST"}
    BY <1>1, <2>1, SoundFacts DEF Ready, Typed, Lattice
  <2>3. /\ Typed(g, u) /\ Circles(g, u)
        /\ \A x \in Refs(g) : u[x].op = (IF x = r THEN "COPY" ELSE s.v[x].op) /\ u[x].val = s.v[x].val
        /\ \A x \in Refs(g) : s.v[x].op = "MERGE" => u[x].word = s.v[x].word
    BY <2>1, <2>2, SoundFacts, AddIdentityFacts
  <2> HIDE DEF u
  <2>4. MeetCopy(s, r, src) = t
    BY <1>1, <2>1 DEF MeetCopy, u
  <2>5. t.v = u /\ t.w = s.w /\ t \in [v : [Refs(g) -> Cells(Refs(g))], w : SUBSET Refs(g)]
    BY <2>1, <2>3 DEF Typed
  <2> HIDE DEF t
  <2>6. Rank(t.v[r].op) < Rank(s.v[r].op)
    BY <2>1, <2>2, <2>3, <2>5, RankFacts
  <2>7. Step(s, t)
    BY <2>1, <2>3, <2>5, <2>6, WeakerStep DEF Ready
  <2> QED BY <2>4, <2>7
<1>2. CASE s.v[r].op = "COPY" /\ Identity(s.v, r) = Identity(s.v, src)
  BY <1>2, StepSame DEF MeetCopy
<1>3. CASE s.v[r].op = "COPY" /\ Identity(s.v, r) # Identity(s.v, src)
  BY <1>3, SplitStep DEF MeetCopy
<1> QED BY <1>1, <1>2, <1>3

LEMMA PropagateStep ==
  ASSUME IrCheck(g), NEW s, Sound(s), NEW t, Step(s, t), NEW old, NEW r \in Refs(g)
  PROVE  Step(s, Propagate(old, t, r))
<1>1. Sound(t)
  BY DEF Step
<1>2. Step(t, AddUses(t, r))
  BY <1>1, AddUsesStep
<1>3. Step(s, AddUses(t, r))
  BY <1>2, StepTransitive
<1> QED BY <1>3 DEF Propagate

-----------------------------------------------------------------------------
(* Operands, by kind of instruction *)

IsOperand(h, x) ==
  x \in Int /\ IF x < 0 THEN ConstVal(x) \in Val ELSE x \in Refs(h) /\ h.op[x] \in Data \cup Load

LEMMA ShapeFacts ==
  ASSUME IrCheck(g), NEW r \in Refs(g)
  PROVE  /\ g.op[r] \in Foldable \ {"PHI", "NOP"} =>
              /\ Len(g.in[r]) = IF g.op[r] \in Binary THEN 2 ELSE IF g.op[r] = "COND" THEN 3 ELSE 1
              /\ \A x \in Range(g.in[r]) : IsOperand(g, x) /\ (x < r \/ g.op[x] = "PHI")
         /\ g.op[r] = "PHI" =>
              /\ g.in[r] # << >> /\ g.in[r][1] \in Refs(g) /\ g.op[g.in[r][1]] \in Merge
              /\ Len(g.in[r]) = Len(g.in[g.in[r][1]]) + 1
              /\ \A k \in 2 .. Len(g.in[r]) : IsOperand(g, g.in[r][k])
         /\ g.op[r] \in Merge => \A x \in Range(g.in[r]) : x > 0
         /\ g.op[r] \notin Data \cup BBStart \cup {"NOP"} => g.in[r] # << >> /\ g.in[r][1] > 0
         /\ g.op[r] \in {"IF", "SWITCH"} =>
              /\ Len(g.in[r]) >= 2 /\ IsOperand(g, g.in[r][2])
              /\ \A u \in Range(g.use[r]) : g.op[u] \in BBStart \ (Merge \cup {"START", "BEGIN"})
<1> DEFINE D == 1 .. Len(g.op)
           Operand(x) == IF x < 0 THEN ConstVal(x) \in Val ELSE x \in D /\ g.op[x] \in Data \cup Load
           Arity(o) == IF o \in Binary THEN 2 ELSE IF o = "COND" THEN 3 ELSE 1
<1>1. Refs(g) = D /\ g.in[r] \in Seq(Int)
  BY DEF IrCheck
<1>2. \A x \in Int : Operand(x) => IsOperand(g, x)
  BY <1>1 DEF IsOperand
<1>3. (\A x \in Range(g.in[r]) : x \in Int) /\ (\A k \in 1 .. Len(g.in[r]) : g.in[r][k] \in Int)
  BY <1>1 DEF Range
<1>4. /\ g.op[r] \in Foldable \ {"PHI", "NOP"} =>
           /\ Len(g.in[r]) = Arity(g.op[r])
           /\ \A x \in Range(g.in[r]) : Operand(x) /\ (x < r \/ g.op[x] = "PHI")
      /\ g.op[r] = "PHI" =>
           /\ g.in[r] # << >> /\ g.in[r][1] \in D /\ g.op[g.in[r][1]] \in Merge
           /\ Len(g.in[r]) = Len(g.in[g.in[r][1]]) + 1
           /\ \A k \in 2 .. Len(g.in[r]) : Operand(g.in[r][k])
      /\ g.op[r] \in Merge => \A x \in Range(g.in[r]) : x > 0
      /\ g.op[r] \notin Data \cup BBStart \cup {"NOP"} => g.in[r] # << >> /\ g.in[r][1] > 0
      /\ g.op[r] \in {"IF", "SWITCH"} =>
           /\ Len(g.in[r]) >= 2 /\ Operand(g.in[r][2])
           /\ \A u \in Range(g.use[r]) : g.op[u] \in BBStart \ (Merge \cup {"START", "BEGIN"})
  BY Zenon, <1>1 DEF IrCheck
<1> HIDE DEF Operand, D
<1>5. ASSUME g.op[r] \in Foldable \ {"PHI", "NOP"}
      PROVE  \A x \in Range(g.in[r]) : IsOperand(g, x) /\ (x < r \/ g.op[x] = "PHI")
  BY <1>2, <1>3, <1>4, <1>5
<1>6. ASSUME g.op[r] = "PHI" PROVE \A k \in 2 .. Len(g.in[r]) : IsOperand(g, g.in[r][k])
  <2>1. \A k \in 2 .. Len(g.in[r]) : k \in 1 .. Len(g.in[r])
    BY <1>1
  <2> QED BY Zenon, <1>2, <1>3, <1>4, <1>6, <2>1
<1>7. ASSUME g.op[r] \in {"IF", "SWITCH"} PROVE IsOperand(g, g.in[r][2])
  <2>1. 2 \in 1 .. Len(g.in[r])
    BY <1>1, <1>4, <1>7
  <2> QED BY <1>2, <1>3, <1>4, <1>7, <2>1
<1> QED BY Zenon, <1>1, <1>4, <1>5, <1>6, <1>7

(* A constant, or a value that is no longer TOP *)
Fits(v, x) ==
  \/ x \in Int /\ x < 0 /\ ConstVal(x) \in Val
  \/ x \in Refs(g) /\ Valued(g, x) /\ v[x].op # "TOP"

Result(v, e) == e.to = "emit" \/ Fits(v, e.r)

LEMMA FitsFacts ==
  ASSUME IrCheck(g), NEW v, Typed(g, v), NEW x, Fits(v, x)
  PROVE  /\ x \in Int
         /\ Known(v, x) => KnownVal(v, x) \in Val
         /\ ~Known(v, x) => x \in Copied(g, v)
<1>1. CASE x \in Int /\ x < 0 /\ ConstVal(x) \in Val
  BY <1>1 DEF Known, KnownVal
<1>2. CASE x \in Refs(g) /\ Valued(g, x) /\ v[x].op # "TOP"
  <2>1. v[x] \in Cells(Refs(g)) /\ x \in Int /\ ~(x < 0) /\ v[x].op \in Lattice(g.op[x])
    BY <1>2, CheckFacts DEF Typed
  <2>2. v[x].op \in {"CONST", "COPY", "BOTTOM"}
    BY <1>2, <2>1 DEF Lattice, Valued, Load, Merge
  <2> QED BY <1>2, <2>1, <2>2 DEF Known, KnownVal, Cells, Copied
<1> QED BY <1>1, <1>2 DEF Fits

LEMMA ToConstFacts ==
  ASSUME NEW v, NEW c \in Val
  PROVE  Result(v, ToConst(c))
BY DEF Result, ToConst, Fits, Const, ConstVal, Val

LEMMA ToCopyFacts ==
  ASSUME NEW v, NEW x, Fits(v, x)
  PROVE  Result(v, ToCopy(x))
BY DEF Result, ToCopy

LEMMA EmitFacts ==
  ASSUME NEW v
  PROVE  Result(v, Emit)
BY DEF Result, Emit

LEMMA WrapIn == \A x \in Int : x % WIDTH \in Val
BY WidthAssumption DEF Val

LEMMA ArithIn ==
  ASSUME NEW op \in Binary, NEW a \in Val, NEW b \in Val
  PROVE  Arith(op, a, b) \in Val
<1>1. 0 \in Val /\ 1 \in Val
  BY WidthAssumption DEF Val
<1>2. a + b \in Int /\ a - b \in Int
  BY DEF Val
<1>3. (a + b) % WIDTH \in Val /\ (a - b) % WIDTH \in Val
  BY <1>2, WrapIn
<1>4. Arith("ADD", a, b) = (a + b) % WIDTH
  BY Zenon DEF Arith, Cmp
<1>5. Arith("SUB", a, b) = (a - b) % WIDTH
  BY Zenon DEF Arith, Cmp
<1>6. Arith("MIN", a, b) = IF Signed(a) < Signed(b) THEN a ELSE b
  BY Zenon DEF Arith, Cmp
<1>7. Arith("MAX", a, b) = IF Signed(a) < Signed(b) THEN b ELSE a
  BY Zenon DEF Arith, Cmp
<1>8. ASSUME op \in Cmp PROVE Arith(op, a, b) = IF Compare(op, a, b) THEN 1 ELSE 0
  <2>1. op # "ADD" /\ op # "SUB" /\ op # "MIN" /\ op # "MAX"
    BY <1>8 DEF Cmp
  <2> QED BY Zenon, <1>8, <2>1 DEF Arith
<1>9. op \in Cmp \/ op \in {"ADD", "SUB", "MIN", "MAX"}
  BY DEF Binary
<1> QED BY <1>1, <1>3, <1>4, <1>5, <1>6, <1>7, <1>8, <1>9

LEMMA Arith1In ==
  ASSUME NEW op \in Unary, NEW a \in Val
  PROVE  Arith1(op, a) \in Val
<1>1. 0 \in Val /\ 1 \in Val /\ -a \in Int
  BY WidthAssumption DEF Val
<1>2. (-a) % WIDTH \in Val
  BY <1>1, WrapIn
<1>3. Arith1("NEG", a) = (-a) % WIDTH
  BY Zenon DEF Arith1
<1>4. Arith1("NOT", a) = IF a = 0 THEN 1 ELSE 0
  BY Zenon DEF Arith1
<1>5. Arith1("ABS", a) = IF Signed(a) < 0 THEN (-a) % WIDTH ELSE a
  BY Zenon DEF Arith1
<1> QED BY <1>1, <1>2, <1>3, <1>4, <1>5 DEF Unary

(* The rule x + c looks through one addition after another: each operand   *)
(* that is an addition is computed earlier.                                *)
LEMMA FoldAddConstFacts ==
  ASSUME IrCheck(g), NEW v, Typed(g, v), Progress(g, v),
         NEW x \in Refs(g), Valued(g, x), v[x].op # "TOP", NEW c \in Val
  PROVE  Result(v, FoldAddConst(v, x, c))
<1> DEFINE Through(y) == ~Known(v, y) /\ g.op[y] = "ADD" /\ g.in[y][1] > 0 /\ g.in[y][2] < 0
           Body(f, y) == [d \in Val |->
             IF Known(v, y) THEN ToConst((KnownVal(v, y) + d) % WIDTH)
             ELSE IF g.op[y] = "ADD" /\ g.in[y][1] > 0 /\ g.in[y][2] < 0
               THEN f[g.in[y][1]][(d + ConstVal(g.in[y][2])) % WIDTH]
             ELSE IF d = 0 THEN ToCopy(y) ELSE Emit]
           Def(f) == f = [y \in Refs(g) |-> Body(f, y)]
           fold == CHOOSE f : Def(f)
           rank == [y \in Refs(g) |-> IF g.op[y] = "ADD" THEN y ELSE 0]
           N == Len(g.op)
<1>1. FoldAddConst(v, x, c) = fold[x][c]
  BY Zenon DEF FoldAddConst
<1>2. Refs(g) = 1 .. N /\ N \in Nat
  <2>1. Refs(g) = 1 .. N /\ 1 \in 1 .. N
    BY DEF IrCheck
  <2> QED BY <2>1
<1>3. \A y \in Refs(g) : rank[y] = IF g.op[y] = "ADD" THEN y ELSE 0
  OBVIOUS
<1> HIDE DEF rank, N
<1>4. \A y \in Refs(g) : rank[y] \in 0 .. N
  BY <1>2, <1>3
<1>5. ASSUME NEW y \in Refs(g), Through(y)
      PROVE  /\ g.in[y][1] \in Refs(g) /\ rank[g.in[y][1]] < rank[y] /\ Valued(g, g.in[y][1])
             /\ g.in[y][1] \in Range(g.in[y]) /\ g.in[y][2] \in Int /\ ConstVal(g.in[y][2]) \in Val
  <2>1. g.op[y] = "ADD" /\ g.op[y] \in Foldable \ {"PHI", "NOP"} /\ g.op[y] \in Binary
    BY <1>5 DEF Foldable, Binary
  <2>2. Len(g.in[y]) = 2 /\ \A z \in Range(g.in[y]) : IsOperand(g, z) /\ (z < y \/ g.op[z] = "PHI")
    BY <2>1, ShapeFacts
  <2>3. g.in[y][1] \in Range(g.in[y]) /\ g.in[y][2] \in Range(g.in[y])
    BY <2>2, CheckFacts DEF Range
  <2>4. /\ IsOperand(g, g.in[y][1]) /\ (g.in[y][1] < y \/ g.op[g.in[y][1]] = "PHI")
        /\ IsOperand(g, g.in[y][2])
    BY <2>2, <2>3
  <2>5. g.in[y][1] \in Refs(g) /\ Valued(g, g.in[y][1]) /\ g.in[y][2] \in Int /\ ConstVal(g.in[y][2]) \in Val
    BY <2>4, <1>5 DEF IsOperand, Valued
  <2>6. rank[g.in[y][1]] < rank[y]
    <3>1. rank[y] = y /\ rank[g.in[y][1]] = IF g.op[g.in[y][1]] = "ADD" THEN g.in[y][1] ELSE 0
      BY SMTT(30), <2>1, <2>5, <1>3
    <3> QED BY <3>1, <2>4, <2>5, <1>2
  <2> QED BY <2>3, <2>5, <2>6
<1>6. ASSUME NEW f, NEW h, NEW y \in Refs(g), Through(y) => f[g.in[y][1]] = h[g.in[y][1]]
      PROVE  Body(f, y) = Body(h, y)
  <2>1. CASE Through(y)
    BY Zenon, <1>6, <2>1
  <2>2. CASE ~Through(y)
    <3>1. CASE Known(v, y)
      BY <3>1
    <3>2. CASE ~Known(v, y) /\ ~(g.op[y] = "ADD" /\ g.in[y][1] > 0 /\ g.in[y][2] < 0)
      BY <3>2
    <3> QED BY <2>2, <3>1, <3>2
  <2> QED BY <2>1, <2>2
<1> HIDE DEF Body
<1>7. \E f : Def(f)
  <2> DEFINE Upto(f, n) == /\ f = [y \in Refs(g) |-> f[y]]
                           /\ \A y \in Refs(g) : rank[y] <= n => f[y] = Body(f, y)
             S == {n \in 0 .. N : \E f : Upto(f, n)}
  <2>1. 0 \in S
    <3> DEFINE any == [y \in Refs(g) |-> 0]
               f0 == [y \in Refs(g) |-> Body(any, y)]
    <3>1. f0 = [y \in Refs(g) |-> f0[y]] /\ \A y \in Refs(g) : f0[y] = Body(any, y)
      OBVIOUS
    <3> HIDE DEF f0, any
    <3>2. ASSUME NEW y \in Refs(g), rank[y] <= 0 PROVE f0[y] = Body(f0, y)
      <4>1. ~Through(y)
        <5>1. SUFFICES ASSUME Through(y) PROVE FALSE
          OBVIOUS
        <5>2. g.in[y][1] \in Refs(g) /\ rank[g.in[y][1]] < rank[y]
          BY <5>1, <1>5
        <5> QED BY <5>2, <3>2, <1>4, <1>2
      <4>2. Body(any, y) = Body(f0, y)
        BY <4>1, <1>6
      <4> QED BY <4>2, <3>1
    <3>3. Upto(f0, 0)
      BY <3>1, <3>2
    <3> QED BY <3>3, <1>2
  <2>2. ASSUME NEW n \in 0 .. N - 1, n \in S PROVE n + 1 \in S
    <3>1. PICK f : Upto(f, n)
      BY <2>2
    <3> DEFINE h == [y \in Refs(g) |-> Body(f, y)]
    <3>2. h = [y \in Refs(g) |-> h[y]] /\ \A y \in Refs(g) : h[y] = Body(f, y)
      OBVIOUS
    <3> HIDE DEF h
    <3>3. ASSUME NEW y \in Refs(g), rank[y] <= n + 1 PROVE h[y] = Body(h, y)
      <4>1. ASSUME Through(y) PROVE f[g.in[y][1]] = h[g.in[y][1]]
        <5>1. g.in[y][1] \in Refs(g) /\ rank[g.in[y][1]] < rank[y]
          BY <4>1, <1>5
        <5>2. rank[g.in[y][1]] <= n
          BY <5>1, <3>3, <1>4, <1>2
        <5> QED BY <5>1, <5>2, <3>1, <3>2
      <4>2. Body(f, y) = Body(h, y)
        BY <4>1, <1>6
      <4> QED BY <4>2, <3>2
    <3>4. Upto(h, n + 1)
      BY <3>2, <3>3
    <3>5. n + 1 \in 0 .. N
      BY <1>2
    <3> QED BY <3>4, <3>5
  <2>3. N \in S
    <3> HIDE DEF S
    <3>1. \A n \in 0 .. N : n \in S
      BY <1>2, <2>1, <2>2, SetInduction
    <3> QED BY <3>1, <1>2
  <2>4. PICK f : Upto(f, N)
    BY <2>3
  <2>5. \A y \in Refs(g) : f[y] = Body(f, y)
    BY <2>4, <1>2, <1>4
  <2>6. f = [y \in Refs(g) |-> Body(f, y)]
    BY <2>4, <2>5
  <2> QED BY <2>6
<1>8. Def(fold)
  BY Zenon, <1>7
<1> HIDE DEF fold
<1>9. \A y \in Refs(g) : fold[y] = Body(fold, y)
  BY <1>8
<1> DEFINE Right(y) == Valued(g, y) /\ v[y].op # "TOP" => \A d \in Val : Result(v, fold[y][d])
           B == {y \in Refs(g) : ~Right(y)}
<1>10. ASSUME B # {} PROVE FALSE
  <2>0. \A z \in B : rank[z] \in Nat
    BY <1>2, <1>4
  <2>1. PICK y \in B : \A z \in B : rank[y] <= rank[z]
    <3> HIDE DEF B
    <3> QED BY <1>10, <2>0, Lowest
  <2>2. y \in Refs(g) /\ Valued(g, y) /\ v[y].op # "TOP"
    BY <2>1
  <2>3. PICK d \in Val : ~Result(v, fold[y][d])
    BY SMTT(30), <2>1
  <2>4. fold[y][d] = IF Known(v, y) THEN ToConst((KnownVal(v, y) + d) % WIDTH)
                     ELSE IF g.op[y] = "ADD" /\ g.in[y][1] > 0 /\ g.in[y][2] < 0
                       THEN fold[g.in[y][1]][(d + ConstVal(g.in[y][2])) % WIDTH]
                     ELSE IF d = 0 THEN ToCopy(y) ELSE Emit
    BY <1>9, <2>2 DEF Body
  <2>5. Fits(v, y)
    BY <2>2 DEF Fits
  <2>6. CASE Known(v, y)
    <3>1. (KnownVal(v, y) + d) % WIDTH \in Val
      <4>1. KnownVal(v, y) \in Val
        BY <2>5, <2>6, FitsFacts
      <4>2. KnownVal(v, y) + d \in Int
        BY <4>1 DEF Val
      <4> QED BY <4>2, WrapIn
    <3> QED BY <2>3, <2>4, <2>6, <3>1, ToConstFacts
  <2>7. CASE Through(y)
    <3>1. /\ g.in[y][1] \in Refs(g) /\ rank[g.in[y][1]] < rank[y] /\ Valued(g, g.in[y][1])
          /\ g.in[y][1] \in Range(g.in[y]) /\ ConstVal(g.in[y][2]) \in Val
      BY <2>2, <2>7, <1>5
    <3>2. v[g.in[y][1]].op # "TOP"
      <4>1. g.op[y] \in Foldable \ {"PHI", "NOP"}
        BY <2>7 DEF Foldable, Binary
      <4>2. OperandsKnown(g, v, y)
        BY <4>1, <2>2 DEF Progress
      <4> QED BY <3>1, <4>2, <2>7 DEF OperandsKnown
    <3>3. (d + ConstVal(g.in[y][2])) % WIDTH \in Val
      <4>1. d + ConstVal(g.in[y][2]) \in Int
        BY <3>1 DEF Val
      <4> QED BY <4>1, WrapIn
    <3>4. g.in[y][1] \notin B
      BY <2>1, <3>1, <1>2, <1>4
    <3>5. Right(g.in[y][1])
      BY <3>1, <3>4
    <3>6. Result(v, fold[g.in[y][1]][(d + ConstVal(g.in[y][2])) % WIDTH])
      BY <3>1, <3>2, <3>3, <3>5
    <3> QED BY <2>3, <2>4, <2>7, <3>6
  <2>8. CASE ~Known(v, y) /\ ~Through(y)
    BY <2>3, <2>4, <2>5, <2>8, ToCopyFacts, EmitFacts
  <2> QED BY <2>6, <2>7, <2>8
<1>11. Right(x)
  BY <1>10
<1> QED BY <1>1, <1>11

LEMMA FoldSameFacts ==
  ASSUME NEW v, NEW op \in Binary, NEW a, Fits(v, a)
  PROVE  Result(v, FoldSame(op, a))
<1>1. 0 \in Val /\ 1 \in Val
  BY WidthAssumption DEF Val
<1>2. ASSUME op \in Cmp PROVE FoldSame(op, a) = ToConst(IF op \in {"EQ", "GE", "LE"} THEN 1 ELSE 0)
  <2>1. op \notin {"MIN", "MAX"} /\ op # "SUB"
    BY <1>2 DEF Cmp
  <2> QED BY Zenon, <1>2, <2>1 DEF FoldSame
<1>3. ASSUME op \in {"MIN", "MAX"} PROVE FoldSame(op, a) = ToCopy(a)
  <2>1. op \notin Cmp /\ op # "SUB"
    BY <1>3 DEF Cmp
  <2> QED BY Zenon, <1>3, <2>1 DEF FoldSame
<1>4. FoldSame("SUB", a) = ToConst(0)
  <2>1. "SUB" \notin Cmp /\ "SUB" \notin {"MIN", "MAX"}
    BY DEF Cmp
  <2> QED BY Zenon, <2>1 DEF FoldSame
<1>5. FoldSame("ADD", a) = Emit
  <2>1. "ADD" \notin Cmp /\ "ADD" \notin {"MIN", "MAX"} /\ "ADD" # "SUB"
    BY DEF Cmp
  <2> QED BY Zenon, <2>1 DEF FoldSame
<1>6. op \in Cmp \/ op \in {"MIN", "MAX"} \/ op = "SUB" \/ op = "ADD"
  BY DEF Binary
<1>7. Result(v, ToConst(0)) /\ Result(v, ToConst(1))
  BY <1>1, ToConstFacts
<1>8. Result(v, ToCopy(a)) /\ Result(v, Emit)
  BY ToCopyFacts, EmitFacts
<1>9. CASE op \in Cmp
  <2>1. CASE op \in {"EQ", "GE", "LE"}
    BY Zenon, <1>2, <1>7, <1>9, <2>1
  <2>2. CASE op \notin {"EQ", "GE", "LE"}
    BY Zenon, <1>2, <1>7, <1>9, <2>2
  <2> QED BY <2>1, <2>2
<1>10. CASE op \notin Cmp
  BY Zenon, <1>3, <1>4, <1>5, <1>6, <1>7, <1>8, <1>10
<1> QED BY <1>9, <1>10

(* The operands of an instruction that has a value have values. *)
LEMMA OperandFits ==
  ASSUME IrCheck(g), NEW v, Typed(g, v), Progress(g, v), NEW x \in Refs(g), v[x].op # "TOP",
         g.op[x] \in Foldable \ {"PHI", "NOP"}, NEW k \in 1 .. Len(g.in[x])
  PROVE  Fits(v, g.in[x][k])
<1>1. g.in[x][k] \in Range(g.in[x])
  BY CheckFacts DEF Range
<1>2. IsOperand(g, g.in[x][k]) /\ OperandsKnown(g, v, x)
  BY <1>1, ShapeFacts DEF Progress
<1>3. g.in[x][k] \in Refs(g) => g.in[x][k] > 0
  BY CheckFacts
<1> QED BY <1>1, <1>2, <1>3 DEF IsOperand, OperandsKnown, Fits, Valued

LEMMA FoldBinaryFacts ==
  ASSUME IrCheck(g), NEW v, Typed(g, v), Progress(g, v), NEW op \in Binary,
         NEW a, Fits(v, a), NEW b, Fits(v, b)
  PROVE  Result(v, FoldBinary(v, op, a, b))
<1> DEFINE res == FoldBinary(v, op, a, b)
<1>1. /\ a \in Int /\ (Known(v, a) => KnownVal(v, a) \in Val) /\ (~Known(v, a) => a \in Copied(g, v))
      /\ b \in Int /\ (Known(v, b) => KnownVal(v, b) \in Val) /\ (~Known(v, b) => b \in Copied(g, v))
  BY FitsFacts
<1>2. \A x \in Copied(g, v) : x \in Refs(g) /\ Valued(g, x) /\ v[x].op # "TOP"
  BY DEF Copied
<1>3. \A x \in Copied(g, v) : \A c \in Val : Result(v, FoldAddConst(v, x, c))
  BY <1>2, FoldAddConstFacts
<1>4. CASE Known(v, a) /\ Known(v, b)
  <2>1. res = ToConst(Arith(op, KnownVal(v, a), KnownVal(v, b)))
    BY <1>4 DEF FoldBinary
  <2>2. Arith(op, KnownVal(v, a), KnownVal(v, b)) \in Val
    BY <1>1, <1>4, ArithIn
  <2> QED BY <2>1, <2>2, ToConstFacts
<1>5. CASE ~Known(v, a) /\ Known(v, b) /\ op = "ADD"
  BY <1>1, <1>3, <1>5 DEF FoldBinary
<1>6. CASE Known(v, a) /\ ~Known(v, b) /\ op = "ADD"
  BY <1>1, <1>3, <1>6, ToCopyFacts, EmitFacts DEF FoldBinary
<1>7. CASE ~Known(v, a) /\ Known(v, b) /\ op = "SUB"
  <2>1. res = FoldAddConst(v, a, (-KnownVal(v, b)) % WIDTH)
    BY <1>7 DEF FoldBinary
  <2>2. -KnownVal(v, b) \in Int
    BY <1>1, <1>7 DEF Val
  <2>3. (-KnownVal(v, b)) % WIDTH \in Val
    BY <2>2, WrapIn
  <2> QED BY <1>1, <1>3, <1>7, <2>1, <2>3
<1>8. CASE a = b /\ ~Known(v, a)
  <2>1. res = FoldSame(op, a)
    BY <1>8 DEF FoldBinary
  <2> QED BY <2>1, FoldSameFacts
<1>9. CASE a # b /\ op = "SUB" /\ ~Known(v, b) /\ ~Known(v, a) /\ g.op[a] = "ADD"
  <2>1. res = IF g.in[a][1] = b THEN ToCopy(g.in[a][2])
              ELSE IF g.in[a][2] = b THEN ToCopy(g.in[a][1]) ELSE Emit
    BY <1>9 DEF FoldBinary
  <2>2. a \in Refs(g) /\ v[a].op # "TOP" /\ g.op[a] \in Foldable \ {"PHI", "NOP"} /\ g.op[a] \in Binary
    BY <1>1, <1>2, <1>9 DEF Foldable, Binary
  <2>3. Len(g.in[a]) = 2
    BY <2>2, ShapeFacts
  <2>4. Fits(v, g.in[a][1]) /\ Fits(v, g.in[a][2])
    BY <2>2, <2>3, OperandFits
  <2> QED BY <2>1, <2>4, ToCopyFacts, EmitFacts
<1>10. CASE /\ ~(Known(v, a) /\ Known(v, b))
            /\ ~(op = "ADD" /\ (Known(v, a) \/ Known(v, b)))
            /\ ~(op = "SUB" /\ Known(v, b)) /\ ~(a = b)
            /\ ~(op = "SUB" /\ ~Known(v, a) /\ g.op[a] = "ADD")
  BY <1>10, EmitFacts DEF FoldBinary
<1> QED BY <1>4, <1>5, <1>6, <1>7, <1>8, <1>9, <1>10

LEMMA FoldFacts ==
  ASSUME IrCheck(g), NEW v, Typed(g, v), Progress(g, v), NEW op \in Foldable \ {"PHI", "NOP"}, NEW ins,
         Fits(v, ins[1]), op \in Binary \/ op = "COND" => Fits(v, ins[2]), op = "COND" => Fits(v, ins[3])
  PROVE  Result(v, Fold(v, op, ins))
<1> DEFINE a == ins[1]
           b == ins[2]
           res == Fold(v, op, ins)
<1>1. CASE op = "COPY"
  <2>1. Fold(v, "COPY", ins) = ToCopy(a)
    <3>1. "COPY" \notin Unary /\ "COPY" # "COND" /\ "COPY" \notin Binary
      BY DEF Unary, Binary, Cmp
    <3> QED BY Zenon, <3>1 DEF Fold
  <2> QED BY <1>1, <2>1, ToCopyFacts
<1>2. CASE op \in Unary
  <2>1. res = IF Known(v, a) THEN ToConst(Arith1(op, KnownVal(v, a)))
              ELSE IF op # "ABS" /\ g.op[a] = op THEN ToCopy(g.in[a][1])
              ELSE IF op = "ABS" /\ g.op[a] = "ABS" THEN ToCopy(a)
              ELSE Emit
    <3>1. op # "COPY" /\ op # "COND" /\ op \notin Binary
      BY <1>2 DEF Unary, Binary, Cmp
    <3> QED BY Zenon, <1>2, <3>1 DEF Fold
  <2>2. Known(v, a) => KnownVal(v, a) \in Val
    BY FitsFacts
  <2>3. Known(v, a) => Result(v, ToConst(Arith1(op, KnownVal(v, a))))
    BY <2>2, <1>2, Arith1In, ToConstFacts
  <2>4. ASSUME ~Known(v, a), g.op[a] = op PROVE Fits(v, g.in[a][1])
    <3>1. a \in Refs(g) /\ v[a].op # "TOP"
      BY <2>4, FitsFacts DEF Copied
    <3>2. g.op[a] \in Foldable \ {"PHI", "NOP"} /\ g.op[a] \notin Binary /\ g.op[a] # "COND"
      BY <1>2, <2>4 DEF Unary, Binary, Cmp
    <3>3. Len(g.in[a]) = 1
      BY <3>1, <3>2, ShapeFacts
    <3> QED BY <3>1, <3>2, <3>3, OperandFits
  <2> QED BY <2>1, <2>3, <2>4, ToCopyFacts, EmitFacts
<1>3. CASE op = "COND"
  <2>1. Fold(v, "COND", ins) = IF Known(v, a) THEN ToCopy(ins[IF KnownVal(v, a) # 0 THEN 2 ELSE 3])
              ELSE IF b = ins[3] THEN ToCopy(b) ELSE Emit
    <3>1. "COND" # "COPY" /\ "COND" \notin Unary /\ "COND" \notin Binary
      BY DEF Unary, Binary, Cmp
    <3> QED BY Zenon, <3>1 DEF Fold
  <2> QED BY <1>3, <2>1, ToCopyFacts, EmitFacts
<1>4. CASE op \in Binary
  <2>1. res = FoldBinary(v, op, a, b)
    <3>1. op # "COPY" /\ op # "COND" /\ op \notin Unary
      BY <1>4 DEF Unary, Binary, Cmp
    <3> QED BY Zenon, <1>4, <3>1 DEF Fold
  <2> QED BY <1>4, <2>1, FoldBinaryFacts
<1>5. CASE op = "ADDR"
  <2>1. Fold(v, "ADDR", ins) = Emit
    <3>1. "ADDR" # "COPY" /\ "ADDR" \notin Unary /\ "ADDR" # "COND" /\ "ADDR" \notin Binary
      BY DEF Unary, Binary, Cmp
    <3> QED BY Zenon, <3>1 DEF Fold
  <2> QED BY <1>5, <2>1, EmitFacts
<1> QED BY <1>1, <1>2, <1>3, <1>4, <1>5 DEF Foldable

(* The identity of an operand with a value is an operand with a value. *)
LEMMA IdentityFits ==
  ASSUME IrCheck(g), NEW s, Sound(s), NEW x, Fits(s.v, x)
  PROVE  Fits(s.v, Identity(s.v, x))
<1>1. CASE x \in Int /\ x < 0 /\ ConstVal(x) \in Val
  <2>1. ~(x > 0)
    BY <1>1
  <2>2. Identity(s.v, x) = x
    BY Zenon, <2>1 DEF Identity
  <2> QED BY <2>2
<1>2. CASE x \in Refs(g) /\ Valued(g, x) /\ s.v[x].op # "TOP"
  <2>1. CASE s.v[x].op = "COPY"
    <3>1. x \in Copied(g, s.v)
      BY <1>2, <2>1 DEF Copied
    <3>2. Identity(s.v, x) \in Copied(g, s.v)
      BY <3>1, SoundFacts, RootFacts
    <3> QED BY <3>2 DEF Copied, Fits
  <2>2. CASE s.v[x].op # "COPY"
    BY <1>2, <2>2, SoundFacts, RootFacts
  <2> QED BY <2>1, <2>2
<1> QED BY <1>1, <1>2 DEF Fits

LEMMA SccpFoldStep ==
  ASSUME IrCheck(g), NEW s, Sound(s), NEW r, Ready(s, r), g.op[r] \in Foldable \ {"PHI", "NOP"}
  PROVE  Step(s, SccpFold(s, r))
<1> DEFINE Opnd(k) == IF k \in DOMAIN g.in[r] THEN Identity(s.v, g.in[r][k]) ELSE 0
           ins == <<Opnd(1), Opnd(2), Opnd(3)>>
           res == Fold(s.v, g.op[r], ins)
<1>1. r \in Refs(g) /\ OperandsKnown(g, s.v, r) /\ g.in[r] \in Seq(Int)
  BY CheckFacts DEF Ready
<1>2. Len(g.in[r]) = IF g.op[r] \in Binary THEN 2 ELSE IF g.op[r] = "COND" THEN 3 ELSE 1
  BY <1>1, ShapeFacts
<1>3. ASSUME NEW k \in 1 .. Len(g.in[r]) PROVE Fits(s.v, Opnd(k))
  <2>1. g.in[r][k] \in Range(g.in[r]) /\ k \in DOMAIN g.in[r]
    BY <1>1 DEF Range
  <2>2. IsOperand(g, g.in[r][k])
    BY <1>1, <2>1, ShapeFacts
  <2>3. g.in[r][k] \in Refs(g) => g.in[r][k] > 0
    BY CheckFacts
  <2>4. Fits(s.v, g.in[r][k])
    BY <1>1, <2>1, <2>2, <2>3 DEF IsOperand, OperandsKnown, Fits, Valued
  <2>5. Fits(s.v, Identity(s.v, g.in[r][k]))
    BY <2>4, IdentityFits
  <2> QED BY <2>1, <2>5
<1> HIDE DEF Opnd
<1>4. Fits(s.v, ins[1]) /\ (g.op[r] \in Binary \/ g.op[r] = "COND" => Fits(s.v, ins[2])) /\ (g.op[r] = "COND" => Fits(s.v, ins[3]))
  <2>1. Fits(s.v, Opnd(1))
    BY <1>2, <1>3
  <2>2. g.op[r] \in Binary \/ g.op[r] = "COND" => Fits(s.v, Opnd(2))
    BY <1>2, <1>3
  <2>3. g.op[r] = "COND" => Fits(s.v, Opnd(3))
    <3>1. "COND" \notin Binary
      BY DEF Binary, Cmp
    <3> QED BY <1>2, <1>3, <3>1
  <2> QED BY <2>1, <2>2, <2>3
<1>5. Result(s.v, res)
  <2> HIDE DEF ins
  <2> QED BY <1>4, SoundFacts, FoldFacts
<1>6. SccpFold(s, r) = IF res.to = "emit" THEN MakeBottomEx(s, r)
                       ELSE IF Known(s.v, res.r) THEN MeetConst(s, r, KnownVal(s.v, res.r))
                       ELSE MeetCopy(s, r, res.r)
  BY Zenon DEF SccpFold, Opnd
<1> HIDE DEF res
<1>7. CASE res.to = "emit"
  BY <1>6, <1>7, MakeBottomExStep
<1>8. CASE res.to # "emit"
  <2>1. Fits(s.v, res.r)
    BY <1>5, <1>8 DEF Result
  <2>2. (Known(s.v, res.r) => KnownVal(s.v, res.r) \in Val) /\ (~Known(s.v, res.r) => res.r \in Copied(g, s.v))
    BY <2>1, SoundFacts, FitsFacts
  <2>3. CASE Known(s.v, res.r)
    BY <1>6, <1>8, <2>2, <2>3, MeetConstStep
  <2>4. CASE ~Known(s.v, res.r)
    BY <1>6, <1>8, <2>2, <2>4, MeetCopyStep
  <2> QED BY <2>3, <2>4
<1> QED BY <1>7, <1>8

-----------------------------------------------------------------------------
(* ir_sccp_analyze_phi *)
LEMMA AnalyzePhiStep ==
  ASSUME IrCheck(g), NEW s, Sound(s), NEW p, Ready(s, p), g.op[p] = "PHI"
  PROVE  Step(s, AnalyzePhi(s, p))
<1> DEFINE v == s.v
           me == Identity(v, p)
           merge == g.in[p][1]
           ins == Tail(g.in[p])
           Live(k) == Reachable(v, g.in[merge][k]) /\ ins[k] # p
           Same(x) == IF Known(v, x) THEN <<"const", KnownVal(v, x)>> ELSE <<"copy", Identity(v, x)>>
           Says(k) == Live(k) /\ ~(ins[k] > 0 /\ (v[ins[k]].op = "TOP" \/ Identity(v, ins[k]) = me))
           say == {k \in DOMAIN ins : Says(k)}
           first == ins[Min(say)]
           clash == {k \in say : Same(ins[k]) # Same(first)}
           scanned == {k \in DOMAIN ins : Live(k) /\ \A c \in clash : k <= c}
           S == {ins[k] : k \in scanned}
           s1 == AddInputs(s, S)
           src == IF v[first].op = "COPY" THEN v[first].word ELSE first
<1>1. AnalyzePhi(s, p) = IF ~Reachable(v, merge) THEN s
                         ELSE IF say = {} THEN s1
                         ELSE IF clash # {} THEN MakeBottomEx(s1, p)
                         ELSE IF Known(v, first) THEN MeetConst(s1, p, KnownVal(v, first))
                         ELSE MeetCopy(s1, p, src)
  BY Zenon DEF AnalyzePhi
<1>2. p \in Refs(g) /\ p \notin s.w /\ g.op[p] \in Data /\ v[p].op # "BOTTOM"
  BY DEF Ready
<1>3. DOMAIN ins \in SUBSET Nat /\ \A k \in DOMAIN ins : IsOperand(g, ins[k])
  <2>1. g.in[p] \in Seq(Int) /\ g.in[p] # << >> /\ \A k \in 2 .. Len(g.in[p]) : IsOperand(g, g.in[p][k])
    BY <1>2, ShapeFacts, CheckFacts
  <2>2. DOMAIN ins = 1 .. Len(g.in[p]) - 1 /\ \A k \in 1 .. Len(g.in[p]) - 1 : ins[k] = g.in[p][k + 1]
    BY <2>1
  <2> HIDE DEF ins
  <2>3. \A k \in 1 .. Len(g.in[p]) - 1 : k + 1 \in 2 .. Len(g.in[p])
    BY SMTT(30), <2>1
  <2> QED BY <2>1, <2>2, <2>3
<1>4. /\ say \in SUBSET DOMAIN ins /\ scanned \in SUBSET DOMAIN ins
      /\ \A k \in scanned : ins[k] # p
      /\ \A k \in say : ins[k] > 0 => v[ins[k]].op # "TOP"
  OBVIOUS
<1>5. \A x \in S : IsOperand(g, x) /\ x # p
  BY <1>3, <1>4
<1> HIDE DEF ins, say, scanned, clash
<1>6. \A x \in S : x > 0 => x \in Refs(g) /\ g.op[x] # "NOP"
  BY <1>5 DEF IsOperand, Data, Foldable, Binary, Unary, Cmp, Load
<1> HIDE DEF S
<1>7. /\ Step(s, s1)
      /\ \A x \in Refs(g) : s1.v[x].op = v[x].op
      /\ \A x \in s1.w : x \in s.w \/ x \in S
  BY <1>6, AddInputsStep
<1>8. Sound(s1)
  BY <1>7 DEF Step
<1> HIDE DEF s1
<1>9. Ready(s1, p)
  BY <1>2, <1>5, <1>7 DEF Ready
<1>10. ASSUME say # {}
       PROVE  /\ Known(v, first) => KnownVal(v, first) \in Val
              /\ ~Known(v, first) => src \in Copied(g, s1.v)
  <2>1. Min(say) \in say
    <3>1. say \in SUBSET Nat
      BY <1>3, <1>4
    <3> QED BY <3>1, <1>10, MinIn
  <2>2. IsOperand(g, first) /\ (first > 0 => v[first].op # "TOP")
    BY <2>1, <1>3, <1>4
  <2> HIDE DEF first
  <2>3. Fits(v, first)
    <3>1. first \in Refs(g) => first > 0
      BY CheckFacts
    <3> QED BY <2>2, <3>1 DEF IsOperand, Fits, Valued
  <2>4. (Known(v, first) => KnownVal(v, first) \in Val) /\ (~Known(v, first) => first \in Copied(g, v))
    BY <2>3, SoundFacts, FitsFacts
  <2>5. ASSUME first \in Copied(g, v) PROVE src \in Copied(g, v)
    BY <2>5, SoundFacts DEF Copies, Copied
  <2>6. Copied(g, v) \subseteq Copied(g, s1.v)
    BY <1>7 DEF Copied
  <2> QED BY <2>4, <2>5, <2>6
<1> HIDE DEF first, src
<1>11. CASE ~Reachable(v, merge)
  BY <1>1, <1>11, StepSame
<1>12. CASE say = {}
  BY <1>1, <1>7, <1>12, StepSame
<1>13. ASSUME say # {}
       PROVE  Step(s, IF clash # {} THEN MakeBottomEx(s1, p)
                      ELSE IF Known(v, first) THEN MeetConst(s1, p, KnownVal(v, first))
                      ELSE MeetCopy(s1, p, src))
  <2>1. Step(s1, MakeBottomEx(s1, p))
    BY <1>8, <1>9, MakeBottomExStep
  <2>2. Known(v, first) => Step(s1, MeetConst(s1, p, KnownVal(v, first)))
    BY <1>8, <1>9, <1>10, <1>13, MeetConstStep
  <2>3. ~Known(v, first) => Step(s1, MeetCopy(s1, p, src))
    BY <1>8, <1>9, <1>10, <1>13, MeetCopyStep
  <2> QED BY <1>7, <2>1, <2>2, <2>3, StepTransitive
<1> QED BY <1>1, <1>11, <1>12, <1>13

(* A PHI, or another use, of a merge that is analysed *)
LEMMA PhiNowStep ==
  ASSUME IrCheck(g), NEW s, Sound(s), NEW u \in Refs(g), g.op[u] # "NOP"
  PROVE  Step(s, PhiNow(s, u))
<1> DEFINE rest == [s EXCEPT !.w = @ \ {u}]
           more == [s EXCEPT !.w = @ \cup {u}]
<1>1. s \in [v : [Refs(g) -> Cells(Refs(g))], w : SUBSET Refs(g)]
  BY SoundFacts
<1>2. rest = [v |-> s.v, w |-> s.w \ {u}] /\ more = [v |-> s.v, w |-> s.w \cup {u}]
  BY <1>1
<1>3. PhiNow(s, u) = IF s.v[u].op = "BOTTOM" THEN s
                     ELSE IF g.op[u] # "PHI" THEN more
                     ELSE IF g.use[u] = << >> THEN rest
                     ELSE Propagate(rest, AnalyzePhi(rest, u), u)
  BY Zenon DEF PhiNow
<1>4. rest.v = s.v /\ rest.w = s.w \ {u}
  BY <1>2
<1> HIDE DEF rest, more
<1>5. Step(s, rest) /\ Sound(rest)
  BY <1>2, DequeueStep DEF Step
<1>6. CASE s.v[u].op = "BOTTOM"
  BY <1>3, <1>6, StepSame
<1>7. CASE s.v[u].op # "BOTTOM" /\ g.op[u] # "PHI"
  <2> DEFINE N == {u}
  <2>1. N \in SUBSET Refs(g) /\ \A r \in N : g.op[r] # "NOP" /\ s.v[r].op # "BOTTOM"
    BY <1>7
  <2>2. more = [v |-> s.v, w |-> s.w \cup N]
    BY <1>2
  <2> HIDE DEF N
  <2>3. Step(s, more)
    BY <2>1, <2>2, QueueStep
  <2> QED BY <1>3, <1>7, <2>3
<1>8. CASE s.v[u].op # "BOTTOM" /\ g.op[u] = "PHI"
  <2>1. Ready(rest, u)
    BY <1>4, <1>8 DEF Ready, Data, Foldable
  <2>2. Step(rest, AnalyzePhi(rest, u))
    BY <1>5, <1>8, <2>1, AnalyzePhiStep
  <2>3. Step(rest, Propagate(rest, AnalyzePhi(rest, u), u))
    BY <1>5, <2>2, PropagateStep
  <2>4. Step(s, Propagate(rest, AnalyzePhi(rest, u), u))
    BY <1>5, <2>3, StepTransitive
  <2> QED BY <1>3, <1>5, <1>8, <2>4
<1> QED BY <1>6, <1>7, <1>8

LEMMA PhisNowStep ==
  ASSUME IrCheck(g), NEW s, Sound(s), NEW r \in Refs(g)
  PROVE  Step(s, PhisNow(s, r))
<1> DEFINE N == Len(g.use[r])
           Next1(f, k) == IF k = 0 THEN s ELSE PhiNow(f[k - 1], g.use[r][k])
           Def(f) == f = [k \in 0 .. N |-> Next1(f, k)]
           after == CHOOSE f : Def(f)
<1>1. PhisNow(s, r) = after[N]
  BY Zenon DEF PhisNow
<1>2. N \in Nat /\ \A k \in 1 .. N : g.use[r][k] \in Refs(g) /\ g.op[g.use[r][k]] # "NOP"
  <2>1. g.use[r] \in Seq(Refs(g)) /\ \A u \in Range(g.use[r]) : u \in Refs(g) /\ g.op[u] # "NOP"
    BY CheckFacts
  <2>2. \A k \in 1 .. N : g.use[r][k] \in Range(g.use[r])
    BY <2>1 DEF Range
  <2> QED BY <2>1, <2>2
<1> HIDE DEF N
<1>3. \E f : Def(f)
  <2> DEFINE Upto(f, n) == f = [k \in 0 .. N |-> f[k]] /\ \A k \in 0 .. n : f[k] = Next1(f, k)
             S == {n \in 0 .. N : \E f : Upto(f, n)}
  <2>1. 0 \in S
    <3> DEFINE f0 == [k \in 0 .. N |-> s]
    <3>1. f0 = [k \in 0 .. N |-> f0[k]] /\ \A k \in 0 .. 0 : f0[k] = Next1(f0, k)
      BY <1>2
    <3> HIDE DEF f0, Next1
    <3>2. Upto(f0, 0)
      BY <3>1
    <3>3. 0 \in 0 .. N
      BY <1>2
    <3> QED BY Zenon, <3>2, <3>3
  <2>2. ASSUME NEW n \in 0 .. N - 1, n \in S PROVE n + 1 \in S
    <3>1. PICK f : Upto(f, n)
      BY <2>2
    <3> DEFINE h == [k \in 0 .. N |-> IF k = n + 1 THEN Next1(f, k) ELSE f[k]]
    <3>2. h = [k \in 0 .. N |-> h[k]] /\ \A k \in 0 .. N : h[k] = IF k = n + 1 THEN Next1(f, k) ELSE f[k]
      OBVIOUS
    <3> HIDE DEF h
    <3>3. ASSUME NEW k \in 0 .. n + 1 PROVE h[k] = Next1(h, k)
      <4>1. k \in 0 .. N /\ (k = n + 1 \/ k \in 0 .. n)
        BY <1>2
      <4>2. k # 0 => k - 1 \in 0 .. N /\ k - 1 # n + 1
        BY <4>1, <1>2
      <4>3. k # 0 => h[k - 1] = f[k - 1]
        BY <4>2, <3>2
      <4>4. Next1(h, k) = Next1(f, k)
        BY Zenon, <4>3
      <4>5. h[k] = Next1(f, k)
        <5>1. CASE k = n + 1
          BY <3>2, <4>1, <5>1
        <5>2. CASE k # n + 1
          BY <3>1, <3>2, <4>1, <5>2
        <5> QED BY <5>1, <5>2
      <4> QED BY <4>4, <4>5
    <3>4. Upto(h, n + 1)
      BY <3>2, <3>3
    <3>5. n + 1 \in 0 .. N
      BY <1>2
    <3> QED BY <3>4, <3>5
  <2>3. N \in S
    <3> HIDE DEF S
    <3>1. \A n \in 0 .. N : n \in S
      BY <1>2, <2>1, <2>2, SetInduction
    <3> QED BY <3>1, <1>2
  <2>4. PICK f : Upto(f, N)
    BY <2>3
  <2>5. f = [k \in 0 .. N |-> Next1(f, k)]
    <3> HIDE DEF Next1
    <3>1. f = [k \in 0 .. N |-> f[k]] /\ \A k \in 0 .. N : f[k] = Next1(f, k)
      BY <2>4
    <3> QED BY <3>1
  <2> QED BY <2>5
<1>4. Def(after)
  BY Zenon, <1>3
<1> HIDE DEF after
<1>5. \A k \in 0 .. N : after[k] = Next1(after, k)
  <2> HIDE DEF Next1
  <2> QED BY <1>4
<1> DEFINE S == {k \in 0 .. N : Step(s, after[k])}
<1>6. 0 \in S
  <2>1. 0 \in 0 .. N
    BY <1>2
  <2>2. after[0] = s
    BY <1>5, <2>1
  <2> QED BY <2>1, <2>2, StepSame
<1>7. ASSUME NEW n \in 0 .. N - 1, n \in S PROVE n + 1 \in S
  <2>1. n + 1 \in 1 .. N /\ n + 1 \in 0 .. N /\ n + 1 # 0 /\ (n + 1) - 1 = n
    BY <1>2
  <2>2. after[n + 1] = PhiNow(after[n], g.use[r][n + 1])
    BY <1>5, <2>1
  <2>3. Step(s, after[n]) /\ Sound(after[n])
    BY <1>7 DEF Step
  <2>4. Step(after[n], PhiNow(after[n], g.use[r][n + 1]))
    BY <1>2, <2>1, <2>3, PhiNowStep
  <2>5. Step(s, after[n + 1])
    BY <2>2, <2>3, <2>4, StepTransitive
  <2> QED BY <2>1, <2>5
<1>8. N \in S
  <2> HIDE DEF S
  <2>1. \A n \in 0 .. N : n \in S
    BY <1>2, <1>6, <1>7, SetInduction
  <2> QED BY <2>1, <1>2
<1> QED BY <1>1, <1>8
=============================================================================
