----------------------------- MODULE SccpCopies ----------------------------
(***************************************************************************)
(* The inductive invariant of sparse conditional constant propagation, and *)
(* what the two operations on the circular lists of equal values do to it. *)
(*                                                                         *)
(* The properties of the analysis are not inductive.  The lists need that  *)
(* copies form a forest whose roots are BOTTOM, and that a root carries    *)
(* its own list once it has one.  That facts only weaken needs that a      *)
(* value on the worklist is not BOTTOM yet, that an instruction with a     *)
(* value has only operands with values, and that a merge remembers at      *)
(* least as many missing inputs as it still has.                           *)
(***************************************************************************)
EXTENDS SccpAnalysis, FiniteSetTheorems, WellFoundedInduction, TLAPS

Ops == {"TOP", "CONST", "COPY", "IF", "MERGE", "BOTTOM"}
Cells(D) == [op : Ops, word : Nat, val : Val, ring : SUBSET D]

(* What the analysis may say of an instruction with operation o *)
Lattice(o) ==
  IF o \in Data THEN {"TOP", "CONST", "COPY", "BOTTOM"}
  ELSE IF o \in Merge THEN {"TOP", "MERGE", "BOTTOM"}
  ELSE IF o \in {"IF", "SWITCH"} THEN {"TOP", "IF", "BOTTOM"}
  ELSE {"TOP", "BOTTOM"}

Typed(h, v) ==
  /\ v \in [Refs(h) -> Cells(Refs(h))]
  /\ \A x \in Refs(h) : v[x].op \in Lattice(h.op[x])

Valued(h, x) == h.op[x] \in Data \cup Load

(* Before a value has copies, word is 0 or the visited flag. *)
Words(h, v) ==
  \A x \in Refs(h) :
    Valued(h, x) => \/ v[x].op = "COPY" \/ v[x].word \in {0, 1}
                    \/ v[x].op = "BOTTOM" /\ v[x].word = x

Copied(h, v) ==
  {x \in Refs(h) : Valued(h, x) /\ v[x].op \in {"COPY", "BOTTOM"}}

Copies(h, v) ==
  \A x \in Refs(h) : v[x].op = "COPY" => v[x].word \in Copied(h, v)

(* Following copies ends. *)
Forest(v) ==
  \E height \in [DOMAIN v -> Nat] :
    \A x \in DOMAIN v :
      v[x].op = "COPY" => v[x].word \in DOMAIN v /\ height[v[x].word] < height[x]

Class(v, root) == {m \in DOMAIN v : Identity(v, m) = root}

Rings(h, v) ==
  \A x \in Refs(h) :
    /\ v[x].op = "COPY" =>
         LET root == Identity(v, x) IN v[root].word = root /\ v[x].ring = Class(v, root)
    /\ Valued(h, x) /\ v[x].op = "BOTTOM" /\ v[x].word = x => v[x].ring = Class(v, x)

Circles(h, v) == Words(h, v) /\ Copies(h, v) /\ Forest(v) /\ Rings(h, v)

OperandsKnown(h, v, x) == \A y \in Range(h.in[x]) : y > 0 => v[y].op # "TOP"
Lost(h, v, m) == {k \in DOMAIN h.in[m] : v[h.in[m][k]].op = "TOP"}

Progress(h, v) ==
  \A x \in Refs(h) :
    /\ h.op[x] \in Foldable \ {"PHI", "NOP"} /\ v[x].op # "TOP" => OperandsKnown(h, v, x)
    /\ v[x].op = "MERGE" => Cardinality(Lost(h, v, x)) <= v[x].word

Good(h, v) == Typed(h, v) /\ Circles(h, v) /\ Progress(h, v)

(* Only a target of a branch, which is queued unchecked, may be BOTTOM on  *)
(* the worklist.                                                           *)
Queue(h, v, w) ==
  /\ w \subseteq Refs(h)
  /\ \A r \in w : h.op[r] # "NOP" /\ (v[r].op = "BOTTOM" => h.op[r] \in BBStart \ Merge)

IInv ==
  /\ IrCheck(source) /\ Good(source, values)
  /\ pc = "analyze" => g = source /\ Queue(source, values, work)

(* b says no more of an instruction than a does. *)
Weaker(a, b) ==
  \/ /\ b.op = a.op
     /\ a.op = "CONST" => b.val = a.val
     /\ a.op = "MERGE" => b.word <= a.word
  \/ Rank(b.op) < Rank(a.op)

AllWeaker(v, u) == \A x \in Refs(g) : Weaker(v[x], u[x])

Sound(s) ==
  /\ s \in [v : [Refs(g) -> Cells(Refs(g))], w : SUBSET Refs(g)]
  /\ Good(g, s.v) /\ Queue(g, s.v, s.w)

Step(s, t) == Sound(t) /\ AllWeaker(s.v, t.v)

-----------------------------------------------------------------------------
(* A set whose members have heights has a lowest member. *)
LEMMA Lowest ==
  ASSUME NEW B, B # {}, NEW height, \A x \in B : height[x] \in Nat
  PROVE  \E x \in B : \A y \in B : height[x] <= height[y]
<1> DEFINE H == {height[x] : x \in B}
<1>1. H \subseteq Nat /\ H # {}
  OBVIOUS
<1>2. PICK m \in H : \A k \in H : <<k, m>> \notin OpToRel(<, Nat)
  BY Zenon, <1>1, WFMin, NatLessThanWellFounded
<1>3. PICK x \in B : height[x] = m
  OBVIOUS
<1>4. ASSUME NEW y \in B PROVE height[x] <= height[y]
  <2>1. height[y] \in H /\ height[y] \in Nat /\ m \in Nat
    BY <1>1
  <2>2. ~(height[y] < m)
    BY Zenon, <1>2, <2>1 DEF OpToRel
  <2> QED BY <2>1, <2>2, <1>3
<1> QED BY <1>4

LEMMA MinIn ==
  ASSUME NEW S \in SUBSET Nat, S # {}
  PROVE  Min(S) \in S /\ \A x \in S : Min(S) <= x
<1> DEFINE id == [z \in S |-> z]
<1>1. \A z \in S : id[z] = z /\ id[z] \in Nat
  OBVIOUS
<1> HIDE DEF id
<1>2. \E y \in S : \A z \in S : id[y] <= id[z]
  BY <1>1, Lowest
<1>3. \E y \in S : \A z \in S : y <= z
  BY <1>1, <1>2
<1> QED BY Zenon, <1>3 DEF Min

LEMMA SetInduction ==
  ASSUME NEW N \in Nat, NEW S, 0 \in S, \A n \in 0 .. N - 1 : n \in S => n + 1 \in S
  PROVE  \A n \in 0 .. N : n \in S
<1> DEFINE T == {n \in 0 .. N : n \notin S}
<1>1. SUFFICES ASSUME T # {} PROVE FALSE
  BY Zenon
<1>2. T \in SUBSET Nat
  OBVIOUS
<1>3. Min(T) \in T /\ \A k \in T : Min(T) <= k
  BY Zenon, <1>1, <1>2, MinIn
<1>4. PICK m \in T : \A k \in T : m <= k
  BY <1>3
<1>5. m \in Nat /\ m # 0 /\ m <= N /\ m - 1 \notin T
  BY <1>4
<1> QED BY <1>5

-----------------------------------------------------------------------------
(* ir_sccp_identity on a forest of copies *)

(* What can be reached from x along copies *)
Chain(v, x) ==
  {y \in DOMAIN v : \A T \in SUBSET DOMAIN v :
     x \in T /\ (\A z \in T : v[z].op = "COPY" => v[z].word \in T) => y \in T}

LEMMA ChainEnds ==
  ASSUME NEW v, Forest(v), NEW x \in DOMAIN v
  PROVE  /\ \E y \in Chain(v, x) : v[y].op # "COPY"
         /\ v[x].op = "COPY" => {y \in Chain(v, x) : v[y].op # "COPY"}
                                 = {y \in Chain(v, v[x].word) : v[y].op # "COPY"}
         /\ v[x].op # "COPY" => Chain(v, x) = {x}
<1>1. PICK height \in [DOMAIN v -> Nat] :
        \A z \in DOMAIN v : v[z].op = "COPY" => v[z].word \in DOMAIN v /\ height[v[z].word] < height[z]
  BY DEF Forest
<1>2. x \in Chain(v, x) /\ Chain(v, x) \subseteq DOMAIN v
  BY DEF Chain
<1>3. ASSUME NEW y \in Chain(v, x), v[y].op = "COPY" PROVE v[y].word \in Chain(v, x)
  BY <1>1, <1>3 DEF Chain
<1>4. \E y \in Chain(v, x) : v[y].op # "COPY"
  <2>1. PICK y \in Chain(v, x) : \A z \in Chain(v, x) : height[y] <= height[z]
    BY <1>2, Lowest
  <2>2. CASE v[y].op = "COPY"
    <3>1. v[y].word \in Chain(v, x) /\ height[v[y].word] < height[y] /\ v[y].word \in DOMAIN v
      BY <1>1, <1>2, <1>3, <2>2
    <3>2. height[y] <= height[v[y].word] /\ height[y] \in Nat /\ height[v[y].word] \in Nat
      BY <2>1, <3>1, <1>2
    <3> QED BY <3>1, <3>2
  <2> QED BY <2>1, <2>2
<1>5. ASSUME v[x].op = "COPY"
      PROVE  {y \in Chain(v, x) : v[y].op # "COPY"} = {y \in Chain(v, v[x].word) : v[y].op # "COPY"}
  <2>1. ASSUME NEW y \in Chain(v, v[x].word) PROVE y \in Chain(v, x)
    BY <1>5, <2>1 DEF Chain
  <2>2. ASSUME NEW y \in Chain(v, x), v[y].op # "COPY" PROVE y \in Chain(v, v[x].word)
    <3>1. SUFFICES ASSUME NEW T \in SUBSET DOMAIN v, v[x].word \in T,
                          \A z \in T : v[z].op = "COPY" => v[z].word \in T
                   PROVE  y \in T
      BY <1>2, <2>2 DEF Chain
    <3>2. y \in T \cup {x}
      <4> DEFINE U == T \cup {x}
      <4>1. U \in SUBSET DOMAIN v /\ x \in U /\ \A z \in U : v[z].op = "COPY" => v[z].word \in U
        BY <3>1
      <4> HIDE DEF U
      <4>2. y \in U
        BY <4>1, <2>2 DEF Chain
      <4> QED BY <4>2 DEF U
    <3> QED BY <3>2, <2>2, <1>5
  <2> QED BY <2>1, <2>2
<1>6. ASSUME v[x].op # "COPY" PROVE Chain(v, x) = {x}
  <2>1. ASSUME NEW y \in Chain(v, x) PROVE y \in {x}
    <3> DEFINE U == {x}
    <3>1. U \in SUBSET DOMAIN v /\ x \in U /\ \A z \in U : v[z].op = "COPY" => v[z].word \in U
      BY <1>6
    <3> HIDE DEF U
    <3>2. y \in U
      BY <3>1, <2>1 DEF Chain
    <3> QED BY <3>2 DEF U
  <2> QED BY <2>1, <1>2
<1> QED BY <1>4, <1>5, <1>6

(* ir_sccp_identity takes one step at a time. *)
LEMMA IdentityStep ==
  ASSUME NEW v, DOMAIN v \subseteq Nat \ {0}, Forest(v), NEW x \in DOMAIN v
  PROVE  Identity(v, x) = IF v[x].op = "COPY" THEN Identity(v, v[x].word) ELSE x
<1> DEFINE Def(f) == f = [z \in DOMAIN v |-> IF v[z].op = "COPY" THEN f[v[z].word] ELSE z]
           follow == CHOOSE f : Def(f)
           End(z) == {y \in Chain(v, z) : v[y].op # "COPY"}
           One(S) == CHOOSE y \in S : TRUE
           root == [z \in DOMAIN v |-> One(End(z))]
<1>1. ASSUME NEW z \in DOMAIN v PROVE Identity(v, z) = follow[z]
  <2>1. z > 0
    OBVIOUS
  <2> QED BY Zenon, <2>1 DEF Identity
<1>2. \A z \in DOMAIN v : v[z].op = "COPY" => v[z].word \in DOMAIN v
  BY DEF Forest
<1>3. ASSUME NEW z \in DOMAIN v PROVE root[z] = IF v[z].op = "COPY" THEN root[v[z].word] ELSE z
  <2>1. CASE v[z].op = "COPY"
    <3>1. End(z) = End(v[z].word)
      BY Zenon, ChainEnds, <2>1
    <3>2. v[z].word \in DOMAIN v
      BY <1>2, <2>1
    <3> HIDE DEF End, One
    <3>3. root[z] = One(End(z)) /\ root[v[z].word] = One(End(v[z].word))
      BY <3>2
    <3> QED BY Zenon, <3>1, <3>3, <2>1
  <2>2. CASE v[z].op # "COPY"
    <3>1. Chain(v, z) = {z}
      BY Zenon, ChainEnds, <2>2
    <3>2. End(z) = {z}
      BY <3>1, <2>2
    <3>3. One({z}) = z
      OBVIOUS
    <3> HIDE DEF End, One
    <3>4. root[z] = One(End(z))
      OBVIOUS
    <3> QED BY Zenon, <3>2, <3>3, <3>4, <2>2
  <2> QED BY <2>1, <2>2
<1>4. Def(root)
  <2>0. DOMAIN root = DOMAIN v /\ root = [z \in DOMAIN root |-> root[z]]
    OBVIOUS
  <2> HIDE DEF root
  <2> DEFINE again == [z \in DOMAIN v |-> IF v[z].op = "COPY" THEN root[v[z].word] ELSE z]
  <2>1. \A z \in DOMAIN v : root[z] = again[z]
    BY <1>3
  <2>2. DOMAIN again = DOMAIN v /\ again = [z \in DOMAIN again |-> again[z]]
    OBVIOUS
  <2> HIDE DEF again
  <2>3. root = again
    BY <2>0, <2>1, <2>2
  <2> USE DEF again
  <2> QED BY Zenon, <2>3
<1>5. Def(follow)
  BY Zenon, <1>4
<1> HIDE DEF follow
<1>6. follow[x] = IF v[x].op = "COPY" THEN follow[v[x].word] ELSE x
  BY Zenon, <1>5
<1> QED BY Zenon, <1>1, <1>2, <1>6

(* A map that agrees with one step along copies is the identity map. *)
LEMMA IdentityUnique ==
  ASSUME NEW v, DOMAIN v \subseteq Nat \ {0}, Forest(v), NEW f,
         \A x \in DOMAIN v : f[x] = IF v[x].op = "COPY" THEN f[v[x].word] ELSE x
  PROVE  \A x \in DOMAIN v : Identity(v, x) = f[x]
<1> DEFINE B == {x \in DOMAIN v : Identity(v, x) # f[x]}
<1>1. SUFFICES ASSUME B # {} PROVE FALSE
  BY Zenon
<1>2. PICK height \in [DOMAIN v -> Nat] :
        \A z \in DOMAIN v : v[z].op = "COPY" => v[z].word \in DOMAIN v /\ height[v[z].word] < height[z]
  BY DEF Forest
<1>3. PICK x \in B : \A y \in B : height[x] <= height[y]
  BY <1>1, <1>2, Lowest
<1>4. Identity(v, x) = IF v[x].op = "COPY" THEN Identity(v, v[x].word) ELSE x
  BY IdentityStep
<1>5. v[x].op = "COPY" /\ v[x].word \in DOMAIN v /\ height[v[x].word] < height[x] /\ height[v[x].word] \in Nat
  BY <1>2, <1>3, <1>4
<1>6. v[x].word \notin B
  BY <1>3, <1>5
<1> QED BY <1>3, <1>4, <1>5, <1>6

(* The identity of x lies in every set that copies do not leave. *)
LEMMA IdentityIn ==
  ASSUME NEW v, DOMAIN v \subseteq Nat \ {0}, Forest(v), NEW T \in SUBSET DOMAIN v,
         \A x \in T : v[x].op = "COPY" => v[x].word \in T
  PROVE  \A x \in T : Identity(v, x) \in T /\ v[Identity(v, x)].op # "COPY"
<1> DEFINE B == {x \in T : ~(Identity(v, x) \in T /\ v[Identity(v, x)].op # "COPY")}
<1>1. SUFFICES ASSUME B # {} PROVE FALSE
  BY Zenon
<1>2. PICK height \in [DOMAIN v -> Nat] :
        \A z \in DOMAIN v : v[z].op = "COPY" => v[z].word \in DOMAIN v /\ height[v[z].word] < height[z]
  BY DEF Forest
<1>3. PICK x \in B : \A y \in B : height[x] <= height[y]
  BY <1>1, <1>2, Lowest
<1>4. Identity(v, x) = IF v[x].op = "COPY" THEN Identity(v, v[x].word) ELSE x
  BY IdentityStep
<1>5. v[x].op = "COPY" /\ v[x].word \in T /\ height[v[x].word] < height[x] /\ height[v[x].word] \in Nat
  BY <1>2, <1>3, <1>4
<1>6. v[x].word \notin B
  BY <1>3, <1>5
<1> QED BY <1>3, <1>4, <1>5, <1>6

-----------------------------------------------------------------------------
(* One field of a cell changes. *)
WithOp(c, o) == [c EXCEPT !.op = o]
WithWord(c, n) == [c EXCEPT !.word = n]
WithVal(c, n) == [c EXCEPT !.val = n]
WithRing(c, R) == [c EXCEPT !.ring = R]

LEMMA OpFacts ==
  ASSUME NEW D, NEW c \in Cells(D), NEW o \in Ops
  PROVE  /\ WithOp(c, o) \in Cells(D) /\ WithOp(c, o).op = o /\ WithOp(c, o).word = c.word
         /\ WithOp(c, o).val = c.val /\ WithOp(c, o).ring = c.ring
BY DEF Cells, WithOp

LEMMA WordFacts ==
  ASSUME NEW D, NEW c \in Cells(D), NEW n \in Nat
  PROVE  /\ WithWord(c, n) \in Cells(D) /\ WithWord(c, n).op = c.op /\ WithWord(c, n).word = n
         /\ WithWord(c, n).val = c.val /\ WithWord(c, n).ring = c.ring
BY DEF Cells, WithWord

LEMMA ValFacts ==
  ASSUME NEW D, NEW c \in Cells(D), NEW n \in Val
  PROVE  /\ WithVal(c, n) \in Cells(D) /\ WithVal(c, n).op = c.op /\ WithVal(c, n).word = c.word
         /\ WithVal(c, n).val = n /\ WithVal(c, n).ring = c.ring
BY DEF Cells, WithVal

LEMMA RingFacts ==
  ASSUME NEW D, NEW c \in Cells(D), NEW R \in SUBSET D
  PROVE  /\ WithRing(c, R) \in Cells(D) /\ WithRing(c, R).op = c.op /\ WithRing(c, R).word = c.word
         /\ WithRing(c, R).val = c.val /\ WithRing(c, R).ring = R
BY DEF Cells, WithRing

(* What the proofs use of a graph that ir_check accepts *)
LEMMA CheckFactsOf ==
  ASSUME NEW h, IrCheck(h)
  PROVE  /\ Refs(h) \subseteq Nat \ {0} /\ 1 \in Refs(h) /\ h.op[1] = "START"
         /\ \A r \in Refs(h) : /\ h.in[r] \in Seq(Int) /\ h.use[r] \in Seq(Refs(h))
                               /\ \A u \in Range(h.use[r]) : u \in Refs(h) /\ h.op[u] # "NOP"
                               /\ \A x \in Range(h.in[r]) : x \in Int /\ (x > 0 => x \in Refs(h) /\ h.op[x] # "NOP")
                               /\ h.op[r] # "PHI" => r \notin Range(h.in[r])
<1> DEFINE n == Len(h.op)
<1>1. Refs(h) = 1 .. n
  BY DEF IrCheck
<1>2. Refs(h) \subseteq Nat \ {0}
  BY <1>1
<1>3. 1 \in Refs(h) /\ h.op[1] = "START"
  BY <1>1 DEF IrCheck
<1>4. ASSUME NEW r \in Refs(h)
      PROVE  /\ h.in[r] \in Seq(Int) /\ h.use[r] \in Seq(Refs(h))
             /\ \A u \in Range(h.use[r]) : h.op[u] # "NOP"
             /\ \A x \in Range(h.in[r]) : x > 0 => x \in Refs(h) /\ h.op[x] # "NOP"
             /\ h.op[r] # "PHI" => r \notin Range(h.in[r])
  BY <1>1 DEF IrCheck
<1>5. ASSUME NEW r \in Refs(h)
      PROVE  /\ \A u \in Range(h.use[r]) : u \in Refs(h)
             /\ \A x \in Range(h.in[r]) : x \in Int
  BY <1>4 DEF Range
<1> QED BY <1>2, <1>3, <1>4, <1>5

LEMMA CheckFacts ==
  ASSUME IrCheck(g)
  PROVE  /\ Refs(g) \subseteq Nat \ {0} /\ 1 \in Refs(g) /\ g.op[1] = "START"
         /\ \A r \in Refs(g) : /\ g.in[r] \in Seq(Int) /\ g.use[r] \in Seq(Refs(g))
                               /\ \A u \in Range(g.use[r]) : u \in Refs(g) /\ g.op[u] # "NOP"
                               /\ \A x \in Range(g.in[r]) : x \in Int /\ (x > 0 => x \in Refs(g) /\ g.op[x] # "NOP")
                               /\ g.op[r] # "PHI" => r \notin Range(g.in[r])
BY CheckFactsOf

(* Where copies lead *)
LEMMA RootFactsOf ==
  ASSUME NEW h, IrCheck(h), NEW v, Typed(h, v), Copies(h, v), Forest(v)
  PROVE  /\ DOMAIN v = Refs(h) /\ DOMAIN v \subseteq Nat \ {0}
         /\ \A x \in Refs(h) : v[x].op # "COPY" => Identity(v, x) = x
         /\ \A x \in Refs(h) : v[x].op = "COPY" => Identity(v, x) = Identity(v, v[x].word)
         /\ \A x \in Refs(h) : Identity(v, x) \in Refs(h) /\ v[Identity(v, x)].op # "COPY"
         /\ \A x \in Refs(h) : v[x].op = "COPY" => x \in Copied(h, v)
         /\ \A x \in Copied(h, v) : /\ Identity(v, x) \in Copied(h, v)
                                    /\ v[Identity(v, x)].op = "BOTTOM"
<1>1. DOMAIN v = Refs(h) /\ DOMAIN v \subseteq Nat \ {0}
  BY CheckFactsOf DEF Typed
<1>2. \A x \in Refs(h) : Identity(v, x) = IF v[x].op = "COPY" THEN Identity(v, v[x].word) ELSE x
  BY <1>1, IdentityStep
<1>3. \A x \in Refs(h) : Identity(v, x) \in Refs(h) /\ v[Identity(v, x)].op # "COPY"
  <2> DEFINE T == Refs(h)
  <2>1. T \in SUBSET DOMAIN v /\ \A x \in T : v[x].op = "COPY" => v[x].word \in T
    BY <1>1 DEF Copies, Copied
  <2> HIDE DEF T
  <2>2. \A x \in T : Identity(v, x) \in T /\ v[Identity(v, x)].op # "COPY"
    BY <1>1, <2>1, IdentityIn
  <2> QED BY <2>2 DEF T
<1>4. \A x \in Copied(h, v) : Identity(v, x) \in Copied(h, v) /\ v[Identity(v, x)].op # "COPY"
  <2> DEFINE T == Copied(h, v)
  <2>1. T \in SUBSET DOMAIN v /\ \A x \in T : v[x].op = "COPY" => v[x].word \in T
    BY <1>1 DEF Copies, Copied
  <2> HIDE DEF T
  <2>2. \A x \in T : Identity(v, x) \in T /\ v[Identity(v, x)].op # "COPY"
    BY <1>1, <2>1, IdentityIn
  <2> QED BY <2>2 DEF T
<1>5. \A x \in Refs(h) : v[x].op = "COPY" => x \in Copied(h, v)
  BY DEF Typed, Lattice, Copied, Valued
<1>6. \A x \in Copied(h, v) : v[x].op \in {"COPY", "BOTTOM"}
  BY DEF Copied
<1> QED BY <1>1, <1>2, <1>3, <1>4, <1>5, <1>6

LEMMA RootFacts ==
  ASSUME IrCheck(g), NEW v, Typed(g, v), Copies(g, v), Forest(v)
  PROVE  /\ DOMAIN v = Refs(g) /\ DOMAIN v \subseteq Nat \ {0}
         /\ \A x \in Refs(g) : v[x].op # "COPY" => Identity(v, x) = x
         /\ \A x \in Refs(g) : v[x].op = "COPY" => Identity(v, x) = Identity(v, v[x].word)
         /\ \A x \in Refs(g) : Identity(v, x) \in Refs(g) /\ v[Identity(v, x)].op # "COPY"
         /\ \A x \in Refs(g) : v[x].op = "COPY" => x \in Copied(g, v)
         /\ \A x \in Copied(g, v) : /\ Identity(v, x) \in Copied(g, v)
                                    /\ v[Identity(v, x)].op = "BOTTOM"
BY RootFactsOf

(* A change that leaves alone what is a copy or BOTTOM, and makes nothing  *)
(* a copy, keeps the circles right.                                        *)
LEMMA CirclesKept ==
  ASSUME IrCheck(g), NEW v, Typed(g, v), Circles(g, v), NEW u, Typed(g, u),
         \A x \in Refs(g) : v[x].op \in {"COPY", "BOTTOM"} => u[x] = v[x],
         \A x \in Refs(g) : v[x].op \notin {"COPY", "BOTTOM"} =>
                              u[x].op # "COPY" /\ (Valued(g, x) => u[x].word \in {0, 1})
  PROVE  Circles(g, u)
<1>1. Words(g, v) /\ Copies(g, v) /\ Forest(v) /\ Rings(g, v)
  BY DEF Circles
<1>2. DOMAIN v = Refs(g) /\ DOMAIN u = Refs(g) /\ Refs(g) \subseteq Nat \ {0} /\ 1 \in Refs(g) /\ ~Valued(g, 1)
  BY CheckFacts DEF Typed, Valued, Data, Load, Foldable, Binary, Unary, Cmp
<1>3. Words(g, u)
  BY <1>1 DEF Words
<1>4. Copies(g, u)
  BY <1>1, <1>2 DEF Copies, Copied
<1>5. Forest(u)
  <2>1. PICK height \in [DOMAIN v -> Nat] :
          \A z \in DOMAIN v : v[z].op = "COPY" => v[z].word \in DOMAIN v /\ height[v[z].word] < height[z]
    BY <1>1 DEF Forest
  <2>2. height \in [DOMAIN u -> Nat] /\
          \A z \in DOMAIN u : u[z].op = "COPY" => u[z].word \in DOMAIN u /\ height[u[z].word] < height[z]
    BY <1>2, <2>1
  <2> QED BY <2>2 DEF Forest
<1>6. \A x \in Refs(g) : Identity(u, x) = Identity(v, x)
  <2> DEFINE f == [x \in Refs(g) |-> Identity(v, x)]
  <2>1. ASSUME NEW x \in DOMAIN u PROVE f[x] = IF u[x].op = "COPY" THEN f[u[x].word] ELSE x
    <3>1. u[x].op = "COPY" => v[x].op = "COPY" /\ u[x].word = v[x].word /\ v[x].word \in Refs(g)
      BY <1>1, <1>2 DEF Copies, Copied
    <3>2. u[x].op # "COPY" => v[x].op # "COPY"
      BY <1>2
    <3>3. x \in Refs(g) /\ f[x] = Identity(v, x) /\ (v[x].op = "COPY" => f[v[x].word] = Identity(v, v[x].word))
      BY <1>2, <3>1, <3>2 DEF Copies, Copied
    <3> QED BY <1>1, <3>1, <3>2, <3>3, RootFacts
  <2> HIDE DEF f
  <2>2. \A x \in DOMAIN u : Identity(u, x) = f[x]
    BY <1>2, <1>5, <2>1, IdentityUnique
  <2> QED BY <1>2, <2>2 DEF f
<1>7. \A r \in Refs(g) : Class(u, r) = Class(v, r)
  BY <1>2, <1>6 DEF Class
<1>8. Rings(g, u)
  <2> SUFFICES ASSUME NEW x \in Refs(g)
               PROVE  /\ u[x].op = "COPY" => u[Identity(u, x)].word = Identity(u, x)
                                             /\ u[x].ring = Class(u, Identity(u, x))
                      /\ Valued(g, x) /\ u[x].op = "BOTTOM" /\ u[x].word = x => u[x].ring = Class(u, x)
    BY Zenon DEF Rings
  <2>1. ASSUME u[x].op = "COPY" PROVE u[Identity(u, x)].word = Identity(u, x) /\ u[x].ring = Class(u, Identity(u, x))
    <3> DEFINE root == Identity(v, x)
    <3>1. v[x].op = "COPY" /\ u[x] = v[x]
      BY <2>1
    <3>2. root \in Refs(g) /\ v[root].op = "BOTTOM"
      BY <1>1, <3>1, RootFacts DEF Copied
    <3>3. v[root].word = root /\ v[x].ring = Class(v, root)
      BY <1>1, <3>1 DEF Rings
    <3>4. Identity(u, x) = root /\ u[root] = v[root] /\ Class(u, root) = Class(v, root)
      BY <1>6, <1>7, <3>2
    <3> HIDE DEF root
    <3> QED BY <3>1, <3>3, <3>4
  <2>2. ASSUME Valued(g, x), u[x].op = "BOTTOM", u[x].word = x PROVE u[x].ring = Class(u, x)
    <3>1. v[x].op = "BOTTOM" /\ u[x] = v[x]
      <4>1. x \notin {0, 1}
        BY <2>2, <1>2
      <4>2. v[x].op \in {"COPY", "BOTTOM"}
        BY <4>1, <2>2
      <4> QED BY <4>2, <2>2
    <3> QED BY <1>1, <1>7, <2>2, <3>1 DEF Rings
  <2> QED BY Zenon, <2>1, <2>2
<1> QED BY <1>3, <1>4, <1>5, <1>8 DEF Circles

(* Knowing more instructions reachable keeps what they wait for. *)
LEMMA ProgressKept ==
  ASSUME IrCheck(g), NEW v, Typed(g, v), Progress(g, v), NEW u, Typed(g, u),
         \A x \in Refs(g) : u[x].op = "TOP" => v[x].op = "TOP",
         \A x \in Refs(g) : g.op[x] \in Foldable \ {"PHI", "NOP"} /\ u[x].op # "TOP" =>
                              v[x].op # "TOP" \/ OperandsKnown(g, v, x),
         \A x \in Refs(g) : u[x].op = "MERGE" =>
                              \/ v[x].op = "MERGE" /\ u[x].word = v[x].word
                              \/ Cardinality(Lost(g, v, x)) <= u[x].word
  PROVE  Progress(g, u)
<1> SUFFICES ASSUME NEW x \in Refs(g)
             PROVE  /\ g.op[x] \in Foldable \ {"PHI", "NOP"} /\ u[x].op # "TOP" => OperandsKnown(g, u, x)
                    /\ u[x].op = "MERGE" => Cardinality(Lost(g, u, x)) <= u[x].word
  BY DEF Progress
<1>1. \A y \in Range(g.in[x]) : y > 0 => y \in Refs(g)
  BY CheckFacts
<1>2. ASSUME g.op[x] \in Foldable \ {"PHI", "NOP"}, u[x].op # "TOP" PROVE OperandsKnown(g, u, x)
  <2>1. OperandsKnown(g, v, x)
    BY <1>2 DEF Progress
  <2> QED BY <1>1, <2>1 DEF OperandsKnown
<1>3. ASSUME u[x].op = "MERGE" PROVE Cardinality(Lost(g, u, x)) <= u[x].word
  <2>1. g.op[x] \in Merge
    BY <1>3 DEF Typed, Lattice
  <2>2. g.in[x] \in Seq(Int) /\ DOMAIN g.in[x] = 1 .. Len(g.in[x]) /\ Len(g.in[x]) \in Nat
    BY CheckFacts
  <2>3. \A k \in DOMAIN g.in[x] : g.in[x][k] \in Refs(g)
    <3>1. \A y \in Range(g.in[x]) : y > 0
      BY <2>1 DEF IrCheck, Refs
    <3> QED BY <1>1, <2>2, <3>1 DEF Range
  <2>4. Lost(g, u, x) \subseteq Lost(g, v, x)
    BY <2>3 DEF Lost
  <2>5. IsFiniteSet(Lost(g, v, x))
    <3>1. IsFiniteSet(1 .. Len(g.in[x]))
      BY <2>2, FS_Interval
    <3>2. Lost(g, v, x) \in SUBSET (1 .. Len(g.in[x]))
      BY <2>2 DEF Lost
    <3> QED BY <3>1, <3>2, FS_Subset
  <2>6. /\ Cardinality(Lost(g, u, x)) <= Cardinality(Lost(g, v, x))
        /\ Cardinality(Lost(g, u, x)) \in Nat /\ Cardinality(Lost(g, v, x)) \in Nat
    <3>1. IsFiniteSet(Lost(g, u, x)) /\ Cardinality(Lost(g, u, x)) <= Cardinality(Lost(g, v, x))
      BY <2>4, <2>5, FS_Subset
    <3> QED BY <2>5, <3>1, FS_CardinalityType
  <2>7. Cardinality(Lost(g, v, x)) <= u[x].word /\ u[x].word \in Nat
    BY <1>3 DEF Progress, Typed, Cells
  <2> QED BY <2>6, <2>7
<1> QED BY <1>2, <1>3

(* ir_sccp_add_identity: dst joins the circle of the identity of src. *)
LEMMA AddIdentityFacts ==
  ASSUME IrCheck(g), NEW v, Typed(g, v), Circles(g, v),
         NEW src \in Copied(g, v), NEW dst \in Refs(g), g.op[dst] \in Data, v[dst].op \in {"TOP", "CONST"}
  PROVE  LET u == AddIdentity(v, src, dst)
         IN /\ Typed(g, u) /\ Circles(g, u)
            /\ \A x \in Refs(g) : u[x].op = (IF x = dst THEN "COPY" ELSE v[x].op) /\ u[x].val = v[x].val
            /\ \A x \in Refs(g) : v[x].op = "MERGE" => u[x].word = v[x].word
<1> DEFINE u == AddIdentity(v, src, dst)
           root == Identity(v, src)
           C == Class(v, root)
<1>1. Words(g, v) /\ Copies(g, v) /\ Forest(v) /\ Rings(g, v)
  BY DEF Circles
<1>2. DOMAIN v = Refs(g) /\ Refs(g) \subseteq Nat \ {0} /\ v \in [Refs(g) -> Cells(Refs(g))]
  BY CheckFacts DEF Typed
<1>3. root \in Copied(g, v) /\ root \in Refs(g) /\ v[root].op = "BOTTOM" /\ root # dst /\ Valued(g, root)
  BY <1>1, RootFacts DEF Copied
<1>4. \A x \in Refs(g) : x \in C <=> Identity(v, x) = root
  BY <1>2 DEF Class
<1>5. C \subseteq Refs(g) /\ root \in C /\ dst \notin C
  <2>1. Identity(v, root) = root /\ Identity(v, dst) = dst
    BY <1>1, <1>3, RootFacts
  <2> QED BY <1>2, <1>3, <2>1 DEF Class
<1>6. (IF v[root].word = root THEN v[root].ring ELSE {root}) = C
  <2>1. CASE v[root].word = root
    BY <1>1, <1>3, <2>1 DEF Rings
  <2>2. CASE v[root].word # root
    <3>1. ASSUME NEW m \in C PROVE m = root
      <4>1. m \in Refs(g) /\ Identity(v, m) = root
        BY <1>4, <1>5
      <4>2. v[m].op # "COPY"
        BY <4>1, <1>1, <2>2 DEF Rings
      <4> QED BY <4>1, <4>2, <1>1, RootFacts
    <3> QED BY <3>1, <1>5, <2>2
  <2> QED BY <2>1, <2>2
<1> HIDE DEF C, root
<1>7. u = SetRing([v EXCEPT ![dst].op = "COPY", ![dst].word = src, ![root].word = root], C \cup {dst})
  BY Zenon, <1>6 DEF AddIdentity, root
<1> HIDE DEF u
<1>8. /\ DOMAIN u = Refs(g)
      /\ \A x \in Refs(g) : /\ u[x] \in Cells(Refs(g))
                            /\ u[x].op = (IF x = dst THEN "COPY" ELSE v[x].op)
                            /\ u[x].word = (IF x = dst THEN src ELSE IF x = root THEN root ELSE v[x].word)
                            /\ u[x].val = v[x].val
                            /\ u[x].ring = (IF x \in C \cup {dst} THEN C \cup {dst} ELSE v[x].ring)
  <2>1. src \in Refs(g) /\ src \in Nat
    BY <1>2 DEF Copied
  <2> DEFINE q == [v EXCEPT ![dst].op = "COPY", ![dst].word = src, ![root].word = root]
  <2>2. /\ DOMAIN q = Refs(g)
        /\ \A x \in Refs(g) : /\ q[x] \in Cells(Refs(g))
                              /\ q[x].op = (IF x = dst THEN "COPY" ELSE v[x].op)
                              /\ q[x].word = (IF x = dst THEN src ELSE IF x = root THEN root ELSE v[x].word)
                              /\ q[x].val = v[x].val /\ q[x].ring = v[x].ring
    <3>1. DOMAIN q = Refs(g) /\ \A x \in Refs(g) : x # dst /\ x # root => q[x] = v[x]
      BY <1>2
    <3>2. q[root] = WithWord(v[root], root)
      BY Zenon, <1>2, <1>3 DEF WithWord
    <3>3. q[dst] = WithWord(WithOp(v[dst], "COPY"), src)
      BY Zenon, <1>2, <1>3 DEF WithWord, WithOp
    <3> HIDE DEF q
    <3>4. \A x \in Refs(g) : v[x] \in Cells(Refs(g))
      BY <1>2
    <3>5. /\ q[root] \in Cells(Refs(g)) /\ q[root].op = v[root].op /\ q[root].word = root
          /\ q[root].val = v[root].val /\ q[root].ring = v[root].ring
      <4>1. root \in Nat /\ v[root] \in Cells(Refs(g))
        BY <1>2, <1>3, <3>4
      <4> QED BY <3>2, <4>1, WordFacts
    <3>6. /\ q[dst] \in Cells(Refs(g)) /\ q[dst].op = "COPY" /\ q[dst].word = src
          /\ q[dst].val = v[dst].val /\ q[dst].ring = v[dst].ring
      <4> DEFINE b == WithOp(v[dst], "COPY")
      <4>1. b \in Cells(Refs(g)) /\ b.op = "COPY" /\ b.val = v[dst].val /\ b.ring = v[dst].ring
        <5>1. "COPY" \in Ops
          BY DEF Ops
        <5> QED BY <3>4, <5>1, OpFacts
      <4>2. q[dst] = WithWord(b, src)
        BY Zenon, <3>3
      <4> HIDE DEF b
      <4> QED BY <2>1, <4>1, <4>2, WordFacts
    <3> QED BY <1>3, <3>1, <3>4, <3>5, <3>6
  <2> HIDE DEF q
  <2>3. u = [x \in DOMAIN q |-> IF x \in C \cup {dst} THEN WithRing(q[x], C \cup {dst}) ELSE q[x]]
    BY Zenon, <1>7 DEF SetRing, WithRing, q
  <2>4. C \cup {dst} \in SUBSET Refs(g)
    BY <1>5
  <2>5. DOMAIN u = Refs(g) /\ \A x \in Refs(g) : u[x] = IF x \in C \cup {dst} THEN WithRing(q[x], C \cup {dst}) ELSE q[x]
    BY <2>2, <2>3
  <2> DEFINE R == C \cup {dst}
  <2>6. ASSUME NEW x \in Refs(g)
        PROVE  /\ WithRing(q[x], R) \in Cells(Refs(g)) /\ WithRing(q[x], R).op = q[x].op
               /\ WithRing(q[x], R).word = q[x].word /\ WithRing(q[x], R).val = q[x].val
               /\ WithRing(q[x], R).ring = R
    BY <2>2, <2>4, RingFacts
  <2> HIDE DEF R
  <2>7. \A x \in Refs(g) : u[x] = IF x \in R THEN WithRing(q[x], R) ELSE q[x]
    BY <2>5 DEF R
  <2>8. /\ DOMAIN u = Refs(g)
        /\ \A x \in Refs(g) : /\ u[x] \in Cells(Refs(g)) /\ u[x].op = q[x].op /\ u[x].word = q[x].word
                              /\ u[x].val = q[x].val /\ u[x].ring = IF x \in R THEN R ELSE q[x].ring
    BY <2>2, <2>5, <2>6, <2>7
  <2> QED BY <2>2, <2>8 DEF R
<1>9. Typed(g, u)
  <2>1. u = [x \in Refs(g) |-> u[x]]
    BY <1>7, <1>8 DEF SetRing
  <2>2. u \in [Refs(g) -> Cells(Refs(g))]
    BY <1>8, <2>1
  <2>3. \A x \in Refs(g) : u[x].op \in Lattice(g.op[x])
    BY <1>8 DEF Typed, Lattice
  <2> QED BY <2>2, <2>3 DEF Typed
<1>10. Words(g, u)
  BY <1>1, <1>3, <1>8 DEF Words
<1>11. \A x \in Refs(g) : v[x].op = "COPY" => v[x].word \in Copied(g, v) /\ v[x].word \in Refs(g) /\ v[x].word # dst
                                                /\ x # root /\ x # dst
  BY <1>1, <1>3 DEF Copies, Copied
<1>12. src \in Refs(g) /\ src # dst
  BY DEF Copied
<1>13. Copies(g, u)
  <2>1. \A x \in Copied(g, v) : x \in Copied(g, u)
    BY <1>8 DEF Copied
  <2> QED BY <1>8, <1>11, <2>1 DEF Copies
<1>14. Forest(u)
  <2>1. PICK height \in [DOMAIN v -> Nat] :
          \A z \in DOMAIN v : v[z].op = "COPY" => v[z].word \in DOMAIN v /\ height[v[z].word] < height[z]
    BY <1>1 DEF Forest
  <2> DEFINE above == [height EXCEPT ![dst] = height[src] + 1]
  <2>2. above \in [DOMAIN u -> Nat] /\ \A z \in Refs(g) : above[z] = IF z = dst THEN height[src] + 1 ELSE height[z]
    BY <1>2, <1>8, <1>12, <2>1
  <2> HIDE DEF above
  <2>3. \A z \in DOMAIN u : u[z].op = "COPY" => u[z].word \in DOMAIN u /\ above[u[z].word] < above[z]
    BY <1>2, <1>8, <1>11, <1>12, <2>1, <2>2
  <2> QED BY <2>2, <2>3 DEF Forest
<1>15. \A x \in Refs(g) : Identity(u, x) = IF x = dst THEN root ELSE Identity(v, x)
  <2> DEFINE f == [x \in Refs(g) |-> IF x = dst THEN root ELSE Identity(v, x)]
  <2>1. ASSUME NEW x \in DOMAIN u PROVE f[x] = IF u[x].op = "COPY" THEN f[u[x].word] ELSE x
    <3>1. CASE x = dst
      BY <1>8, <1>12, <3>1 DEF root
    <3>2. CASE x # dst /\ v[x].op = "COPY"
      <4>1. u[x].op = "COPY" /\ u[x].word = v[x].word
        BY <1>8, <1>11, <3>2
      <4>2. f[x] = Identity(v, x) /\ f[v[x].word] = Identity(v, v[x].word)
        BY <1>8, <1>11, <3>2
      <4>3. Identity(v, x) = Identity(v, v[x].word)
        BY <1>1, <1>8, <3>2, RootFacts
      <4> QED BY <4>1, <4>2, <4>3
    <3>3. CASE x # dst /\ v[x].op # "COPY"
      <4>1. Identity(v, x) = x
        BY <1>1, <1>8, <3>3, RootFacts
      <4> QED BY <1>8, <3>3, <4>1
    <3> QED BY <3>1, <3>2, <3>3
  <2> HIDE DEF f
  <2>2. \A x \in DOMAIN u : Identity(u, x) = f[x]
    BY <1>2, <1>8, <1>14, <2>1, IdentityUnique
  <2> QED BY <1>8, <2>2 DEF f
<1>16. Class(u, root) = C \cup {dst}
  BY <1>4, <1>5, <1>8, <1>15 DEF Class
<1>17. \A r \in Refs(g) : r # root /\ v[r].op = "BOTTOM" => Class(u, r) = Class(v, r)
  <2>1. Identity(v, dst) = dst
    BY <1>1, RootFacts
  <2> QED BY <1>2, <1>8, <1>15, <2>1 DEF Class
<1>18. Rings(g, u)
  <2> SUFFICES ASSUME NEW x \in Refs(g)
               PROVE  /\ u[x].op = "COPY" => u[Identity(u, x)].word = Identity(u, x)
                                             /\ u[x].ring = Class(u, Identity(u, x))
                      /\ Valued(g, x) /\ u[x].op = "BOTTOM" /\ u[x].word = x => u[x].ring = Class(u, x)
    BY Zenon DEF Rings
  <2>1. ASSUME u[x].op = "COPY" PROVE u[Identity(u, x)].word = Identity(u, x) /\ u[x].ring = Class(u, Identity(u, x))
    <3>1. CASE Identity(u, x) = root
      <4>1. x \in C \cup {dst}
        BY <1>4, <1>15, <3>1
      <4> QED BY <1>3, <1>8, <1>16, <3>1, <4>1
    <3>2. CASE Identity(u, x) # root
      <4> DEFINE other == Identity(v, x)
      <4>1. x # dst /\ Identity(u, x) = other /\ v[x].op = "COPY" /\ x \notin C /\ other # root
        BY <1>4, <1>8, <1>15, <2>1, <3>2
      <4>2. other \in Refs(g) /\ v[other].op = "BOTTOM"
        BY <1>1, <4>1, RootFacts
      <4>3. v[other].word = other /\ v[x].ring = Class(v, other)
        BY <1>1, <4>1 DEF Rings
      <4> HIDE DEF other
      <4> QED BY <1>8, <1>17, <4>1, <4>2, <4>3
    <3> QED BY <3>1, <3>2
  <2>2. ASSUME Valued(g, x), u[x].op = "BOTTOM", u[x].word = x PROVE u[x].ring = Class(u, x)
    <3>1. CASE x = root
      BY <1>5, <1>8, <1>16, <3>1
    <3>2. CASE x # root
      <4>1. x # dst /\ v[x].op = "BOTTOM" /\ v[x].word = x
        BY <1>8, <2>2, <3>2
      <4>2. Identity(v, x) = x
        BY <1>1, <4>1, RootFacts
      <4>3. x \notin C
        BY <1>4, <3>2, <4>2
      <4>4. v[x].ring = Class(v, x)
        BY <1>1, <2>2, <4>1 DEF Rings
      <4> QED BY <1>8, <1>17, <3>2, <4>1, <4>3, <4>4
    <3> QED BY <3>1, <3>2
  <2> QED BY Zenon, <2>1, <2>2
<1>19. \A x \in Refs(g) : v[x].op = "MERGE" => u[x].word = v[x].word
  BY <1>3, <1>8
<1> QED BY <1>8, <1>9, <1>10, <1>13, <1>14, <1>18, <1>19 DEF Circles, u

LEMMA SetRingFacts ==
  ASSUME NEW D, NEW v \in [D -> Cells(D)], NEW R \in SUBSET D
  PROVE  /\ SetRing(v, R) \in [D -> Cells(D)]
         /\ \A x \in D : /\ SetRing(v, R)[x].op = v[x].op /\ SetRing(v, R)[x].word = v[x].word
                         /\ SetRing(v, R)[x].val = v[x].val
                         /\ SetRing(v, R)[x].ring = IF x \in R THEN R ELSE v[x].ring
<1> DEFINE u == SetRing(v, R)
<1>1. u = [x \in D |-> IF x \in R THEN WithRing(v[x], R) ELSE v[x]]
  <2>1. DOMAIN v = D
    OBVIOUS
  <2> QED BY Zenon, <2>1 DEF SetRing, WithRing
<1>2. ASSUME NEW x \in D
      PROVE  /\ WithRing(v[x], R) \in Cells(D) /\ WithRing(v[x], R).op = v[x].op
             /\ WithRing(v[x], R).word = v[x].word /\ WithRing(v[x], R).val = v[x].val
             /\ WithRing(v[x], R).ring = R
  BY RingFacts
<1> HIDE DEF u
<1>3. u \in [D -> Cells(D)] /\ \A x \in D : u[x] = IF x \in R THEN WithRing(v[x], R) ELSE v[x]
  BY <1>1, <1>2
<1>4. \A x \in D : /\ u[x].op = v[x].op /\ u[x].word = v[x].word /\ u[x].val = v[x].val
                   /\ u[x].ring = IF x \in R THEN R ELSE v[x].ring
  BY <1>2, <1>3
<1> QED BY <1>3, <1>4 DEF u

(* ir_sccp_split_partition: ref becomes the root of what are still its     *)
(* copies, and the rest of the circle stays with the old root.             *)
LEMMA SplitFacts ==
  ASSUME IrCheck(g), NEW s, s \in [v : [Refs(g) -> Cells(Refs(g))], w : SUBSET Refs(g)],
         Typed(g, s.v), Circles(g, s.v), NEW ref \in Refs(g), s.v[ref].op = "COPY"
  PROVE  LET t == Split(s, ref)
         IN /\ t \in [v : [Refs(g) -> Cells(Refs(g))], w : SUBSET Refs(g)]
            /\ Typed(g, t.v) /\ Circles(g, t.v)
            /\ \A x \in Refs(g) : /\ t.v[x].op = (IF x = ref THEN "BOTTOM" ELSE s.v[x].op)
                                  /\ t.v[x].val = s.v[x].val
                                  /\ x # ref => t.v[x].word = s.v[x].word
            /\ \A m \in t.w : m \in s.w \/ (g.op[m] # "NOP" /\ t.v[m].op # "BOTTOM")
<1> DEFINE v == s.v
           C == v[ref].ring
           old == C \ {ref}
           v1 == [v EXCEPT ![ref].op = "BOTTOM", ![ref].word = ref]
           mine == {m \in old : Identity(v1, m) = ref}
           M == mine \cup {ref}
           O == old \ mine
           u == SetRing(SetRing(v1, M), O)
           again == old \cup UNION {Range(g.use[m]) : m \in old}
           root == Identity(v, ref)
<1>1. Split(s, ref) = [v |-> u, w |-> s.w \cup {m \in again : u[m].op # "BOTTOM"}]
  BY Zenon DEF Split
<1>2. Typed(g, v) /\ Words(g, v) /\ Copies(g, v) /\ Forest(v) /\ Rings(g, v)
  BY DEF Circles
<1>3. DOMAIN v = Refs(g) /\ Refs(g) \subseteq Nat \ {0} /\ v \in [Refs(g) -> Cells(Refs(g))]
  BY CheckFacts
<1> HIDE DEF v
<1>4. v[ref].op = "COPY"
  BY DEF v
<1>5. root \in Refs(g) /\ root # ref /\ v[root].op = "BOTTOM" /\ v[root].word = root /\ C = Class(v, root)
  <2>1. root \in Refs(g) /\ v[root].op = "BOTTOM"
    BY <1>2, <1>4, RootFacts DEF Copied
  <2>2. v[root].word = root /\ C = Class(v, root)
    BY <1>2, <1>4 DEF Rings
  <2> QED BY <1>4, <2>1, <2>2
<1> HIDE DEF C
<1>6. \A x \in Refs(g) : x \in C <=> Identity(v, x) = root
  BY <1>3, <1>5 DEF Class
<1>7. C \subseteq Refs(g) /\ ref \in C /\ root \in C
  <2>1. Identity(v, root) = root
    BY <1>2, <1>5, RootFacts
  <2> QED BY <1>3, <1>5, <2>1 DEF Class
<1>8. /\ v1 \in [Refs(g) -> Cells(Refs(g))]
      /\ \A x \in Refs(g) : /\ v1[x].op = (IF x = ref THEN "BOTTOM" ELSE v[x].op)
                            /\ v1[x].word = (IF x = ref THEN ref ELSE v[x].word)
                            /\ v1[x].val = v[x].val /\ v1[x].ring = v[x].ring
  <2> DEFINE b == WithOp(v[ref], "BOTTOM")
             c == WithWord(b, ref)
  <2>1. v1 = [v EXCEPT ![ref] = c]
    BY Zenon, <1>3 DEF WithOp, WithWord
  <2>2. b \in Cells(Refs(g)) /\ b.op = "BOTTOM" /\ b.val = v[ref].val /\ b.ring = v[ref].ring
    <3>1. "BOTTOM" \in Ops /\ v[ref] \in Cells(Refs(g))
      BY <1>3 DEF Ops
    <3> QED BY <3>1, OpFacts
  <2> HIDE DEF b
  <2>3. c \in Cells(Refs(g)) /\ c.op = "BOTTOM" /\ c.word = ref /\ c.val = v[ref].val /\ c.ring = v[ref].ring
    BY <1>3, <2>2, WordFacts
  <2> HIDE DEF c, v1
  <2> QED BY <1>3, <2>1, <2>3
<1> HIDE DEF v1, root
<1>9. Forest(v1) /\ DOMAIN v1 = Refs(g)
  <2>1. PICK height \in [DOMAIN v -> Nat] :
          \A z \in DOMAIN v : v[z].op = "COPY" => v[z].word \in DOMAIN v /\ height[v[z].word] < height[z]
    BY <1>2 DEF Forest
  <2>2. DOMAIN v1 = Refs(g) /\ height \in [DOMAIN v1 -> Nat] /\
          \A z \in DOMAIN v1 : v1[z].op = "COPY" => v1[z].word \in DOMAIN v1 /\ height[v1[z].word] < height[z]
    BY <1>3, <1>8, <2>1
  <2> QED BY <2>2 DEF Forest
<1>10. \A x \in Refs(g) : v[x].op = "COPY" => v[x].word \in Copied(g, v) /\ v[x].word \in Refs(g)
  BY <1>2 DEF Copies, Copied
<1>11. \A x \in Refs(g) : Identity(v1, x) = IF v1[x].op = "COPY" THEN Identity(v1, v1[x].word) ELSE x
  BY <1>3, <1>9, IdentityStep
<1>12. \A x \in Refs(g) : \/ Identity(v1, x) = ref /\ Identity(v, x) = root
                          \/ Identity(v1, x) = Identity(v, x) /\ Identity(v1, x) # ref
  <2> DEFINE B == {x \in Refs(g) : ~(\/ Identity(v1, x) = ref /\ Identity(v, x) = root
                                     \/ Identity(v1, x) = Identity(v, x) /\ Identity(v1, x) # ref)}
  <2>1. SUFFICES ASSUME B # {} PROVE FALSE
    BY Zenon
  <2>2. PICK height \in [DOMAIN v -> Nat] :
          \A z \in DOMAIN v : v[z].op = "COPY" => v[z].word \in DOMAIN v /\ height[v[z].word] < height[z]
    BY <1>2 DEF Forest
  <2>3. PICK x \in B : \A y \in B : height[x] <= height[y]
    BY <1>3, <2>1, <2>2, Lowest
  <2>4. CASE x = ref
    <3>1. Identity(v1, x) = ref /\ Identity(v, x) = root
      BY <1>8, <1>11, <2>4 DEF root
    <3> QED BY <2>3, <3>1
  <2>5. CASE x # ref /\ v[x].op # "COPY"
    <3>1. Identity(v1, x) = x /\ Identity(v, x) = x
      BY <1>2, <1>8, <1>11, <2>5, RootFacts
    <3> QED BY <2>3, <2>5, <3>1
  <2>6. CASE x # ref /\ v[x].op = "COPY"
    <3> DEFINE w == v[x].word
    <3>1. w \in Refs(g) /\ height[w] < height[x] /\ height[w] \in Nat /\ height[x] \in Nat
      BY <1>3, <1>10, <2>2, <2>6
    <3>2. w \notin B
      BY <2>3, <3>1
    <3>3. Identity(v1, x) = Identity(v1, w) /\ Identity(v, x) = Identity(v, w)
      BY <1>2, <1>8, <1>11, <2>6, RootFacts
    <3> HIDE DEF w
    <3> QED BY <2>3, <3>1, <3>2, <3>3
  <2> QED BY <2>4, <2>5, <2>6
<1>13. M \in SUBSET Refs(g) /\ O \in SUBSET Refs(g)
  BY <1>7
<1>14. \A x \in Refs(g) : x \in M <=> Identity(v1, x) = ref
  <2>1. Identity(v1, ref) = ref
    BY <1>8, <1>11
  <2> QED BY <1>6, <1>12, <2>1
<1>15. \A x \in Refs(g) : x \in O <=> Identity(v1, x) = root
  <2>1. \A x \in Refs(g) : x \in O <=> x \in C /\ Identity(v1, x) # ref
    <3>1. Identity(v1, ref) = ref
      BY <1>8, <1>11
    <3> QED BY <3>1
  <2> QED BY <1>5, <1>6, <1>12, <2>1
<1> HIDE DEF M, O
<1>16. /\ u \in [Refs(g) -> Cells(Refs(g))]
       /\ \A x \in Refs(g) : /\ u[x].op = (IF x = ref THEN "BOTTOM" ELSE v[x].op)
                             /\ u[x].word = (IF x = ref THEN ref ELSE v[x].word)
                             /\ u[x].val = v[x].val
                             /\ u[x].ring = (IF x \in O THEN O ELSE IF x \in M THEN M ELSE v[x].ring)
  <2> DEFINE q == SetRing(v1, M)
  <2>1. /\ q \in [Refs(g) -> Cells(Refs(g))]
        /\ \A x \in Refs(g) : /\ q[x].op = v1[x].op /\ q[x].word = v1[x].word /\ q[x].val = v1[x].val
                              /\ q[x].ring = IF x \in M THEN M ELSE v1[x].ring
    BY <1>8, <1>13, SetRingFacts
  <2> HIDE DEF q
  <2>2. /\ u \in [Refs(g) -> Cells(Refs(g))]
        /\ \A x \in Refs(g) : /\ u[x].op = q[x].op /\ u[x].word = q[x].word /\ u[x].val = q[x].val
                              /\ u[x].ring = IF x \in O THEN O ELSE q[x].ring
    <3>1. u = SetRing(q, O)
      BY DEF q
    <3> QED BY <1>13, <2>1, <3>1, SetRingFacts
  <2> HIDE DEF u
  <2> QED BY <1>8, <2>1, <2>2
<1> HIDE DEF u
<1>17. Valued(g, ref) /\ g.op[ref] \in Data
  BY <1>2, <1>4 DEF Typed, Lattice, Valued
<1>18. Typed(g, u)
  BY <1>2, <1>16, <1>17 DEF Typed, Lattice
<1>19. Words(g, u)
  BY <1>2, <1>16 DEF Words
<1>20. Copies(g, u)
  <2>1. \A x \in Copied(g, v) : x \in Copied(g, u)
    BY <1>16 DEF Copied
  <2> QED BY <1>10, <1>16, <2>1 DEF Copies
<1>21. Forest(u)
  <2>1. PICK height \in [DOMAIN v1 -> Nat] :
          \A z \in DOMAIN v1 : v1[z].op = "COPY" => v1[z].word \in DOMAIN v1 /\ height[v1[z].word] < height[z]
    BY <1>9 DEF Forest
  <2>2. height \in [DOMAIN u -> Nat] /\
          \A z \in DOMAIN u : u[z].op = "COPY" => u[z].word \in DOMAIN u /\ height[u[z].word] < height[z]
    BY <1>8, <1>9, <1>16, <2>1
  <2> QED BY <2>2 DEF Forest
<1>22. \A x \in Refs(g) : Identity(u, x) = Identity(v1, x)
  <2> DEFINE f == [x \in Refs(g) |-> Identity(v1, x)]
  <2>1. ASSUME NEW x \in DOMAIN u PROVE f[x] = IF u[x].op = "COPY" THEN f[u[x].word] ELSE x
    <3>1. x \in Refs(g) /\ u[x].op = v1[x].op /\ u[x].word = v1[x].word
      BY <1>8, <1>16
    <3>2. u[x].op = "COPY" => u[x].word \in Refs(g)
      BY <1>10, <1>16, <3>1
    <3> QED BY <1>11, <3>1, <3>2
  <2> HIDE DEF f
  <2>2. DOMAIN u = Refs(g)
    BY <1>16
  <2>3. \A x \in DOMAIN u : Identity(u, x) = f[x]
    BY <1>3, <1>21, <2>1, <2>2, IdentityUnique
  <2> QED BY <2>2, <2>3 DEF f
<1>23. Class(u, ref) = M /\ Class(u, root) = O
  <2>1. DOMAIN u = Refs(g)
    BY <1>16
  <2> QED BY <1>13, <1>14, <1>15, <1>22, <2>1 DEF Class
<1>24. \A r \in Refs(g) : r # ref /\ r # root => Class(u, r) = Class(v, r)
  <2>1. DOMAIN u = Refs(g)
    BY <1>16
  <2> QED BY <1>3, <1>12, <1>22, <2>1 DEF Class
<1>25. Rings(g, u)
  <2> SUFFICES ASSUME NEW x \in Refs(g)
               PROVE  /\ u[x].op = "COPY" => u[Identity(u, x)].word = Identity(u, x)
                                             /\ u[x].ring = Class(u, Identity(u, x))
                      /\ Valued(g, x) /\ u[x].op = "BOTTOM" /\ u[x].word = x => u[x].ring = Class(u, x)
    BY Zenon DEF Rings
  <2>0. x \in O => x \notin M
    BY <1>5, <1>14, <1>15
  <2>1. ASSUME u[x].op = "COPY" PROVE u[Identity(u, x)].word = Identity(u, x) /\ u[x].ring = Class(u, Identity(u, x))
    <3>1. CASE Identity(u, x) = ref
      <4>1. x \in M /\ x \notin O
        BY <1>14, <1>22, <2>0, <3>1
      <4>2. u[ref].word = ref /\ u[x].ring = M
        BY <1>16, <4>1
      <4> QED BY <1>23, <3>1, <4>2
    <3>2. CASE Identity(u, x) = root
      <4>1. x \in O
        BY <1>15, <1>22, <3>2
      <4>2. u[root].word = root /\ u[x].ring = O
        BY <1>5, <1>16, <4>1
      <4> QED BY <1>23, <3>2, <4>2
    <3>3. CASE Identity(u, x) # ref /\ Identity(u, x) # root
      <4> DEFINE other == Identity(v, x)
      <4>1. Identity(u, x) = other /\ x \notin M /\ x \notin O /\ x # ref /\ v[x].op = "COPY" /\ other # ref /\ other # root
        BY <1>12, <1>14, <1>15, <1>16, <1>22, <2>1, <3>3
      <4>2. other \in Refs(g)
        BY <1>2, RootFacts
      <4>3. v[other].word = other /\ v[x].ring = Class(v, other)
        BY <1>2, <4>1 DEF Rings
      <4> HIDE DEF other
      <4>4. u[other].word = other /\ u[x].ring = v[x].ring /\ Class(u, other) = Class(v, other)
        BY <1>16, <1>24, <4>1, <4>2, <4>3
      <4> QED BY <4>1, <4>3, <4>4
    <3> QED BY <3>1, <3>2, <3>3
  <2>2. ASSUME Valued(g, x), u[x].op = "BOTTOM", u[x].word = x PROVE u[x].ring = Class(u, x)
    <3>1. CASE x = ref
      <4>1. x \in M
        BY <3>1 DEF M
      <4> QED BY <1>16, <1>23, <2>0, <3>1, <4>1
    <3>2. CASE x = root
      <4>1. Identity(v, x) = x /\ Identity(v1, x) = x
        BY <1>2, <1>5, <1>8, <1>11, <3>2, RootFacts
      <4>2. x \in O
        BY <1>15, <3>2, <4>1
      <4> QED BY <1>16, <1>23, <3>2, <4>2
    <3>3. CASE x # ref /\ x # root
      <4>1. v[x].op = "BOTTOM" /\ v[x].word = x
        BY <1>16, <2>2, <3>3
      <4>2. Identity(v, x) = x
        BY <1>2, <4>1, RootFacts
      <4>3. x \notin M /\ x \notin O
        BY <1>12, <1>14, <1>15, <3>3, <4>2
      <4>4. v[x].ring = Class(v, x)
        BY <1>2, <2>2, <4>1 DEF Rings
      <4> QED BY <1>16, <1>24, <3>3, <4>3, <4>4
    <3> QED BY <3>1, <3>2, <3>3
  <2> QED BY Zenon, <2>1, <2>2
<1>26. ASSUME NEW m \in again, u[m].op # "BOTTOM" PROVE m \in Refs(g) /\ g.op[m] # "NOP"
  <2>1. CASE m \in old
    <3>1. m \in Refs(g) /\ m # ref /\ Identity(v, m) = root
      BY <1>6, <1>7, <2>1
    <3>2. v[m].op = "COPY"
      <4>1. m # root
        BY <1>5, <1>16, <1>26
      <4> QED BY <1>2, <3>1, <4>1, RootFacts
    <3>3. g.op[m] \in Data
      BY <1>2, <3>1, <3>2 DEF Typed, Lattice
    <3> QED BY <3>1, <3>3 DEF Data, Foldable, Binary, Unary, Cmp
  <2>2. CASE m \notin old
    <3>1. PICK x \in old : m \in Range(g.use[x])
      BY <1>26, <2>2
    <3> QED BY <1>7, <3>1, CheckFacts
  <2> QED BY <2>1, <2>2
<1> HIDE DEF again
<1> DEFINE t == [v |-> u, w |-> s.w \cup {m \in again : u[m].op # "BOTTOM"}]
<1>27. t.v = u /\ t.w = s.w \cup {m \in again : u[m].op # "BOTTOM"}
  OBVIOUS
<1>28. t \in [v : [Refs(g) -> Cells(Refs(g))], w : SUBSET Refs(g)]
  BY <1>16, <1>26
<1>29. \A m \in t.w : m \in s.w \/ (g.op[m] # "NOP" /\ t.v[m].op # "BOTTOM")
  BY <1>26
<1> HIDE DEF t
<1>30. Split(s, ref) = t
  BY <1>1 DEF t
<1>31. Circles(g, u)
  BY <1>19, <1>20, <1>21, <1>25 DEF Circles
<1>32. \A x \in Refs(g) : /\ u[x].op = (IF x = ref THEN "BOTTOM" ELSE s.v[x].op)
                          /\ u[x].val = s.v[x].val
                          /\ x # ref => u[x].word = s.v[x].word
  BY <1>16 DEF v
<1> QED BY Zenon, <1>18, <1>27, <1>28, <1>29, <1>30, <1>31, <1>32

-----------------------------------------------------------------------------
(* The invariant holds at first, and the lists are right where it holds. *)

LEMMA InitInv == SccpInit => IInv
<1> SUFFICES ASSUME SccpInit PROVE IInv
  OBVIOUS
<1>1. IrCheck(source) /\ g = source /\ work = {1} /\ values = [r \in Refs(source) |-> Top]
  BY ProgramsAssumption DEF SccpInit
<1>2. IrCheck(g) /\ 1 \in Refs(g) /\ g.op[1] = "START" /\ Refs(g) \subseteq Nat \ {0}
  BY <1>1, CheckFacts
<1>3. Top \in Cells(Refs(g)) /\ Top.op = "TOP" /\ Top.word = 0
  BY WidthAssumption DEF Top, Cells, Ops, Val
<1> HIDE DEF Top
<1>4. values \in [Refs(g) -> Cells(Refs(g))] /\ \A r \in Refs(g) : values[r] = Top
  BY <1>1, <1>3
<1>5. Typed(g, values)
  BY <1>3, <1>4 DEF Typed, Lattice
<1>6. \A x \in Refs(g) : values[x].op = "TOP" /\ values[x].word = 0
  BY <1>3, <1>4
<1>7. Words(g, values) /\ Copies(g, values) /\ Rings(g, values)
  BY <1>6 DEF Words, Copies, Rings
<1>8. Forest(values)
  <2> DEFINE height == [x \in Refs(g) |-> 0]
  <2>1. height \in [DOMAIN values -> Nat] /\ \A x \in DOMAIN values : values[x].op # "COPY"
    BY <1>4, <1>6
  <2> QED BY <2>1 DEF Forest
<1>9. Progress(g, values)
  BY <1>6 DEF Progress
<1>10. Queue(g, values, work)
  BY <1>1, <1>2, <1>6 DEF Queue
<1> QED BY <1>1, <1>5, <1>7, <1>8, <1>9, <1>10 DEF IInv, Good, Circles

(* The circular lists are right where the invariant holds. *)
LEMMA InvRings == IInv => RingsMatchIdentities
<1> SUFFICES ASSUME IInv, NEW r \in DOMAIN values, values[r].op = "COPY"
             PROVE  LET root == Identity(values, r)
                    IN /\ values[root].op = "BOTTOM"
                       /\ values[r].ring = {root} \cup {m \in DOMAIN values : values[m].op = "COPY" /\ Identity(values, m) = root}
                       /\ values[root].ring = values[r].ring
  BY DEF RingsMatchIdentities
<1> DEFINE root == Identity(values, r)
           others == {m \in DOMAIN values : values[m].op = "COPY" /\ Identity(values, m) = root}
<1>1. IrCheck(source) /\ Typed(source, values) /\ Copies(source, values) /\ Forest(values) /\ Rings(source, values)
  BY DEF IInv, Good, Circles
<1>2. /\ DOMAIN values = Refs(source)
      /\ \A x \in Refs(source) : values[x].op # "COPY" => Identity(values, x) = x
      /\ \A x \in Refs(source) : Identity(values, x) \in Refs(source) /\ values[Identity(values, x)].op # "COPY"
      /\ \A x \in Refs(source) : values[x].op = "COPY" => x \in Copied(source, values)
      /\ \A x \in Copied(source, values) : /\ Identity(values, x) \in Copied(source, values)
                                           /\ values[Identity(values, x)].op = "BOTTOM"
  BY <1>1, RootFactsOf
<1>3. root \in Refs(source) /\ values[root].op = "BOTTOM" /\ Valued(source, root) /\ Identity(values, root) = root
  BY <1>2 DEF Copied
<1>4. values[root].word = root /\ values[r].ring = Class(values, root)
  BY <1>1, <1>2 DEF Rings
<1>5. values[root].ring = Class(values, root)
  BY <1>1, <1>3, <1>4 DEF Rings
<1>6. Class(values, root) = {root} \cup others
  <2>1. ASSUME NEW m \in DOMAIN values
        PROVE  Identity(values, m) = root <=> m = root \/ m \in others
    BY <1>2, <1>3, <2>1
  <2>2. root \in DOMAIN values /\ others \subseteq DOMAIN values
    BY <1>2, <1>3
  <2> HIDE DEF root, others
  <2> QED BY <2>1, <2>2 DEF Class
<1> QED BY <1>3, <1>4, <1>5, <1>6
=============================================================================
