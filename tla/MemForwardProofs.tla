--------------------------- MODULE MemForwardProofs --------------------------
(***************************************************************************)
(* Load forwarding and dead store elimination leave a well-formed control  *)
(* chain, for programs of any length and any addresses, constants and      *)
(* answers of the alias analysis.                                          *)
(*                                                                         *)
(* WellFormed is nearly inductive; it needs that instructions are numbered *)
(* by their requests and that values have a type of their own.             *)
(***************************************************************************)
EXTENDS MemForward, WellFoundedInduction, TLAPS

Ops == {"LOAD", "STORE", "VLOAD", "VSTORE", "GUARD", "IF", "CALL", "PURE"}
Value == {v \in [root : Int, via : Seq(Type)] : v.via # <<>>}
Insns == [n : Nat, op : Ops, t : Type, a : (DOMAIN Expr) \cup {VAR}, v : Value]

(* The load that v starts from is one of the first j instructions of c *)
Emitted(v, c, j) == v.root > 0 => \E k \in 1 .. j : IsLoad(c[k]) /\ c[k].n = v.root

(* The control chain c of a program of m requests *)
Chain(c, m) ==
    /\ c \in Seq(Insns)
    /\ \A j \in 1 .. Len(c) : c[j].n \in 1 .. m
    /\ \A j, k \in 1 .. Len(c) : j < k => c[j].n < c[k].n
    /\ \A j \in 1 .. Len(c) : Emitted(c[j].v, c, j - 1)
    /\ \A j \in 1 .. Len(c) : IsStore(c[j]) => TypeOf(c[j].v) = c[j].t

Requests ==
    /\ addrs \in AddrSets /\ folding \in BOOLEAN
    /\ prog \in Seq(Insns) /\ Len(prog) <= Steps
    /\ \A k \in 1 .. Len(prog) : prog[k].n = k
    /\ \A k \in 1 .. Len(prog) : prog[k].op \in {"LOAD", "STORE"} => prog[k].a \in addrs

IInv ==
    /\ Requests
    /\ Chain(code, Len(prog)) /\ Len(code) <= Len(prog)
    /\ ret \in Seq(Value) /\ Len(ret) = Len(prog)
    /\ \A n \in 1 .. Len(ret) : Emitted(ret[n], code, Len(code))

-----------------------------------------------------------------------------
(* A set of numbers that holds 0, and the successor of each member below   *)
(* the bound, holds all numbers up to the bound.                           *)
LEMMA SetInduction ==
  ASSUME NEW N \in Nat, NEW S, 0 \in S, \A n \in 0 .. N - 1 : n \in S => n + 1 \in S
  PROVE  \A n \in 0 .. N : n \in S
<1> DEFINE T == {n \in 0 .. N : n \notin S}
<1>1. SUFFICES ASSUME T # {} PROVE FALSE
  BY Zenon
<1>2. T \subseteq Nat
  OBVIOUS
<1>3. PICK m \in T : \A k \in T : <<k, m>> \notin OpToRel(<, Nat)
  BY Zenon, <1>1, <1>2, WFMin, NatLessThanWellFounded
<1>4. m \in Nat /\ m # 0 /\ m <= N
  OBVIOUS
<1>5. m - 1 \notin T
  <2>1. m - 1 \in Nat /\ m \in Nat /\ m - 1 < m
    BY <1>4
  <2>2. <<m - 1, m>> \in OpToRel(<, Nat)
    BY Zenon, <2>1 DEF OpToRel
  <2> QED BY Zenon, <2>2, <1>3
<1>6. m - 1 \in S
  BY <1>4, <1>5
<1> QED BY <1>4, <1>6

(* A set of numbers up to N has a largest one *)
LEMMA MaxIn ==
  ASSUME NEW N \in Nat, NEW S \in SUBSET (0 .. N), 0 \in S
  PROVE  Max(S) \in S
<1> DEFINE T == {n \in 0 .. N : N - n \in S}
<1>1. T \subseteq Nat /\ N \in T
  OBVIOUS
<1>2. PICK m \in T : \A k \in T : <<k, m>> \notin OpToRel(<, Nat)
  BY Zenon, <1>1, WFMin, NatLessThanWellFounded
<1>3. ASSUME NEW y \in S PROVE N - m >= y
  <2>1. N - y \in T /\ N - y \in Nat /\ m \in Nat /\ y \in Nat
    OBVIOUS
  <2>2. ~(N - y < m)
    BY Zenon, <1>2, <2>1 DEF OpToRel
  <2> QED BY <2>1, <2>2
<1>4. \E x \in S : \A y \in S : x >= y
  BY <1>3
<1> QED BY Zenon, <1>4 DEF Max

(* Conversions keep the root of a value *)
LEMMA ConvertFacts ==
  ASSUME NEW v \in Value, NEW t \in Type
  PROVE  Convert(v, t) \in Value /\ Convert(v, t).root = v.root /\ TypeOf(Convert(v, t)) = t
<1>1. v \in [root : Int, via : Seq(Type)] /\ v.via # <<>>
  BY DEF Value
<1>2. CASE TypeOf(v) = t
  BY <1>2 DEF Convert
<1>3. CASE TypeOf(v) # t /\ v.root < 0
  <2> DEFINE s == <<t>>
  <2>1. Convert(v, t) = [root |-> v.root, via |-> s]
    BY <1>3 DEF Convert, Const
  <2>2. s \in Seq(Type) /\ s # <<>> /\ s[Len(s)] = t
    OBVIOUS
  <2> HIDE DEF s
  <2> QED BY <1>1, <2>1, <2>2 DEF Value, TypeOf, Last
<1>4. CASE TypeOf(v) # t /\ ~(v.root < 0)
  <2> DEFINE s == Append(v.via, t)
  <2>1. Convert(v, t) = [v EXCEPT !.via = s]
    BY <1>4 DEF Convert
  <2>2. s \in Seq(Type) /\ s # <<>> /\ s[Len(s)] = t
    BY <1>1
  <2> HIDE DEF s
  <2> QED BY <1>1, <2>1, <2>2 DEF Value, TypeOf, Last
<1> QED BY <1>2, <1>3, <1>4

LEMMA SubstFacts ==
  ASSUME NEW v \in Value, NEW n, NEW w \in Value
  PROVE  /\ Subst(v, n, w) \in Value
         /\ TypeOf(Subst(v, n, w)) = TypeOf(v)
         /\ Subst(v, n, w).root = IF v.root = n THEN w.root ELSE v.root
<1> DEFINE N == Len(v.via)
           Def(f) == f = [k \in 0 .. N |-> IF k = 0 THEN w ELSE Convert(f[k - 1], v.via[k])]
           converted == CHOOSE f : Def(f)
<1>1. Subst(v, n, w) = IF v.root = n THEN converted[N] ELSE v
  BY Zenon DEF Subst
<1>2. v.via \in Seq(Type) /\ N \in Nat /\ N >= 1 /\ \A k \in 1 .. N : v.via[k] \in Type
  BY DEF Value
<1>3. TypeOf(v) = v.via[N]
  BY DEF TypeOf, Last
<1> HIDE DEF N
<1>4. \E f : Def(f)
  <2> DEFINE Upto(f, m) == /\ f \in [0 .. m -> Value]
                           /\ f[0] = w
                           /\ \A k \in 1 .. m : f[k] = Convert(f[k - 1], v.via[k])
             S == {m \in 0 .. N : \E f : Upto(f, m)}
  <2>1. 0 \in S
    <3>1. Upto([k \in 0 .. 0 |-> w], 0)
      OBVIOUS
    <3>2. 0 \in 0 .. N
      BY <1>2
    <3> QED BY Zenon, <3>1, <3>2
  <2>2. ASSUME NEW m \in 0 .. N - 1, m \in S PROVE m + 1 \in S
    <3>1. PICK f : Upto(f, m)
      BY <2>2
    <3> DEFINE c == Convert(f[m], v.via[m + 1])
               g == [k \in 0 .. m + 1 |-> IF k <= m THEN f[k] ELSE c]
    <3>2. c \in Value
      <4>1. f[m] \in Value
        BY <3>1
      <4>2. v.via[m + 1] \in Type
        BY <1>2
      <4> QED BY <4>1, <4>2, ConvertFacts
    <3> HIDE DEF c
    <3>3. g \in [0 .. m + 1 -> Value] /\ g[0] = w
      BY <3>1, <3>2
    <3>4. ASSUME NEW k \in 1 .. m + 1 PROVE g[k] = Convert(g[k - 1], v.via[k])
      <4>1. CASE k <= m
        BY <3>1, <4>1
      <4>2. CASE k = m + 1
        <5>1. g[k] = c /\ k - 1 = m /\ g[k - 1] = f[m]
          BY <4>2
        <5> HIDE DEF g
        <5> QED BY <4>2, <5>1 DEF c
      <4> QED BY <4>1, <4>2
    <3>5. m + 1 \in 0 .. N
      BY <1>2
    <3>6. Upto(g, m + 1)
      BY Zenon, <3>3, <3>4
    <3> HIDE DEF Upto, g
    <3> QED BY Zenon, <3>5, <3>6
  <2>3. N \in S
    <3> HIDE DEF S
    <3>1. N \in Nat /\ N \in 0 .. N
      BY <1>2
    <3> QED BY Zenon, <2>1, <2>2, <3>1, SetInduction
  <2>4. PICK f : Upto(f, N)
    BY <2>3
  <2>5. Def(f)
    BY <1>2, <2>4
  <2> QED BY <2>5
<1>5. Def(converted)
  <2> HIDE DEF Def
  <2> QED BY Zenon, <1>4
<1> HIDE DEF converted
<1>6. converted[0] = w /\ \A k \in 1 .. N : converted[k] = Convert(converted[k - 1], v.via[k])
  BY <1>2, <1>5
<1> HIDE DEF Def
<1> DEFINE R == {k \in 0 .. N : converted[k] \in Value /\ converted[k].root = w.root}
<1>7. 0 \in R
  BY <1>2, <1>6
<1>8. ASSUME NEW k \in 0 .. N - 1, k \in R PROVE k + 1 \in R
  <2>1. k + 1 \in 1 .. N /\ converted[k + 1] = Convert(converted[k], v.via[k + 1])
    BY <1>2, <1>6
  <2>2. converted[k] \in Value /\ v.via[k + 1] \in Type /\ k + 1 \in 0 .. N
    BY <1>2, <1>8, <2>1
  <2>3. converted[k + 1] \in Value /\ converted[k + 1].root = converted[k].root
    BY <2>1, <2>2, ConvertFacts
  <2> QED BY <1>8, <2>2, <2>3
<1>9. N \in R /\ N - 1 \in R
  <2> HIDE DEF R
  <2>1. N \in Nat /\ N \in 0 .. N /\ N - 1 \in 0 .. N
    BY <1>2
  <2> QED BY Zenon, <1>7, <1>8, <2>1, SetInduction
<1>10. converted[N] = Convert(converted[N - 1], v.via[N])
  BY <1>2, <1>6
<1>11. TypeOf(converted[N]) = v.via[N]
  BY <1>2, <1>9, <1>10, ConvertFacts
<1> QED BY <1>1, <1>3, <1>9, <1>11

-----------------------------------------------------------------------------
(* A walk up the chain ends at an instruction that settles the question,   *)
(* or at none.                                                             *)
LEMMA LastOfFacts ==
  ASSUME NEW c \in Seq(Insns), NEW P
  PROVE  LastOf(c, P) \in 0 .. Len(c) /\ (LastOf(c, P) > 0 => c[LastOf(c, P)] \in P)
<1> DEFINE S == {0} \cup {j \in 1 .. Len(c) : c[j] \in P}
<1>1. Len(c) \in Nat /\ S \in SUBSET (0 .. Len(c)) /\ 0 \in S
  OBVIOUS
<1>2. LastOf(c, P) \in S
  <2> HIDE DEF S
  <2>1. Max(S) \in S
    BY <1>1, MaxIn
  <2> QED BY <2>1 DEF S, LastOf
<1> QED BY <1>2

LEMMA LoadedIs ==
  ASSUME NEW n \in Nat, NEW t \in Type
  PROVE  Loaded(n, t) \in Value /\ Loaded(n, t).root = n /\ TypeOf(Loaded(n, t)) = t
<1> DEFINE s == <<t>>
<1>1. s \in Seq(Type) /\ s # <<>> /\ s[Len(s)] = t
  OBVIOUS
<1>2. Loaded(n, t) = [root |-> n, via |-> s]
  BY DEF Loaded
<1> HIDE DEF s
<1> QED BY <1>1, <1>2 DEF Value, TypeOf, Last

LEMMA NoValueIs == NoValue \in Value /\ NoValue.root = 0
<1> DEFINE s == <<"I1">>
<1>1. s \in Seq(Type) /\ s # <<>>
  BY DEF Type
<1>2. NoValue = [root |-> 0, via |-> s]
  BY DEF NoValue
<1> HIDE DEF s
<1> QED BY <1>1, <1>2 DEF Value

(* The value found for a load: a load on the chain, or the operand of a    *)
(* store on the chain.                                                     *)
LEMMA FoundValue ==
  ASSUME NEW m, NEW c, Chain(c, m), NEW j \in 1 .. Len(c)
  PROVE  /\ IsLoad(c[j]) => /\ Loaded(c[j].n, c[j].t) \in Value
                            /\ Emitted(Loaded(c[j].n, c[j].t), c, Len(c))
         /\ c[j].v \in Value /\ Emitted(c[j].v, c, Len(c))
<1>1. c[j] \in Insns /\ c \in Seq(Insns) /\ Len(c) \in Nat
  BY DEF Chain
<1>2. c[j].n \in Nat /\ c[j].t \in Type /\ c[j].v \in Value
  BY <1>1 DEF Insns
<1>3. Emitted(c[j].v, c, j - 1)
  BY DEF Chain
<1>4. Emitted(c[j].v, c, Len(c))
  BY <1>1, <1>3 DEF Emitted
<1>5. ASSUME IsLoad(c[j]) PROVE Emitted(Loaded(c[j].n, c[j].t), c, Len(c))
  BY <1>2, <1>5, LoadedIs DEF Emitted
<1> QED BY <1>2, <1>4, <1>5, LoadedIs

LEMMA FindLoadFacts ==
  ASSUME NEW m, NEW c, Chain(c, m), NEW i
  PROVE  FindLoad(c, i) \in Value /\ Emitted(FindLoad(c, i), c, Len(c))
<1>1. c \in Seq(Insns)
  BY DEF Chain
<1>2. NoValue \in Value /\ Emitted(NoValue, c, Len(c))
  BY NoValueIs DEF Emitted
<1>3. CASE i.op = "LOAD"
  <2> DEFINE same(x) == x.op \in {"LOAD", "STORE"} /\ x.a = i.a
             stops(x) == \/ same(x) /\ (x.op = "STORE" \/ Feeds(x.t, i.t))
                         \/ x.op = "STORE" /\ Alias(i.a, x.a, i.t, x.t) # "NO"
                         \/ x.op \in {"CALL", "VSTORE"}
             j == LastOf(c, {x \in Range(c) : stops(x)})
  <2>1. FindLoad(c, i) = IF j > 0 /\ same(c[j]) /\ Feeds(c[j].t, i.t)
                           THEN IF c[j].op = "LOAD" THEN Loaded(c[j].n, c[j].t) ELSE c[j].v
                           ELSE NoValue
    BY Zenon, <1>3 DEF FindLoad, ir_find_aliasing_load
  <2>2. j \in 0 .. Len(c)
    <3> HIDE DEF stops
    <3> QED BY <1>1, LastOfFacts
  <2> HIDE DEF j
  <2>3. j > 0 => j \in 1 .. Len(c)
    BY <1>1, <2>2
  <2>4. c[j].op = "LOAD" => IsLoad(c[j])
    BY DEF IsLoad
  <2> QED BY <1>2, <2>1, <2>3, <2>4, FoundValue
<1>4. CASE i.op # "LOAD"
  <2> DEFINE stops(x) == \/ x.op = "VLOAD" /\ Feeds(x.t, i.t)
                         \/ x.op \in {"VSTORE", "CALL", "STORE"}
             j == LastOf(c, {x \in Range(c) : stops(x)})
  <2>1. FindLoad(c, i) = IF j > 0 /\ c[j].op \in {"VLOAD", "VSTORE"} /\ Feeds(c[j].t, i.t)
                           THEN IF c[j].op = "VLOAD" THEN Loaded(c[j].n, c[j].t) ELSE c[j].v
                           ELSE NoValue
    BY Zenon, <1>4 DEF FindLoad, ir_find_aliasing_vload
  <2>2. j \in 0 .. Len(c)
    <3> HIDE DEF stops
    <3> QED BY <1>1, LastOfFacts
  <2> HIDE DEF j
  <2>3. j > 0 => j \in 1 .. Len(c)
    BY <1>1, <2>2
  <2>4. c[j].op = "VLOAD" => IsLoad(c[j])
    BY DEF IsLoad
  <2> QED BY <1>2, <2>1, <2>3, <2>4, FoundValue
<1> QED BY <1>3, <1>4

(* A store makes only another store superfluous *)
LEMMA FindStoreFacts ==
  ASSUME NEW c \in Seq(Insns), NEW i
  PROVE  /\ FindStore(c, i).kill \in 0 .. Len(c)
         /\ FindStore(c, i).kill > 0 => IsStore(c[FindStore(c, i).kill])
<1>1. CASE i.op = "STORE"
  <2> DEFINE stops(x) == \/ /\ x.op \in {"LOAD", "STORE"}
                            /\ x.a = i.a \/ Alias(i.a, x.a, TypeOf(i.v), x.t) # "NO"
                         \/ x.op \in {"IF", "CALL", "PURE"}
             j == LastOf(c, {x \in Range(c) : stops(x)})
             over == j > 0 /\ c[j].op = "STORE" /\ c[j].a = i.a /\ c[j].t = TypeOf(i.v)
  <2>1. FindStore(c, i).kill = IF over /\ ~Guarded(c, j) THEN j ELSE 0
    BY <1>1 DEF FindStore, ir_find_aliasing_store
  <2>2. j \in 0 .. Len(c)
    <3> HIDE DEF stops
    <3> QED BY LastOfFacts
  <2> HIDE DEF j
  <2> QED BY <2>1, <2>2 DEF IsStore
<1>2. CASE i.op # "STORE"
  <2> DEFINE stops(x) == IsLoad(x) \/ IsStore(x) \/ x.op \in {"IF", "CALL", "PURE"}
             j == LastOf(c, {x \in Range(c) : stops(x)})
             over == j > 0 /\ c[j].op = "VSTORE"
  <2>1. FindStore(c, i).kill = IF over /\ ~Guarded(c, j) THEN j ELSE 0
    BY <1>2 DEF FindStore, ir_find_aliasing_vstore
  <2>2. j \in 0 .. Len(c)
    <3> HIDE DEF stops
    <3> QED BY LastOfFacts
  <2> HIDE DEF j
  <2> QED BY <2>1, <2>2 DEF IsStore
<1> QED BY <1>1, <1>2

-----------------------------------------------------------------------------
(* Edits of the chain *)
LEMMA RemoveAtIs ==
  ASSUME NEW S, NEW c \in Seq(S), NEW j \in 1 .. Len(c)
  PROVE  /\ RemoveAt(c, j) \in Seq(S) /\ Len(RemoveAt(c, j)) = Len(c) - 1
         /\ \A k \in 1 .. Len(c) - 1 : RemoveAt(c, j)[k] = IF k < j THEN c[k] ELSE c[k + 1]
<1> DEFINE a == SubSeq(c, 1, j - 1)
           b == SubSeq(c, j + 1, Len(c))
<1>1. /\ a \in Seq(S) /\ Len(a) = j - 1 /\ \A k \in 1 .. j - 1 : a[k] = c[k]
  OBVIOUS
<1>2. b \in Seq(S) /\ Len(b) = Len(c) - j
  OBVIOUS
<1>3. \A k \in 1 .. Len(c) - j : b[k] = c[k + j]
  OBVIOUS
<1> HIDE DEF a, b
<1>4. a \o b \in Seq(S) /\ Len(a \o b) = Len(c) - 1
  <2>1. a \in Seq(S) /\ b \in Seq(S) /\ Len(a) = j - 1 /\ Len(b) = Len(c) - j
    BY Zenon, <1>1, <1>2
  <2>2. a \o b \in Seq(S)
    BY <2>1
  <2>3. Len(a \o b) = Len(a) + Len(b)
    BY <2>1
  <2>4. Len(c) \in Nat /\ j \in Nat
    OBVIOUS
  <2> QED BY <2>1, <2>2, <2>3, <2>4
<1>5. ASSUME NEW k \in 1 .. Len(c) - 1 PROVE (a \o b)[k] = IF k < j THEN c[k] ELSE c[k + 1]
  <2>1. k \in 1 .. Len(a) + Len(b)
    BY <1>1, <1>2
  <2>2. (a \o b)[k] = IF k <= Len(a) THEN a[k] ELSE b[k - Len(a)]
    BY <1>1, <1>2, <2>1
  <2>3. CASE k < j
    BY <1>1, <2>2, <2>3
  <2>4. CASE ~(k < j)
    <3>1. k - Len(a) \in 1 .. Len(c) - j /\ (k - Len(a)) + j = k + 1 /\ ~(k <= Len(a))
      BY <1>1, <2>4
    <3>2. b[k - Len(a)] = c[k + 1]
      BY <1>3, <3>1
    <3> QED BY <2>2, <2>4, <3>1, <3>2
  <2> QED BY Zenon, <2>3, <2>4
<1> QED BY <1>4, <1>5 DEF RemoveAt, a, b

(* An instruction for the next request is appended *)
LEMMA AppendInsn ==
  ASSUME NEW m \in Nat, NEW c, Chain(c, m), NEW i \in Insns, i.n = m + 1,
         Emitted(i.v, c, Len(c)), IsStore(i) => TypeOf(i.v) = i.t
  PROVE  /\ Chain(Append(c, i), m + 1) /\ Len(Append(c, i)) = Len(c) + 1
         /\ \A v : Emitted(v, c, Len(c)) => Emitted(v, Append(c, i), Len(c) + 1)
         /\ Append(c, i)[Len(c) + 1] = i
<1> DEFINE d == Append(c, i)
<1>1. c \in Seq(Insns) /\ Len(c) \in Nat
  BY DEF Chain
<1>2. /\ d \in Seq(Insns) /\ Len(d) = Len(c) + 1 /\ d[Len(c) + 1] = i
      /\ \A k \in 1 .. Len(c) : d[k] = c[k]
  BY <1>1
<1> HIDE DEF d
<1>3. \A k \in 1 .. Len(d) : k \in 1 .. Len(c) \/ (k = Len(c) + 1 /\ d[k] = i)
  BY <1>1, <1>2
<1>4. \A j \in 1 .. Len(d) : d[j].n \in 1 .. m + 1
  BY <1>1, <1>2, <1>3 DEF Chain
<1>5. \A j, k \in 1 .. Len(d) : j < k => d[j].n < d[k].n
  <2> SUFFICES ASSUME NEW j \in 1 .. Len(d), NEW k \in 1 .. Len(d), j < k PROVE d[j].n < d[k].n
    OBVIOUS
  <2>1. j \in 1 .. Len(c)
    BY <1>1, <1>2
  <2>2. CASE k \in 1 .. Len(c)
    BY SMTT(30), <1>2, <2>1, <2>2 DEF Chain
  <2>3. CASE k = Len(c) + 1
    <3>1. c[j].n \in 1 .. m
      BY <2>1 DEF Chain
    <3> QED BY <1>2, <2>1, <2>3, <3>1
  <2> QED BY <1>3, <2>2, <2>3
<1>6. \A j \in 1 .. Len(d) : Emitted(d[j].v, d, j - 1)
  <2> SUFFICES ASSUME NEW j \in 1 .. Len(d), d[j].v.root > 0
               PROVE  \E k \in 1 .. j - 1 : IsLoad(d[k]) /\ d[k].n = d[j].v.root
    BY DEF Emitted
  <2>1. CASE j \in 1 .. Len(c)
    <3>1. PICK k \in 1 .. j - 1 : IsLoad(c[k]) /\ c[k].n = c[j].v.root
      BY <1>2, <2>1 DEF Chain, Emitted
    <3>2. k \in 1 .. Len(c)
      BY <1>1, <2>1
    <3> QED BY <1>2, <2>1, <3>1, <3>2
  <2>2. CASE j = Len(c) + 1
    <3>1. PICK k \in 1 .. Len(c) : IsLoad(c[k]) /\ c[k].n = i.v.root
      BY <1>2, <2>2 DEF Emitted
    <3>2. k \in 1 .. j - 1
      BY <1>1, <2>2
    <3> QED BY <1>2, <2>2, <3>1, <3>2
  <2> QED BY <1>3, <2>1, <2>2
<1>7. \A j \in 1 .. Len(d) : IsStore(d[j]) => TypeOf(d[j].v) = d[j].t
  BY <1>2, <1>3 DEF Chain
<1>8. \A v : Emitted(v, c, Len(c)) => Emitted(v, d, Len(c) + 1)
  <2> SUFFICES ASSUME NEW v, Emitted(v, c, Len(c)), v.root > 0
               PROVE  \E k \in 1 .. Len(c) + 1 : IsLoad(d[k]) /\ d[k].n = v.root
    BY DEF Emitted
  <2>1. PICK k \in 1 .. Len(c) : IsLoad(c[k]) /\ c[k].n = v.root
    BY DEF Emitted
  <2>2. k \in 1 .. Len(c) + 1
    BY <1>1
  <2> QED BY <1>2, <2>1, <2>2
<1>9. Chain(d, m + 1)
  BY <1>2, <1>4, <1>5, <1>6, <1>7 DEF Chain
<1> QED BY <1>2, <1>8, <1>9 DEF d

(* A store is taken off the chain *)
LEMMA RemoveStore ==
  ASSUME NEW m \in Nat, NEW c, Chain(c, m), NEW j \in 1 .. Len(c), IsStore(c[j])
  PROVE  /\ Chain(RemoveAt(c, j), m) /\ Len(RemoveAt(c, j)) = Len(c) - 1
         /\ \A v : Emitted(v, c, Len(c)) => Emitted(v, RemoveAt(c, j), Len(c) - 1)
<1> DEFINE d == RemoveAt(c, j)
           Up(k) == IF k < j THEN k ELSE k + 1
<1>1. c \in Seq(Insns) /\ Len(c) \in Nat /\ j \in Nat /\ ~IsLoad(c[j])
  BY DEF Chain, IsStore, IsLoad
<1>2. /\ d \in Seq(Insns) /\ Len(d) = Len(c) - 1
      /\ \A k \in 1 .. Len(d) : d[k] = IF k < j THEN c[k] ELSE c[k + 1]
  BY <1>1, RemoveAtIs
<1> HIDE DEF d
<1>3. /\ \A k \in 1 .. Len(d) : Up(k) \in 1 .. Len(c) /\ d[k] = c[Up(k)]
      /\ \A k, l \in 1 .. Len(d) : k < l => Up(k) < Up(l)
  BY <1>1, <1>2
(* the new place of what was at k *)
<1>4. \A k \in 1 .. Len(c) : k # j => \E l \in 1 .. Len(d) : l <= k /\ (k > j => l < k) /\ d[l] = c[k]
  <2> SUFFICES ASSUME NEW k \in 1 .. Len(c), k # j
               PROVE  \E l \in 1 .. Len(d) : l <= k /\ (k > j => l < k) /\ d[l] = c[k]
    OBVIOUS
  <2>1. CASE k < j
    BY <1>1, <1>2, <2>1
  <2>2. CASE k > j
    <3>1. k - 1 \in 1 .. Len(d) /\ ~(k - 1 < j) /\ (k - 1) + 1 = k /\ k - 1 < k
      BY <1>1, <1>2, <2>2
    <3>2. d[k - 1] = c[k]
      BY <1>2, <3>1
    <3> QED BY <3>1, <3>2
  <2> QED BY <1>1, <2>1, <2>2
<1>5. \A k \in 1 .. Len(d) : d[k].n \in 1 .. m
  BY <1>3 DEF Chain
<1>6. \A k, l \in 1 .. Len(d) : k < l => d[k].n < d[l].n
  BY <1>3 DEF Chain
<1>7. \A k \in 1 .. Len(d) : Emitted(d[k].v, d, k - 1)
  <2> SUFFICES ASSUME NEW k \in 1 .. Len(d), d[k].v.root > 0
               PROVE  \E l \in 1 .. k - 1 : IsLoad(d[l]) /\ d[l].n = d[k].v.root
    BY DEF Emitted
  <2>1. Up(k) \in 1 .. Len(c) /\ d[k] = c[Up(k)]
    BY <1>3
  <2>2. PICK e \in 1 .. Up(k) - 1 : IsLoad(c[e]) /\ c[e].n = d[k].v.root
    BY <2>1 DEF Chain, Emitted
  <2>3. e \in 1 .. Len(c) /\ e # j
    BY <1>1, <2>1, <2>2
  <2>4. PICK l \in 1 .. Len(d) : l <= e /\ (e > j => l < e) /\ d[l] = c[e]
    BY <1>4, <2>3
  <2>5. e < Up(k) /\ e \in Nat /\ l \in Nat /\ k \in Nat
    BY <1>1, <1>2, <2>1, <2>2
  <2>6. l \in 1 .. k - 1
    BY <1>1, <2>3, <2>4, <2>5
  <2> QED BY <2>2, <2>4, <2>6
<1>8. \A k \in 1 .. Len(d) : IsStore(d[k]) => TypeOf(d[k].v) = d[k].t
  BY <1>3 DEF Chain
<1>9. \A v : Emitted(v, c, Len(c)) => Emitted(v, d, Len(d))
  <2> SUFFICES ASSUME NEW v, Emitted(v, c, Len(c)), v.root > 0
               PROVE  \E k \in 1 .. Len(d) : IsLoad(d[k]) /\ d[k].n = v.root
    BY DEF Emitted
  <2>1. PICK k \in 1 .. Len(c) : IsLoad(c[k]) /\ c[k].n = v.root
    BY DEF Emitted
  <2>2. k # j
    BY <1>1, <2>1
  <2> QED BY <1>4, <2>1, <2>2
<1>10. Chain(d, m)
  BY <1>2, <1>5, <1>6, <1>7, <1>8 DEF Chain
<1> QED BY <1>2, <1>9, <1>10 DEF d

(* A load is taken off the chain, and w, which was there before it, is put *)
(* in its place.                                                           *)
Replaced(c, j, w) ==
    LET rest == RemoveAt(c, j)
    IN  [k \in DOMAIN rest |-> [rest[k] EXCEPT !.v = Subst(@, c[j].n, w)]]

LEMMA ReplaceLoad ==
  ASSUME NEW m \in Nat, NEW c, Chain(c, m), NEW j \in 1 .. Len(c), IsLoad(c[j]),
         NEW w \in Value, Emitted(w, c, j - 1)
  PROVE  /\ Chain(Replaced(c, j, w), m) /\ Len(Replaced(c, j, w)) = Len(c) - 1
         /\ \A v \in Value : Emitted(v, c, Len(c)) =>
              Emitted(Subst(v, c[j].n, w), Replaced(c, j, w), Len(Replaced(c, j, w)))
<1> DEFINE new(v) == Subst(v, c[j].n, w)
           d == RemoveAt(c, j)
           e == Replaced(c, j, w)
<1>0. d = RemoveAt(c, j) /\ e = [k \in DOMAIN d |-> [d[k] EXCEPT !.v = Subst(@, c[j].n, w)]]
  BY DEF Replaced
<1> HIDE DEF d, e
<1>1. c \in Seq(Insns) /\ Len(c) \in Nat /\ j \in Nat
  BY DEF Chain
<1>2. /\ d \in Seq(Insns) /\ Len(d) = Len(c) - 1 /\ DOMAIN d = 1 .. Len(d)
      /\ \A k \in 1 .. Len(d) : d[k] = IF k < j THEN c[k] ELSE c[k + 1]
  BY <1>0, <1>1, RemoveAtIs
<1>src. ASSUME NEW k \in 1 .. Len(d) PROVE \E l \in 1 .. Len(c) : d[k] = c[l]
  <2>1. k \in 1 .. Len(c) /\ k + 1 \in 1 .. Len(c)
    BY <1>1, <1>2
  <2> QED BY SMTT(30), <1>2, <2>1
<1>3. ASSUME NEW k \in 1 .. Len(d)
      PROVE  /\ d[k] \in Insns /\ e[k] = [d[k] EXCEPT !.v = new(d[k].v)]
             /\ new(d[k].v) \in Value
  <2>1. d[k] \in Insns
    BY <1>2
  <2>2. d[k].v \in Value
    BY Zenon, <2>1 DEF Insns
  <2>3. new(d[k].v) \in Value
    BY Zenon, <2>2, SubstFacts
  <2>4. e[k] = [d[k] EXCEPT !.v = new(d[k].v)]
    BY Zenon, <1>0, <1>2
  <2> QED BY <2>1, <2>3, <2>4
<1> HIDE DEF new
<1>4. ASSUME NEW k \in 1 .. Len(d)
      PROVE  /\ e[k] \in Insns /\ e[k].n = d[k].n /\ e[k].op = d[k].op /\ e[k].t = d[k].t
             /\ e[k].v = new(d[k].v)
  <2> DEFINE u == new(d[k].v)
  <2>1. u \in Value /\ d[k] \in Insns /\ e[k] = [d[k] EXCEPT !.v = u]
    BY <1>3
  <2> HIDE DEF u
  <2>2. e[k].v = u
    BY <2>1 DEF Insns
  <2> QED BY <2>1, <2>2 DEF Insns, u
<1>5. e \in Seq(Insns) /\ Len(e) = Len(d)
  <2>1. e = [k \in 1 .. Len(d) |-> e[k]] /\ Len(d) \in Nat
    BY <1>0, <1>1, <1>2
  <2>2. e \in [1 .. Len(d) -> Insns]
    BY <1>4, <2>1
  <2> QED BY <2>1, <2>2
<1>6. \A k \in 1 .. Len(c) : k # j => \E l \in 1 .. Len(d) : l <= k /\ (k > j => l < k) /\ d[l] = c[k]
  <2> SUFFICES ASSUME NEW k \in 1 .. Len(c), k # j
               PROVE  \E l \in 1 .. Len(d) : l <= k /\ (k > j => l < k) /\ d[l] = c[k]
    OBVIOUS
  <2>1. CASE k < j
    BY <1>1, <1>2, <2>1
  <2>2. CASE k > j
    <3>1. k - 1 \in 1 .. Len(d) /\ ~(k - 1 < j) /\ (k - 1) + 1 = k /\ k - 1 < k
      BY <1>1, <1>2, <2>2
    <3>2. d[k - 1] = c[k]
      BY <1>2, <3>1
    <3> QED BY <3>1, <3>2
  <2> QED BY <1>1, <2>1, <2>2
(* whatever a value of c starts from, the value that replaces it starts    *)
(* from a load that e keeps in front                                       *)
<1>7. ASSUME NEW v \in Value, NEW b \in 0 .. Len(c), Emitted(v, c, b), new(v).root > 0
      PROVE  \E l \in 1 .. Len(e) : /\ IsLoad(e[l]) /\ e[l].n = new(v).root
                                    /\ l <= b /\ (b >= j => l < b)
  <2>1. \E k \in 1 .. b : k # j /\ IsLoad(c[k]) /\ c[k].n = new(v).root
    <3>1. new(v).root = IF v.root = c[j].n THEN w.root ELSE v.root
      BY SubstFacts DEF new
    <3>2. c[j] \in Insns /\ c[j].n > 0
      BY <1>1 DEF Chain
    <3>3. CASE v.root = c[j].n
      <4>1. PICK k \in 1 .. b : IsLoad(c[k]) /\ c[k].n = c[j].n
        BY <1>7, <3>2, <3>3 DEF Emitted
      <4>2. k = j
        <5>1. k \in 1 .. Len(c) /\ k \in Nat
          BY <1>1
        <5>2. c[k].n \in 1 .. m /\ c[j].n \in 1 .. m
          BY <5>1 DEF Chain
        <5>3. ~(k < j) /\ ~(j < k)
          BY <4>1, <5>1, <5>2 DEF Chain
        <5> QED BY <1>1, <5>1, <5>3
      <4>3. PICK h \in 1 .. j - 1 : IsLoad(c[h]) /\ c[h].n = w.root
        BY <1>7, <3>1, <3>3 DEF Emitted
      <4>4. h \in 1 .. b /\ h # j
        BY <1>1, <4>1, <4>2, <4>3
      <4> QED BY <3>1, <3>3, <4>3, <4>4
    <3>4. CASE v.root # c[j].n
      BY <1>7, <3>1, <3>4 DEF Emitted
    <3> QED BY <3>3, <3>4
  <2>2. PICK k \in 1 .. b : k # j /\ IsLoad(c[k]) /\ c[k].n = new(v).root
    BY <2>1
  <2>3. k \in 1 .. Len(c)
    BY <1>1
  <2>4. PICK l \in 1 .. Len(d) : l <= k /\ (k > j => l < k) /\ d[l] = c[k]
    BY <1>6, <2>2, <2>3
  <2>5. e[l].n = new(v).root /\ IsLoad(e[l])
    BY <1>4, <2>2, <2>4 DEF IsLoad
  <2>6. l <= b /\ (b >= j => l < b)
    BY <1>1, <1>2, <2>2, <2>3, <2>4
  <2> QED BY <1>5, <2>5, <2>6
<1>8. \A k \in 1 .. Len(e) : e[k].n \in 1 .. m
  <2> SUFFICES ASSUME NEW k \in 1 .. Len(e) PROVE e[k].n \in 1 .. m
    OBVIOUS
  <2>1. \E l \in 1 .. Len(c) : d[k] = c[l]
    BY <1>5, <1>src
  <2> QED BY SMTT(30), <1>4, <1>5, <2>1 DEF Chain
<1>9. \A k, l \in 1 .. Len(e) : k < l => e[k].n < e[l].n
  <2> SUFFICES ASSUME NEW k \in 1 .. Len(e), NEW l \in 1 .. Len(e), k < l PROVE e[k].n < e[l].n
    OBVIOUS
  <2>1. \E x, y \in 1 .. Len(c) : x < y /\ d[k] = c[x] /\ d[l] = c[y]
    <3> DEFINE x == IF k < j THEN k ELSE k + 1
               y == IF l < j THEN l ELSE l + 1
    <3>1. x \in 1 .. Len(c) /\ y \in 1 .. Len(c) /\ x < y
      BY <1>1, <1>2, <1>5
    <3>2. d[k] = c[x] /\ d[l] = c[y]
      BY <1>2, <1>5
    <3> HIDE DEF x, y
    <3> QED BY <3>1, <3>2
  <2>2. PICK x \in 1 .. Len(c), y \in 1 .. Len(c) : x < y /\ d[k] = c[x] /\ d[l] = c[y]
    BY <2>1
  <2>3. c[x].n < c[y].n
    BY <2>2 DEF Chain
  <2>4. e[k].n = d[k].n /\ e[l].n = d[l].n
    BY <1>4, <1>5
  <2> QED BY <2>2, <2>3, <2>4
<1>10. \A k \in 1 .. Len(e) : Emitted(e[k].v, e, k - 1)
  <2> SUFFICES ASSUME NEW k \in 1 .. Len(e), e[k].v.root > 0
               PROVE  \E l \in 1 .. k - 1 : IsLoad(e[l]) /\ e[l].n = e[k].v.root
    BY DEF Emitted
  <2>1. k \in 1 .. Len(d) /\ e[k].v = new(d[k].v)
    BY <1>4, <1>5
  <2> DEFINE x == IF k < j THEN k ELSE k + 1
  <2>2. x \in 1 .. Len(c) /\ d[k] = c[x] /\ x - 1 \in 0 .. Len(c)
    BY <1>1, <1>2, <2>1
  <2>3. x - 1 <= k /\ (x - 1 = k => x - 1 >= j)
    BY <1>1, <2>1
  <2> HIDE DEF x
  <2>4. d[k].v \in Value /\ Emitted(d[k].v, c, x - 1)
    BY <2>1, <2>2, <1>3 DEF Chain, Insns
  <2>5. PICK l \in 1 .. Len(e) : /\ IsLoad(e[l]) /\ e[l].n = e[k].v.root
                                 /\ l <= x - 1 /\ (x - 1 >= j => l < x - 1)
    BY <1>7, <2>1, <2>2, <2>4
  <2>6. l \in 1 .. k - 1
    BY <1>1, <1>5, <2>1, <2>2, <2>3, <2>5
  <2> QED BY <2>5, <2>6
<1>11. \A k \in 1 .. Len(e) : IsStore(e[k]) => TypeOf(e[k].v) = e[k].t
  <2> SUFFICES ASSUME NEW k \in 1 .. Len(e), IsStore(e[k]) PROVE TypeOf(e[k].v) = e[k].t
    OBVIOUS
  <2>1. \E l \in 1 .. Len(c) : d[k] = c[l]
    BY <1>5, <1>src
  <2>2. k \in 1 .. Len(d) /\ IsStore(d[k])
    BY <1>4, <1>5 DEF IsStore
  <2>3. TypeOf(d[k].v) = d[k].t /\ d[k].v \in Value
    BY <1>3, <2>1, <2>2 DEF Chain, Insns
  <2> QED BY <1>4, <2>2, <2>3, SubstFacts DEF new
<1>12. Chain(e, m)
  BY <1>5, <1>8, <1>9, <1>10, <1>11 DEF Chain
<1>13. ASSUME NEW v \in Value, Emitted(v, c, Len(c)) PROVE Emitted(new(v), e, Len(e))
  <2>1. Len(c) \in 0 .. Len(c)
    BY <1>1
  <2> QED BY <1>7, <1>13, <2>1 DEF Emitted
<1> QED BY <1>2, <1>5, <1>12, <1>13 DEF new, e

LEMMA LaterChain ==
  ASSUME NEW m \in Nat, NEW c, Chain(c, m)
  PROVE  Chain(c, m + 1)
<1>1. \A j \in 1 .. Len(c) : c[j].n \in 1 .. m + 1
  BY DEF Chain
<1> QED BY <1>1 DEF Chain

(* What is in front of an instruction is a chain as well *)
LEMMA PrefixChain ==
  ASSUME NEW m \in Nat, NEW c, Chain(c, m), NEW j \in 1 .. Len(c), NEW b, b = SubSeq(c, 1, j - 1)
  PROVE  /\ Chain(b, m) /\ Len(b) = j - 1 /\ \A k \in 1 .. j - 1 : b[k] = c[k]
         /\ \A v : Emitted(v, b, Len(b)) => Emitted(v, c, j - 1)
<1>1. c \in Seq(Insns) /\ Len(c) \in Nat /\ j \in Nat
  BY DEF Chain
<1>2. b \in Seq(Insns) /\ Len(b) = j - 1 /\ \A k \in 1 .. j - 1 : b[k] = c[k]
  BY <1>1
<1>3. \A k \in 1 .. Len(b) : k \in 1 .. Len(c) /\ b[k] = c[k] /\ \A l \in 1 .. k - 1 : l \in 1 .. j - 1
  BY <1>1, <1>2
<1>4. /\ \A k \in 1 .. Len(b) : b[k].n \in 1 .. m
      /\ \A k, l \in 1 .. Len(b) : k < l => b[k].n < b[l].n
      /\ \A k \in 1 .. Len(b) : IsStore(b[k]) => TypeOf(b[k].v) = b[k].t
  BY <1>3 DEF Chain
<1>5. \A k \in 1 .. Len(b) : Emitted(b[k].v, b, k - 1)
  BY <1>2, <1>3 DEF Chain, Emitted
<1>6. Chain(b, m)
  BY <1>2, <1>4, <1>5 DEF Chain
<1>7. \A v : Emitted(v, b, Len(b)) => Emitted(v, c, j - 1)
  BY <1>2 DEF Emitted
<1> QED BY <1>2, <1>6, <1>7

(* A store loses the bitcast of its operand: it stays what it was but for  *)
(* the type.                                                               *)
LEMMA NoBitcastFacts ==
  ASSUME NEW v \in Value
  PROVE  /\ NoBitcast(v) \in Value /\ NoBitcast(v).root = v.root
         /\ TypeOf(NoBitcast(v)) \in Type
<1> DEFINE n == Len(v.via)
           f == Front(v.via)
<1>1. v \in [root : Int, via : Seq(Type)] /\ v.via \in Seq(Type) /\ v.via # <<>> /\ n \in Nat
  BY DEF Value
<1>2. CASE n > 1 /\ ir_type_size[v.via[n]] = ir_type_size[v.via[n - 1]]
  <2>1. NoBitcast(v) = [v EXCEPT !.via = f]
    BY <1>2 DEF NoBitcast
  <2>2. f \in Seq(Type) /\ f # <<>> /\ f[Len(f)] \in Type
    <3>1. f \in Seq(Type) /\ Len(f) = n - 1
      BY <1>1, <1>2 DEF Front
    <3> HIDE DEF f
    <3> QED BY <1>1, <1>2, <3>1
  <2> HIDE DEF f
  <2> QED BY <1>1, <2>1, <2>2 DEF Value, TypeOf, Last
<1>3. CASE ~(n > 1 /\ ir_type_size[v.via[n]] = ir_type_size[v.via[n - 1]])
  <2>1. NoBitcast(v) = v
    BY <1>3 DEF NoBitcast
  <2>2. TypeOf(v) \in Type
    BY <1>1 DEF TypeOf, Last
  <2> QED BY <2>1, <2>2
<1> QED BY <1>2, <1>3

Retyped(c, j, v, t) == [c EXCEPT ![j].v = v, ![j].t = t]

LEMMA RetypeIs ==
  ASSUME NEW c \in Seq(Insns), NEW j \in 1 .. Len(c), NEW v \in Value, NEW t \in Type
  PROVE  \E i \in Insns : /\ i.n = c[j].n /\ i.op = c[j].op /\ i.v = v /\ i.t = t
                          /\ Retyped(c, j, v, t) = [c EXCEPT ![j] = i]
<1> DEFINE i == [c[j] EXCEPT !.v = v, !.t = t]
<1>1. c[j] \in Insns
  OBVIOUS
<1>2. i \in Insns /\ i.n = c[j].n /\ i.op = c[j].op /\ i.v = v /\ i.t = t
  BY <1>1 DEF Insns
<1>3. Retyped(c, j, v, t) = [c EXCEPT ![j] = i]
  BY DEF Retyped
<1> HIDE DEF i
<1> QED BY <1>2, <1>3

LEMMA RetypeStore ==
  ASSUME NEW m \in Nat, NEW c, Chain(c, m), NEW j \in 1 .. Len(c),
         NEW v \in Value, v.root = c[j].v.root, TypeOf(v) \in Type,
         NEW d, d = Retyped(c, j, v, TypeOf(v))
  PROVE  /\ Chain(d, m) /\ Len(d) = Len(c)
         /\ \A k \in 1 .. Len(c) : d[k].op = c[k].op
         /\ \A w : Emitted(w, c, Len(c)) => Emitted(w, d, Len(d))
<1>1. c \in Seq(Insns) /\ Len(c) \in Nat /\ c[j] \in Insns
  BY DEF Chain
<1>2. PICK i \in Insns : /\ i.n = c[j].n /\ i.op = c[j].op /\ i.v = v /\ i.t = TypeOf(v)
                        /\ d = [c EXCEPT ![j] = i]
  BY <1>1, RetypeIs
<1>4. d \in Seq(Insns) /\ Len(d) = Len(c) /\ d[j] = i /\ \A k \in 1 .. Len(c) : k # j => d[k] = c[k]
  <2>1. DOMAIN c = 1 .. Len(c) /\ \A k \in 1 .. Len(c) : c[k] \in Insns
    BY <1>1
  <2>2. d = [k \in 1 .. Len(c) |-> IF k = j THEN i ELSE c[k]]
    BY Zenon, <1>2, <2>1
  <2>3. d \in [1 .. Len(c) -> Insns] /\ d[j] = i /\ \A k \in 1 .. Len(c) : k # j => d[k] = c[k]
    BY Zenon, <2>1, <2>2
  <2>4. d \in Seq(Insns) /\ DOMAIN d = 1 .. Len(c)
    BY <1>1, <2>3
  <2>5. Len(d) = Len(c)
    BY <1>1, <2>4
  <2> QED BY <2>3, <2>4, <2>5
<1>5. \A k \in 1 .. Len(c) : d[k].n = c[k].n /\ d[k].op = c[k].op /\ d[k].v.root = c[k].v.root
  BY <1>2, <1>4
<1>6. \A k \in 1 .. Len(c) : IsLoad(d[k]) <=> IsLoad(c[k])
  BY <1>5 DEF IsLoad
<1>7. /\ \A k \in 1 .. Len(d) : d[k].n \in 1 .. m
      /\ \A k, l \in 1 .. Len(d) : k < l => d[k].n < d[l].n
  BY <1>4, <1>5 DEF Chain
<1>8. \A k \in 1 .. Len(d) : Emitted(d[k].v, d, k - 1)
  <2> SUFFICES ASSUME NEW k \in 1 .. Len(d), d[k].v.root > 0
               PROVE  \E l \in 1 .. k - 1 : IsLoad(d[l]) /\ d[l].n = d[k].v.root
    BY DEF Emitted
  <2>1. PICK l \in 1 .. k - 1 : IsLoad(c[l]) /\ c[l].n = d[k].v.root
    BY <1>4, <1>5 DEF Chain, Emitted
  <2>2. l \in 1 .. Len(c)
    BY <1>1, <1>4
  <2> QED BY <1>5, <1>6, <2>1, <2>2
<1>9. \A k \in 1 .. Len(d) : IsStore(d[k]) => TypeOf(d[k].v) = d[k].t
  BY <1>2, <1>4 DEF Chain
<1>10. Chain(d, m)
  BY <1>4, <1>7, <1>8, <1>9 DEF Chain
<1>11. \A w : Emitted(w, c, Len(c)) => Emitted(w, d, Len(d))
  BY <1>4, <1>5, <1>6 DEF Emitted
<1> QED BY <1>4, <1>5, <1>10, <1>11

-----------------------------------------------------------------------------
(* The steps.  What every request of the builder does to the state: *)
LEMMA Request ==
  ASSUME IInv, Building, NEW i \in Insns, i.n = Len(prog) + 1,
         i.op \in {"LOAD", "STORE"} => i.a \in addrs, Asked(i),
         NEW r \in Value, ret' = Append(ret, r),
         Chain(code', Len(prog) + 1), Len(code') <= Len(code) + 1,
         Emitted(r, code', Len(code')),
         \A v \in Value : Emitted(v, code, Len(code)) => Emitted(v, code', Len(code'))
  PROVE  IInv'
<1> USE DEF IInv, Requests
<1>1. /\ addrs' = addrs /\ folding' = folding /\ prog' = Append(prog, i)
      /\ prog \in Seq(Insns) /\ Len(prog) \in Nat /\ Len(prog) < Steps /\ Steps \in Nat
  BY StepsAssumption DEF Asked, Building
<1>2. /\ prog' \in Seq(Insns) /\ Len(prog') = Len(prog) + 1
      /\ \A k \in 1 .. Len(prog') : (k \in 1 .. Len(prog) /\ prog'[k] = prog[k]) \/ (k = Len(prog) + 1 /\ prog'[k] = i)
  BY <1>1
<1>3. /\ \A k \in 1 .. Len(prog') : prog'[k].n = k
      /\ \A k \in 1 .. Len(prog') : prog'[k].op \in {"LOAD", "STORE"} => prog'[k].a \in addrs'
  BY <1>1, <1>2
<1>4. /\ ret' \in Seq(Value) /\ Len(ret') = Len(prog')
      /\ \A k \in 1 .. Len(ret') : (k \in 1 .. Len(ret) /\ ret'[k] = ret[k]) \/ ret'[k] = r
  BY <1>1, <1>2
<1>5. \A k \in 1 .. Len(ret') : Emitted(ret'[k], code', Len(code'))
  <2> SUFFICES ASSUME NEW k \in 1 .. Len(ret') PROVE Emitted(ret'[k], code', Len(code'))
    OBVIOUS
  <2>1. CASE k \in 1 .. Len(ret) /\ ret'[k] = ret[k]
    <3>1. ret[k] \in Value /\ Emitted(ret[k], code, Len(code))
      BY <2>1
    <3> QED BY <2>1, <3>1
  <2>2. CASE ret'[k] = r
    BY <2>2
  <2> QED BY <1>4, <2>1, <2>2
<1>6. Len(code) \in Nat /\ Len(code') \in Nat
  BY DEF Chain
<1>7. Requests'
  BY <1>1, <1>2, <1>3
<1> QED BY <1>1, <1>2, <1>4, <1>5, <1>6, <1>7

(* _ir_LOAD, _ir_VLOAD: i is the load the builder may emit *)
LEMMA EmitLoadStep ==
  ASSUME IInv, NEW i \in Insns, i.n = Len(prog) + 1, IsLoad(i), i.v = NoValue, EmitLoad(i)
  PROVE  \E r \in Value :
           /\ ret' = Append(ret, r) /\ Emitted(r, code', Len(code'))
           /\ Chain(code', Len(prog) + 1) /\ Len(code') <= Len(code) + 1
           /\ \A v \in Value : Emitted(v, code, Len(code)) => Emitted(v, code', Len(code'))
<1>1. /\ Chain(code, Len(prog)) /\ code \in Seq(Insns) /\ Len(code) \in Nat /\ Len(prog) \in Nat
      /\ prog \in Seq(Insns)
  BY DEF IInv, Requests, Chain
<1> DEFINE w == IF folding THEN FindLoad(code, i) ELSE NoValue
<1>2. i.t \in Type
  BY DEF Insns
<1>3. w \in Value /\ Emitted(w, code, Len(code))
  <2>1. FindLoad(code, i) \in Value /\ Emitted(FindLoad(code, i), code, Len(code))
    BY Zenon, <1>1, FindLoadFacts
  <2>2. NoValue \in Value /\ Emitted(NoValue, code, Len(code))
    BY NoValueIs DEF Emitted
  <2> QED BY Zenon, <2>1, <2>2
<1>4. IF w # NoValue
        THEN ret' = Append(ret, Convert(w, i.t)) /\ code' = code
        ELSE ret' = Append(ret, Loaded(i.n, i.t)) /\ code' = Append(code, i)
  BY Zenon DEF EmitLoad
<1> HIDE DEF w
<1>5. CASE w # NoValue
  <2>1. Convert(w, i.t) \in Value /\ Convert(w, i.t).root = w.root
    BY Zenon, <1>2, <1>3, ConvertFacts
  <2>2. ret' = Append(ret, Convert(w, i.t)) /\ code' = code
    BY Zenon, <1>4, <1>5
  <2>3. Emitted(Convert(w, i.t), code', Len(code'))
    BY Zenon, <1>3, <2>1, <2>2 DEF Emitted
  <2>4. Chain(code', Len(prog) + 1)
    BY Zenon, <1>1, <2>2, LaterChain
  <2>5. Len(code') <= Len(code) + 1
    BY <1>1, <2>2
  <2> QED BY Zenon, <2>1, <2>2, <2>3, <2>4, <2>5
<1>6. CASE w = NoValue
  <2>1. ret' = Append(ret, Loaded(i.n, i.t)) /\ code' = Append(code, i)
    BY Zenon, <1>4, <1>6
  <2>2. i.n \in Nat
    BY DEF Insns
  <2>3. Loaded(i.n, i.t) \in Value /\ Loaded(i.n, i.t).root = i.n
    BY Zenon, <1>2, <2>2, LoadedIs
  <2>4. Emitted(i.v, code, Len(code)) /\ ~IsStore(i)
    BY NoValueIs DEF Emitted, IsLoad, IsStore
  <2>5. /\ Chain(code', Len(prog) + 1) /\ Len(code') = Len(code) + 1
        /\ \A v : Emitted(v, code, Len(code)) => Emitted(v, code', Len(code) + 1)
        /\ code'[Len(code) + 1] = i
    BY Zenon, <1>1, <2>1, <2>4, AppendInsn
  <2>6. Len(code) + 1 \in 1 .. Len(code')
    BY <1>1, <2>5
  <2>7. Emitted(Loaded(i.n, i.t), code', Len(code'))
    BY Zenon, <2>3, <2>5, <2>6 DEF Emitted
  <2>8. Len(code') <= Len(code) + 1
    BY <1>1, <2>5
  <2> QED BY Zenon, <2>1, <2>3, <2>5, <2>7, <2>8
<1> QED BY Zenon, <1>5, <1>6

(* The operand of a store the caller asks for: a constant, or what the     *)
(* builder returned for a load.                                            *)
LEMMA OperandFacts ==
  ASSUME IInv, NEW t \in Type, NEW v \in Values(t),
         NEW u, u = IF v.root > 0 THEN Subst(v, v.root, ret[v.root]) ELSE v
  PROVE  /\ v \in Value
         /\ u \in Value /\ TypeOf(u) = t /\ Emitted(u, code, Len(code))
<1>1. CASE v \in Consts /\ TypeOf(v) = t
  <2>1. v.root \in Int /\ v.root < 0 /\ \E s \in Type : v = Const(v.root, s)
    BY <1>1, ConstsAssumption
  <2>2. PICK s \in Type : v = Const(v.root, s)
    BY <2>1
  <2>3. v \in Value
    <3> DEFINE l == <<s>>
    <3>1. l \in Seq(Type) /\ l # <<>> /\ v = [root |-> v.root, via |-> l]
      BY <2>2 DEF Const
    <3> HIDE DEF l
    <3> QED BY <2>1, <3>1 DEF Value
  <2>4. u = v /\ ~(u.root > 0)
    BY <2>1
  <2> QED BY <1>1, <2>3, <2>4 DEF Emitted
<1>2. CASE v \in {Loaded(i.n, t) : i \in {i \in Range(prog) : IsLoad(i) /\ i.t = t}}
  <2>1. PICK i \in Range(prog) : v = Loaded(i.n, t)
    BY <1>2
  <2>2. prog \in Seq(Insns) /\ \A k \in 1 .. Len(prog) : prog[k].n = k
    BY DEF IInv, Requests
  <2>3. i.n \in 1 .. Len(prog)
    BY <2>1, <2>2 DEF Range
  <2>4. i.n \in Nat /\ i.n > 0
    BY <2>2, <2>3
  <2>5. v \in Value /\ v.root = i.n /\ TypeOf(v) = t
    BY Zenon, <2>1, <2>4, LoadedIs
  <2>6. ret[i.n] \in Value /\ Emitted(ret[i.n], code, Len(code))
    BY <2>3 DEF IInv
  <2>7. u = Subst(v, v.root, ret[i.n])
    BY <2>4, <2>5
  <2>8. u \in Value /\ TypeOf(u) = TypeOf(v) /\ u.root = ret[i.n].root
    <3>1. LET x == Subst(v, v.root, ret[i.n])
          IN  x \in Value /\ TypeOf(x) = TypeOf(v) /\ x.root = IF v.root = v.root THEN ret[i.n].root ELSE v.root
      BY Zenon, <2>5, <2>6, SubstFacts
    <3> QED BY Zenon, <2>7, <3>1
  <2> QED BY Zenon, <2>5, <2>6, <2>8 DEF Emitted
<1> QED BY Zenon, <1>1, <1>2 DEF Values

(* _ir_STORE, _ir_VSTORE *)
LEMMA EmitStoreStep ==
  ASSUME IInv, NEW t \in Type, NEW v \in Values(t), NEW i \in Insns, i.n = Len(prog) + 1,
         IsStore(i), i.v = v, i.t = t, EmitStore(i)
  PROVE  /\ ret' = Append(ret, NoValue) /\ Emitted(NoValue, code', Len(code'))
         /\ Chain(code', Len(prog) + 1) /\ Len(code') <= Len(code) + 1
         /\ \A x \in Value : Emitted(x, code, Len(code)) => Emitted(x, code', Len(code'))
<1> DEFINE u == IF v.root > 0 THEN Subst(v, v.root, ret[v.root]) ELSE v
           j == [i EXCEPT !.v = u]
           f == FindStore(code, j)
<1>1. /\ Chain(code, Len(prog)) /\ code \in Seq(Insns) /\ Len(code) \in Nat /\ Len(prog) \in Nat
      /\ prog \in Seq(Insns)
  BY DEF IInv, Requests, Chain
<1>2. u \in Value /\ TypeOf(u) = t /\ Emitted(u, code, Len(code))
  <2>1. u = IF v.root > 0 THEN Subst(v, v.root, ret[v.root]) ELSE v
    OBVIOUS
  <2> HIDE DEF u
  <2> QED BY <2>1, OperandFacts
<1>3. /\ code' = IF ~folding THEN Append(code, j)
                 ELSE IF f.dead THEN code
                 ELSE IF f.kill > 0 THEN Append(RemoveAt(code, f.kill), j)
                 ELSE Append(code, j)
      /\ ret' = Append(ret, NoValue)
  BY Zenon DEF EmitStore
<1> HIDE DEF u
<1>4. j \in Insns /\ j.n = i.n /\ j.op = i.op /\ j.t = t /\ j.v = u
  BY <1>2 DEF Insns
<1>5. f.kill \in 0 .. Len(code) /\ (f.kill > 0 => IsStore(code[f.kill]))
  BY Zenon, <1>1, FindStoreFacts
<1> HIDE DEF f
<1> HIDE DEF j
<1>6. Emitted(NoValue, code', Len(code'))
  BY NoValueIs DEF Emitted
<1>7. CASE code' = code
  <2>1. Chain(code', Len(prog) + 1)
    BY Zenon, <1>1, <1>7, LaterChain
  <2>2. Len(code') <= Len(code) + 1
    BY <1>1, <1>7
  <2> QED BY Zenon, <1>3, <1>6, <1>7, <2>1, <2>2
<1>8. CASE code' = Append(code, j)
  <2>1. /\ Chain(code', Len(prog) + 1) /\ Len(code') = Len(code) + 1
        /\ \A x : Emitted(x, code, Len(code)) => Emitted(x, code', Len(code) + 1)
    BY Zenon, <1>1, <1>2, <1>4, <1>8, AppendInsn
  <2> QED BY <1>1, <1>3, <1>6, <2>1
<1>9. CASE f.kill > 0 /\ code' = Append(RemoveAt(code, f.kill), j)
  <2> DEFINE c == RemoveAt(code, f.kill)
  <2>1. f.kill \in 1 .. Len(code) /\ IsStore(code[f.kill])
    BY <1>1, <1>5, <1>9
  <2>2. /\ Chain(c, Len(prog)) /\ Len(c) = Len(code) - 1
        /\ \A x : Emitted(x, code, Len(code)) => Emitted(x, c, Len(code) - 1)
    BY Zenon, <1>1, <2>1, RemoveStore
  <2>3. code' = Append(c, j)
    BY <1>9
  <2> HIDE DEF c
  <2>4. Emitted(j.v, c, Len(c))
    BY Zenon, <1>2, <1>4, <2>2
  <2>5. /\ Chain(code', Len(prog) + 1) /\ Len(code') = Len(c) + 1
        /\ \A x : Emitted(x, c, Len(c)) => Emitted(x, code', Len(c) + 1)
    BY Zenon, <1>1, <1>2, <1>4, <2>2, <2>3, <2>4, AppendInsn
  <2>6. Len(code') <= Len(code) + 1
    BY <1>1, <2>2, <2>5
  <2>7. \A x : Emitted(x, code, Len(code)) => Emitted(x, code', Len(code'))
    BY Zenon, <2>2, <2>5
  <2> QED BY Zenon, <1>3, <1>6, <2>5, <2>6, <2>7
<1> QED BY Zenon, <1>3, <1>7, <1>8, <1>9

LEMMA InsnIs ==
  ASSUME IInv, NEW op \in Ops, NEW t \in Type, NEW a \in (DOMAIN Expr) \cup {VAR}, NEW v \in Value,
         NEW i, i = Insn(op, t, a, v)
  PROVE  /\ i \in Insns /\ i.n = Len(prog) + 1 /\ i.op = op /\ i.t = t /\ i.a = a /\ i.v = v
<1>1. Len(prog) + 1 \in Nat
  BY DEF IInv, Requests
<1> QED BY <1>1 DEF Insn, Insns

LEMMA AddrIs == IInv => \A a \in addrs : a \in DOMAIN Expr
BY AddressAssumption DEF IInv, Requests

LEMMA LoadAsked ==
  ASSUME IInv, Building, NEW t \in Type,
         NEW op \in {"LOAD", "VLOAD"}, NEW a \in (DOMAIN Expr) \cup {VAR},
         op \in {"LOAD", "STORE"} => a \in addrs, Asked(Insn(op, t, a, NoValue)),
         NEW op2 \in {"LOAD", "VLOAD"}, NEW a2 \in (DOMAIN Expr) \cup {VAR},
         EmitLoad(Insn(op2, t, a2, NoValue))
  PROVE  IInv'
<1> DEFINE i == Insn(op, t, a, NoValue)
           i2 == Insn(op2, t, a2, NoValue)
<1>1. op \in Ops /\ op2 \in Ops /\ NoValue \in Value
  BY NoValueIs DEF Ops
<1>2. i \in Insns /\ i.n = Len(prog) + 1 /\ i.op = op /\ i.a = a
  BY <1>1, InsnIs
<1>3. i2 \in Insns /\ i2.n = Len(prog) + 1 /\ i2.op = op2 /\ i2.v = NoValue
  BY <1>1, InsnIs
<1>4. IsLoad(i2) /\ (i.op \in {"LOAD", "STORE"} => i.a \in addrs)
  BY <1>2, <1>3 DEF IsLoad
<1>5. Asked(i) /\ EmitLoad(i2)
  OBVIOUS
<1> HIDE DEF i, i2
<1>6. PICK r \in Value :
           /\ ret' = Append(ret, r) /\ Emitted(r, code', Len(code'))
           /\ Chain(code', Len(prog) + 1) /\ Len(code') <= Len(code) + 1
           /\ \A v \in Value : Emitted(v, code, Len(code)) => Emitted(v, code', Len(code'))
  BY <1>3, <1>4, <1>5, EmitLoadStep
<1> QED BY <1>2, <1>4, <1>5, <1>6, Request

LEMMA StoreAsked ==
  ASSUME IInv, Building, NEW t \in Type, NEW v \in Values(t),
         NEW op \in {"STORE", "VSTORE"}, NEW a \in (DOMAIN Expr) \cup {VAR},
         op \in {"LOAD", "STORE"} => a \in addrs, Asked(Insn(op, t, a, v)),
         NEW op2 \in {"STORE", "VSTORE"}, NEW a2 \in (DOMAIN Expr) \cup {VAR},
         EmitStore(Insn(op2, t, a2, v))
  PROVE  IInv'
<1> DEFINE i == Insn(op, t, a, v)
           i2 == Insn(op2, t, a2, v)
<1>1. op \in Ops /\ op2 \in Ops
  BY DEF Ops
<1>2. v \in Value
  <2> DEFINE u == IF v.root > 0 THEN Subst(v, v.root, ret[v.root]) ELSE v
  <2>1. u = IF v.root > 0 THEN Subst(v, v.root, ret[v.root]) ELSE v
    OBVIOUS
  <2> HIDE DEF u
  <2> QED BY <2>1, OperandFacts
<1>3. i \in Insns /\ i.n = Len(prog) + 1 /\ i.op = op /\ i.a = a
  BY <1>1, <1>2, InsnIs
<1>4. i2 \in Insns /\ i2.n = Len(prog) + 1 /\ i2.op = op2 /\ i2.v = v /\ i2.t = t
  BY <1>1, <1>2, InsnIs
<1>5. IsStore(i2) /\ (i.op \in {"LOAD", "STORE"} => i.a \in addrs)
  BY <1>3, <1>4 DEF IsStore
<1>6. Asked(i) /\ EmitStore(i2)
  OBVIOUS
<1> HIDE DEF i, i2
<1>7. /\ ret' = Append(ret, NoValue) /\ Emitted(NoValue, code', Len(code'))
      /\ Chain(code', Len(prog) + 1) /\ Len(code') <= Len(code) + 1
      /\ \A x \in Value : Emitted(x, code, Len(code)) => Emitted(x, code', Len(code'))
  BY <1>4, <1>5, <1>6, EmitStoreStep
<1> QED BY <1>3, <1>5, <1>6, <1>7, Request, NoValueIs

LEMMA LOADStep ==
  ASSUME IInv, NEW t \in Type, NEW a \in addrs, LOAD(t, a)
  PROVE  IInv'
<1> DEFINE op2 == IF ByVar(a) THEN "VLOAD" ELSE "LOAD"
           a2 == IF ByVar(a) THEN VAR ELSE a
<1>1. a \in (DOMAIN Expr) \cup {VAR} /\ op2 \in {"LOAD", "VLOAD"} /\ a2 \in (DOMAIN Expr) \cup {VAR}
  BY AddrIs
<1>2. Building /\ Asked(Insn("LOAD", t, a, NoValue)) /\ EmitLoad(Insn(op2, t, a2, NoValue))
  BY DEF LOAD
<1> HIDE DEF op2, a2
<1> QED BY <1>1, <1>2, LoadAsked

LEMMA VLOADStep ==
  ASSUME IInv, NEW t \in VarTypes, VLOAD(t)
  PROVE  IInv'
<1>1. t \in Type /\ VAR \in (DOMAIN Expr) \cup {VAR}
  BY VarTypesAssumption
<1>2. Building /\ Asked(Insn("VLOAD", t, VAR, NoValue)) /\ EmitLoad(Insn("VLOAD", t, VAR, NoValue))
  BY DEF VLOAD
<1> QED BY <1>1, <1>2, LoadAsked

LEMMA STOREStep ==
  ASSUME IInv, NEW t \in Type, NEW a \in addrs, NEW v \in Values(t), STORE(a, t, v)
  PROVE  IInv'
<1> DEFINE op2 == IF ByVar(a) THEN "VSTORE" ELSE "STORE"
           a2 == IF ByVar(a) THEN VAR ELSE a
<1>1. a \in (DOMAIN Expr) \cup {VAR} /\ op2 \in {"STORE", "VSTORE"} /\ a2 \in (DOMAIN Expr) \cup {VAR}
  BY AddrIs
<1>2. Building /\ Asked(Insn("STORE", t, a, v)) /\ EmitStore(Insn(op2, t, a2, v))
  BY DEF STORE
<1> HIDE DEF op2, a2
<1> QED BY <1>1, <1>2, StoreAsked

LEMMA VSTOREStep ==
  ASSUME IInv, NEW t \in VarTypes, NEW v \in Values(t), VSTORE(t, v)
  PROVE  IInv'
<1>1. t \in Type /\ VAR \in (DOMAIN Expr) \cup {VAR}
  BY VarTypesAssumption
<1>2. Building /\ Asked(Insn("VSTORE", t, VAR, v)) /\ EmitStore(Insn("VSTORE", t, VAR, v))
  BY DEF VSTORE
<1> QED BY <1>1, <1>2, StoreAsked

LEMMA ControlStep ==
  ASSUME IInv, NEW op \in {"GUARD", "IF", "CALL", "PURE"}, Control(op)
  PROVE  IInv'
<1> DEFINE i == Insn(op, "I1", VAR, NoValue)
<1>1. /\ Chain(code, Len(prog)) /\ code \in Seq(Insns) /\ Len(code) \in Nat /\ Len(prog) \in Nat
      /\ prog \in Seq(Insns)
  BY DEF IInv, Requests, Chain
<1>2. op \in Ops /\ NoValue \in Value /\ "I1" \in Type /\ VAR \in (DOMAIN Expr) \cup {VAR}
  BY NoValueIs DEF Ops, Type
<1>3. i \in Insns /\ i.n = Len(prog) + 1 /\ i.op = op /\ i.v = NoValue
  <2> DEFINE t == "I1"
             a == VAR
  <2>1. i = Insn(op, t, a, NoValue) /\ t \in Type /\ a \in (DOMAIN Expr) \cup {VAR}
    BY <1>2
  <2> HIDE DEF i, t, a
  <2> QED BY <1>2, <2>1, InsnIs
<1>4. ~IsStore(i) /\ i.op \notin {"LOAD", "STORE"}
  BY <1>3 DEF IsStore
<1>5. Building /\ Asked(i) /\ code' = Append(code, i) /\ ret' = Append(ret, NoValue)
  BY DEF Control
<1> HIDE DEF i
<1>6. \A c : Emitted(NoValue, c, Len(c))
  <2>1. ~(NoValue.root > 0)
    BY NoValueIs
  <2> QED BY Zenon, <2>1 DEF Emitted
<1>7. /\ Chain(code', Len(prog) + 1) /\ Len(code') = Len(code) + 1
      /\ \A x : Emitted(x, code, Len(code)) => Emitted(x, code', Len(code) + 1)
  BY Zenon, <1>1, <1>3, <1>4, <1>5, <1>6, AppendInsn
<1>8. Len(code') <= Len(code) + 1
  BY <1>1, <1>7
<1>9. \A x \in Value : Emitted(x, code, Len(code)) => Emitted(x, code', Len(code'))
  BY Zenon, <1>7
<1>10. Emitted(NoValue, code', Len(code'))
  BY Zenon, <1>6
<1> QED BY <1>2, <1>3, <1>4, <1>5, <1>7, <1>8, <1>9, <1>10, Request

(* The iterative pass.  What a step of it does to the state: *)
LEMMA Iteration ==
  ASSUME IInv, UNCHANGED <<addrs, folding, prog>>,
         Chain(code', Len(prog)), Len(code') <= Len(code),
         ret' \in Seq(Value), Len(ret') = Len(ret),
         \A n \in 1 .. Len(ret) : Emitted(ret'[n], code', Len(code'))
  PROVE  IInv'
<1>1. Requests'
  BY DEF IInv, Requests
<1>2. Len(code') \in Nat /\ Len(code) \in Nat /\ Len(prog) \in Nat /\ Len(code) <= Len(prog)
  BY DEF IInv, Requests, Chain
<1>3. Len(code') <= Len(prog)
  BY <1>2
<1> QED BY <1>1, <1>3 DEF IInv

LEMMA IterLoadStep ==
  ASSUME IInv, NEW j \in DOMAIN code, IterLoad(j)
  PROVE  IInv'
<1> DEFINE i == code[j]
           b == SubSeq(code, 1, j - 1)
           w == FindLoad(b, i)
           rest == RemoveAt(code, j)
<1>1. /\ Chain(code, Len(prog)) /\ code \in Seq(Insns) /\ Len(code) \in Nat /\ Len(prog) \in Nat
      /\ ret \in Seq(Value) /\ Len(ret) \in Nat /\ DOMAIN ret = 1 .. Len(ret)
      /\ \A n \in 1 .. Len(ret) : Emitted(ret[n], code, Len(code))
  BY DEF IInv, Requests, Chain
<1>2. j \in 1 .. Len(code)
  BY <1>1
<1>3. /\ IsLoad(i) /\ w # NoValue
      /\ code' = [k \in DOMAIN rest |-> [rest[k] EXCEPT !.v = Subst(@, code[j].n, w)]]
      /\ ret' = [n \in DOMAIN ret |-> Subst(ret[n], code[j].n, w)]
      /\ UNCHANGED <<addrs, folding, prog>>
  BY DEF IterLoad
<1>4. w \in Value /\ Emitted(w, code, j - 1)
  <2>1. b = SubSeq(code, 1, j - 1)
    OBVIOUS
  <2> HIDE DEF b
  <2>2. Chain(b, Len(prog)) /\ \A v : Emitted(v, b, Len(b)) => Emitted(v, code, j - 1)
    BY Zenon, <1>1, <1>2, <2>1, PrefixChain
  <2>3. w \in Value /\ Emitted(w, b, Len(b))
    BY Zenon, <2>2, FindLoadFacts
  <2> QED BY Zenon, <2>2, <2>3
<1>5. rest = RemoveAt(code, j)
  OBVIOUS
<1> HIDE DEF w, rest
<1>6. /\ Chain(code', Len(prog)) /\ Len(code') = Len(code) - 1
      /\ \A v \in Value : Emitted(v, code, Len(code)) => Emitted(Subst(v, code[j].n, w), code', Len(code'))
  <2>1. Chain(code, Len(prog)) /\ Len(prog) \in Nat /\ IsLoad(code[j])
    BY <1>1, <1>3
  <2>2. code' = Replaced(code, j, w)
    BY Zenon, <1>3, <1>5 DEF Replaced
  <2> QED BY <1>2, <1>4, <2>1, <2>2, ReplaceLoad
<1>7. \A n \in 1 .. Len(ret) : ret[n] \in Value /\ ret'[n] = Subst(ret[n], code[j].n, w)
  BY <1>1, <1>3
<1>8. \A n \in 1 .. Len(ret) : ret'[n] \in Value /\ Emitted(ret'[n], code', Len(code'))
  <2> SUFFICES ASSUME NEW n \in 1 .. Len(ret)
               PROVE  ret'[n] \in Value /\ Emitted(ret'[n], code', Len(code'))
    OBVIOUS
  <2>1. ret[n] \in Value /\ ret'[n] = Subst(ret[n], code[j].n, w) /\ Emitted(ret[n], code, Len(code))
    BY <1>1, <1>7
  <2>2. Subst(ret[n], code[j].n, w) \in Value
    BY <1>4, <2>1, SubstFacts
  <2> QED BY Zenon, <1>6, <2>1, <2>2
<1>9. ret' \in Seq(Value) /\ Len(ret') = Len(ret)
  <2>1. ret' \in [1 .. Len(ret) -> Value]
    BY Zenon, <1>1, <1>3, <1>7, <1>8
  <2> QED BY <1>1, <2>1
<1>10. Len(code') <= Len(code)
  BY <1>1, <1>6
<1>11. UNCHANGED <<addrs, folding, prog>>
  BY Zenon, <1>3
<1>12. \A n \in 1 .. Len(ret) : Emitted(ret'[n], code', Len(code'))
  BY Zenon, <1>8
<1> QED BY <1>6, <1>9, <1>10, <1>11, <1>12, Iteration

LEMMA IterStoreStep ==
  ASSUME IInv, NEW j \in DOMAIN code, IterStore(j)
  PROVE  IInv'
<1> DEFINE i == code[j]
           b == SubSeq(code, 1, j - 1)
           f == FindStore(b, i)
           v == NoBitcast(i.v)
           kept == [code EXCEPT ![j].v = v, ![j].t = TypeOf(v)]
<1>1. /\ Chain(code, Len(prog)) /\ code \in Seq(Insns) /\ Len(code) \in Nat /\ Len(prog) \in Nat
      /\ ret \in Seq(Value) /\ Len(ret) \in Nat
      /\ \A n \in 1 .. Len(ret) : Emitted(ret[n], code, Len(code))
  BY DEF IInv, Requests, Chain
<1>2. j \in 1 .. Len(code) /\ code[j] \in Insns
  BY <1>1
<1>3. /\ IsStore(code[j])
      /\ code' = IF f.dead THEN RemoveAt(code, j)
                 ELSE IF f.kill > 0 THEN RemoveAt(kept, f.kill) ELSE kept
      /\ UNCHANGED <<addrs, folding, prog>> /\ ret' = ret
  BY DEF IterStore
<1>4. v \in Value /\ v.root = code[j].v.root /\ TypeOf(v) \in Type
  <2>1. code[j].v \in Value
    BY Zenon, <1>2 DEF Insns
  <2> QED BY Zenon, <2>1, NoBitcastFacts
<1>5. f.kill \in 0 .. j - 1 /\ (f.kill > 0 => IsStore(code[f.kill]))
  <2>1. b = SubSeq(code, 1, j - 1)
    OBVIOUS
  <2> HIDE DEF b
  <2>2. b \in Seq(Insns) /\ Len(b) = j - 1 /\ \A k \in 1 .. j - 1 : b[k] = code[k]
    BY <1>1, <1>2, <2>1
  <2>3. f.kill \in 0 .. Len(b) /\ (f.kill > 0 => IsStore(b[f.kill]))
    BY Zenon, <2>2, FindStoreFacts
  <2> HIDE DEF f
  <2>4. f.kill > 0 => f.kill \in 1 .. j - 1
    BY <1>1, <1>2, <2>2, <2>3
  <2> QED BY Zenon, <2>2, <2>3, <2>4
<1>6. /\ Chain(kept, Len(prog)) /\ Len(kept) = Len(code)
      /\ \A k \in 1 .. Len(code) : kept[k].op = code[k].op
      /\ \A w : Emitted(w, code, Len(code)) => Emitted(w, kept, Len(kept))
  <2>1. kept = Retyped(code, j, v, TypeOf(v))
    BY Zenon DEF Retyped
  <2> HIDE DEF v, kept
  <2>2. Chain(code, Len(prog)) /\ Len(prog) \in Nat
    BY <1>1
  <2> QED BY <1>2, <1>4, <2>1, <2>2, RetypeStore
<1> HIDE DEF f, v, kept
<1>7. CASE code' = RemoveAt(code, j)
  <2>1. /\ Chain(code', Len(prog)) /\ Len(code') = Len(code) - 1
        /\ \A x : Emitted(x, code, Len(code)) => Emitted(x, code', Len(code) - 1)
    <3>1. Chain(code, Len(prog)) /\ Len(prog) \in Nat /\ IsStore(code[j])
      BY <1>1, <1>3
    <3> QED BY <1>2, <1>7, <3>1, RemoveStore
  <2>2. \A n \in 1 .. Len(ret) : Emitted(ret'[n], code', Len(code'))
    BY Zenon, <1>1, <1>3, <2>1
  <2>3. Len(code') <= Len(code) /\ Len(ret') = Len(ret)
    BY <1>1, <1>3, <2>1
  <2> QED BY <1>1, <1>3, <2>1, <2>2, <2>3, Iteration
<1>8. CASE f.kill > 0 /\ code' = RemoveAt(kept, f.kill)
  <2>1. f.kill \in 1 .. Len(kept) /\ f.kill \in 1 .. Len(code)
    BY <1>1, <1>2, <1>5, <1>6, <1>8
  <2>2. IsStore(kept[f.kill])
    BY <1>5, <1>6, <1>8, <2>1 DEF IsStore
  <2>3. /\ Chain(code', Len(prog)) /\ Len(code') = Len(kept) - 1
        /\ \A x : Emitted(x, kept, Len(kept)) => Emitted(x, code', Len(kept) - 1)
    BY Zenon, <1>1, <1>6, <1>8, <2>1, <2>2, RemoveStore
  <2>4. \A n \in 1 .. Len(ret) : Emitted(ret'[n], code', Len(code'))
    BY Zenon, <1>1, <1>3, <1>6, <2>3
  <2>5. Len(code') <= Len(code) /\ Len(ret') = Len(ret)
    BY <1>1, <1>3, <1>6, <2>3
  <2> QED BY <1>1, <1>3, <2>3, <2>4, <2>5, Iteration
<1>9. CASE code' = kept
  <2>1. \A n \in 1 .. Len(ret) : Emitted(ret'[n], code', Len(code'))
    BY Zenon, <1>1, <1>3, <1>6, <1>9
  <2>2. Len(code') <= Len(code) /\ Len(ret') = Len(ret)
    BY <1>1, <1>3, <1>6, <1>9
  <2>3. Chain(code', Len(prog))
    BY Zenon, <1>6, <1>9
  <2> QED BY <1>1, <1>3, <2>1, <2>2, <2>3, Iteration
<1> QED BY Zenon, <1>3, <1>7, <1>8, <1>9

LEMMA NextInv ==
  ASSUME IInv, [Next]_vars
  PROVE  IInv'
<1>1. CASE \E t \in Type, a \in addrs : LOAD(t, a) \/ \E v \in Values(t) : STORE(a, t, v)
  BY <1>1, LOADStep, STOREStep
<1>2. CASE \E t \in VarTypes : VLOAD(t) \/ \E v \in Values(t) : VSTORE(t, v)
  BY <1>2, VLOADStep, VSTOREStep
<1>3. CASE \E op \in {"GUARD", "IF", "CALL", "PURE"} : Control(op)
  BY <1>3, ControlStep
<1>4. CASE \E j \in DOMAIN code : IterLoad(j) \/ IterStore(j)
  BY <1>4, IterLoadStep, IterStoreStep
<1>5. CASE UNCHANGED vars
  BY <1>5 DEF vars, IInv, Requests, Chain, Emitted
<1> QED BY <1>1, <1>2, <1>3, <1>4, <1>5 DEF Next

LEMMA InitInv == Init => IInv
<1> SUFFICES ASSUME Init PROVE IInv
  OBVIOUS
<1>1. prog = <<>> /\ code = <<>> /\ ret = <<>> /\ addrs \in AddrSets /\ folding \in BOOLEAN
  BY DEF Init
<1>2. \A S : <<>> \in Seq(S) /\ Len(<<>>) = 0
  OBVIOUS
<1>3. Requests
  BY <1>1, StepsAssumption DEF Requests
<1>4. Chain(code, Len(prog)) /\ Len(code) <= Len(prog)
  BY <1>1 DEF Chain
<1> QED BY <1>1, <1>3, <1>4 DEF IInv

LEMMA InvWellFormed == IInv => WellFormed
<1> SUFFICES ASSUME IInv PROVE WellFormed
  OBVIOUS
<1>1. /\ Chain(code, Len(prog)) /\ code \in Seq(Insns) /\ Len(code) \in Nat /\ Len(prog) \in Nat
      /\ prog \in Seq(Insns) /\ DOMAIN code = 1 .. Len(code) /\ DOMAIN prog = 1 .. Len(prog)
      /\ DOMAIN ret = 1 .. Len(prog) /\ Len(prog) <= Steps /\ Len(code) <= Len(prog)
      /\ ret \in Seq(Value) /\ Len(ret) = Len(prog)
  BY DEF IInv, Requests, Chain
<1>2. \A i \in Range(prog) : i.op \in {"LOAD", "STORE"} => i.a \in addrs
  BY <1>1 DEF IInv, Requests, Range
<1>3. \A i \in Range(code) : IsStore(i) => TypeOf(i.v) = i.t
  BY <1>1 DEF Chain, Range
<1>4. TypeOK
  BY <1>1, <1>2, <1>3 DEF TypeOK, IInv, Requests
<1>5. \A j, k \in DOMAIN code : j < k => code[j].n < code[k].n
  BY <1>1 DEF Chain
<1>6. ASSUME NEW j \in DOMAIN code, code[j].v.root > 0
      PROVE  \E i \in Range(SubSeq(code, 1, j - 1)) : IsLoad(i) /\ i.n = code[j].v.root
  <2> DEFINE b == SubSeq(code, 1, j - 1)
  <2>1. b = SubSeq(code, 1, j - 1)
    OBVIOUS
  <2> HIDE DEF b
  <2>2. Len(b) = j - 1 /\ (\A k \in 1 .. j - 1 : b[k] = code[k]) /\ b \in Seq(Insns)
    BY <1>1, <2>1
  <2>3. PICK k \in 1 .. j - 1 : IsLoad(code[k]) /\ code[k].n = code[j].v.root
    BY <1>1, <1>6 DEF Chain, Emitted
  <2>4. k \in DOMAIN b /\ b[k] = code[k]
    BY <2>2, <2>3
  <2> QED BY Zenon, <2>1, <2>3, <2>4 DEF Range
<1>7. ASSUME NEW n \in DOMAIN ret, ret[n].root > 0
      PROVE  \E i \in Range(code) : IsLoad(i) /\ i.n = ret[n].root
  <2>1. PICK k \in 1 .. Len(code) : IsLoad(code[k]) /\ code[k].n = ret[n].root
    BY <1>1, <1>7 DEF IInv, Emitted
  <2> QED BY Zenon, <1>1, <2>1 DEF Range
<1> QED BY Zenon, <1>4, <1>5, <1>6, <1>7 DEF WellFormed

(* Whatever ir_find_aliasing_load, _vload, _store and _vstore decide, in   *)
(* the builder or in the iterative pass, no load is taken off the control  *)
(* chain while a value in use starts from it, no use comes before its      *)
(* load, and a store keeps the type of its operand; in programs of every   *)
(* length, over any addresses.                                             *)
THEOREM ChainStaysWellFormed == Spec => []WellFormed
<1>1. Init => IInv
  BY InitInv
<1>2. IInv /\ [Next]_vars => IInv'
  BY NextInv
<1>3. IInv => WellFormed
  BY InvWellFormed
<1> QED BY <1>1, <1>2, <1>3, PTL DEF Spec

=============================================================================
