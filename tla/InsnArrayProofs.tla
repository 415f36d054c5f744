--------------------------- MODULE InsnArrayProofs ---------------------------
(***************************************************************************)
(* The two-way array of ir.c keeps its promises for every chunk size,      *)
(* every bound and every kind of entry.                                    *)
(*                                                                         *)
(* ArrayTypeOK alone is not inductive: ir_grow_top doubles the limit, so that   *)
(* limits and counts must be known to start above zero and the loop of     *)
(* ir_emit_N must be known to reach the reference it grows for; and        *)
(* use_lists[], allocated by a limit that ir_truncate may lower later,     *)
(* must be known to be at least as long as the current limit.              *)
(***************************************************************************)
EXTENDS InsnArray, Sequences, WellFoundedInduction, TLAPS

(* use_lists[] is not built, or is an array that covers the limit *)
UsesCover ==
  \/ use_counts = << >>
  \/ \E n \in Nat : n >= insns_limit /\ use_counts \in [0 .. n - 1 -> {0, 1}]

(* Every reference handed out denotes an entry that was filled in *)
Filled ==
  /\ \A i \in 1 .. consts_count - 1 : buf[consts_limit - i] \in Insn
  /\ \A i \in 1 .. insns_count - 1 : buf[consts_limit + i] \in Insn

IInv ==
  /\ ArrayTypeOK
  /\ consts_count > 0 /\ insns_count > 0
  /\ UsesCover
  /\ FreshRefsUnused
  /\ Filled

-----------------------------------------------------------------------------
(* A set of numbers that holds 0, and the successor of each member below   *)
(* the bound, holds all numbers up to the bound: the induction principle   *)
(* for sets.                                                               *)
LEMMA SetInduction ==
  ASSUME NEW N \in Nat, NEW S, 0 \in S, \A n \in 0 .. N - 1 : n \in S => n + 1 \in S
  PROVE  \A n \in 0 .. N : n \in S
<1> DEFINE T == {n \in 0 .. N : n \notin S}
<1>1. SUFFICES ASSUME T # {} PROVE FALSE
  BY Zenon
<1>2. T \subseteq Nat
  OBVIOUS
<1>3. PICK m \in T : \A k \in T : <<k, m>> \notin OpToRel(<, Nat)
  BY Zenon, <1>1, <1>2, WFMin, NatLessThanWellFounded
<1>4. m \in Nat /\ m # 0 /\ m <= N
  OBVIOUS
<1>5. m - 1 \notin T
  <2>1. m - 1 \in Nat /\ m \in Nat /\ m - 1 < m
    BY <1>4
  <2>2. <<m - 1, m>> \in OpToRel(<, Nat)
    BY Zenon, <2>1 DEF OpToRel
  <2> QED BY Zenon, <2>2, <1>3
<1>6. m - 1 \in S
  BY <1>4, <1>5
<1> QED BY <1>4, <1>6

(* Growing a limit makes it larger. *)
LEMMA GrownIsLarger ==
  ASSUME NEW limit \in Nat \ {0}
  PROVE  Grown(limit) \in Nat /\ Grown(limit) > limit
BY ChunkAssumption DEF Grown

(* The loop of ir_emit_N ends with a limit above the last reference it     *)
(* needs: each turn adds at least one entry, and there are as many turns   *)
(* as entries are emitted.                                                 *)
LEMMA TopLimitReaches ==
  ASSUME NEW ref \in Nat, insns_limit \in Nat \ {0}, ref < insns_limit + MAX_N
  PROVE  /\ TopLimit(ref) \in Nat
         /\ TopLimit(ref) >= insns_limit
         /\ TopLimit(ref) > ref
<1> DEFINE Step(l) == IF NeedsTop(ref, l) THEN Grown(l) ELSE l
           Def(f)  == f = [k \in 0 .. MAX_N |->
                             IF k = 0 THEN insns_limit
                             ELSE IF NeedsTop(ref, f[k - 1]) THEN Grown(f[k - 1]) ELSE f[k - 1]]
           tries   == CHOOSE f : Def(f)
<1>1. TopLimit(ref) = tries[MAX_N]
  BY Zenon DEF TopLimit
<1>2. \A l \in Nat \ {0} : Step(l) \in Nat \ {0} /\ Step(l) >= l /\ (ref >= l => Step(l) > l)
  BY GrownIsLarger DEF NeedsTop
<1>3. \E f : Def(f)
  <2> DEFINE Upto(f, n) == /\ f \in [0 .. n -> Nat \ {0}]
                           /\ f[0] = insns_limit
                           /\ \A k \in 1 .. n : f[k] = Step(f[k - 1])
             S == {n \in 0 .. MAX_N : \E f : Upto(f, n)}
  <2> HIDE DEF Step
  <2>1. 0 \in S
    <3>1. Upto([k \in 0 .. 0 |-> insns_limit], 0)
      OBVIOUS
    <3>2. 0 \in 0 .. MAX_N
      BY CountAssumption
    <3> QED BY Zenon, <3>1, <3>2
  <2>2. ASSUME NEW n \in 0 .. MAX_N - 1, n \in S PROVE n + 1 \in S
    <3>1. PICK f : Upto(f, n)
      BY <2>2
    <3> DEFINE g == [k \in 0 .. n + 1 |-> IF k <= n THEN f[k] ELSE Step(f[n])]
    <3>2. Upto(g, n + 1)
      BY <3>1, <1>2
    <3>3. n + 1 \in 0 .. MAX_N
      BY CountAssumption
    <3> HIDE DEF Upto, g
    <3> QED BY <3>2, <3>3
  <2>3. MAX_N \in S
    <3> HIDE DEF S
    <3> QED BY <2>1, <2>2, SetInduction, CountAssumption
  <2>4. PICK f : Upto(f, MAX_N)
    BY <2>3
  <2>5. Def(f)
    BY <2>4, CountAssumption DEF Step
  <2> QED BY <2>5
<1>4. Def(tries)
  <2> HIDE DEF Def
  <2> QED BY Zenon, <1>3
<1> HIDE DEF tries
<1>5. tries[0] = insns_limit /\ \A k \in 1 .. MAX_N : tries[k] = Step(tries[k - 1])
  BY <1>4, CountAssumption
<1> DEFINE R == {k \in 0 .. MAX_N : /\ tries[k] \in Nat \ {0}
                                    /\ tries[k] >= insns_limit
                                    /\ tries[k] > ref \/ tries[k] >= insns_limit + k}
<1>6. 0 \in R
  BY <1>5, CountAssumption
<1>7. ASSUME NEW k \in 0 .. MAX_N - 1, k \in R PROVE k + 1 \in R
  <2>1. k + 1 \in 1 .. MAX_N /\ tries[k + 1] = Step(tries[k])
    BY <1>5, CountAssumption
  <2> HIDE DEF Step, Def
  <2> QED BY <2>1, <1>2, <1>7
<1>8. MAX_N \in R
  <2> HIDE DEF R
  <2> QED BY <1>6, <1>7, SetInduction, CountAssumption
<1> QED BY <1>1, <1>8, CountAssumption

-----------------------------------------------------------------------------
LEMMA InitInv == ArrayInit => IInv
<1> SUFFICES ASSUME ArrayInit PROVE IInv
  OBVIOUS
<1>1. consts_limit \in 4 .. 5 /\ insns_limit \in 1 .. 2 /\ consts_count = 4 /\ insns_count = 1
  <2>1. IR_CONSTS_LIMIT_MIN = 4
    <3>1. IR_TRUE = 0 - 3 /\ IR_TRUE - 1 \in Int
      BY DEF IR_TRUE
    <3>2. \A n \in Int : -n = 0 - n
      OBVIOUS
    <3>3. IR_CONSTS_LIMIT_MIN = 0 - (IR_TRUE - 1)
      BY <3>1, <3>2 DEF IR_CONSTS_LIMIT_MIN
    <3> QED BY <3>1, <3>3
  <2> QED BY <2>1 DEF ArrayInit, IR_INSNS_LIMIT_MIN
<1>2. PICK reserved \in Insn :
        buf = [i \in 0 .. consts_limit + insns_limit - 1 |->
                 IF i - consts_limit \in IR_TRUE .. 0 THEN reserved ELSE Junk]
  BY DEF ArrayInit
<1>3. ArrayTypeOK
  BY <1>1, <1>2 DEF ArrayTypeOK
<1>4. Filled
  BY <1>1, <1>2 DEF Filled, IR_TRUE
<1>5. use_counts = << >>
  BY DEF ArrayInit
<1> QED BY <1>1, <1>3, <1>4, <1>5 DEF IInv, UsesCover, FreshRefsUnused

(* ir_next_const: the entry goes below the constants, the rest is carried  *)
(* along when the lower half grows.                                        *)
LEMMA NextConstEffect ==
  ASSUME IInv, NEW x \in Insn, NextConst(x)
  PROVE  /\ consts_limit' \in Nat /\ consts_count' = consts_count + 1
         /\ consts_count' <= consts_limit'
         /\ buf' \in [0 .. consts_limit' + insns_limit - 1 -> Insn \cup {Junk}]
         /\ buf'[consts_limit' - consts_count] = x
         /\ \A i \in 1 .. consts_count - 1 : buf'[consts_limit' - i] = buf[consts_limit - i]
         /\ \A i \in 1 .. insns_count - 1 : buf'[consts_limit' + i] = buf[consts_limit + i]
         /\ UNCHANGED <<insns_limit, insns_count, use_counts>>
<1> DEFINE grow      == consts_count >= consts_limit
           new_limit == IF grow THEN Grown(consts_limit) ELSE consts_limit
           moved     == IF grow THEN Slid(new_limit) ELSE buf
<1>1. /\ consts_limit' = new_limit
      /\ buf' = [moved EXCEPT ![new_limit - consts_count] = x]
      /\ consts_count' = consts_count + 1
      /\ UNCHANGED <<insns_limit, insns_count, use_counts>>
  BY DEF NextConst
<1>2. /\ consts_limit \in Nat \ {0} /\ insns_limit \in Nat
      /\ consts_count \in Nat \ {0} /\ insns_count \in Nat \ {0}
      /\ consts_count <= consts_limit /\ insns_count <= insns_limit
      /\ buf \in [0 .. consts_limit + insns_limit - 1 -> Insn \cup {Junk}]
  BY DEF IInv, ArrayTypeOK
<1>3. new_limit \in Nat /\ consts_count < new_limit /\ consts_limit <= new_limit
  BY <1>2, GrownIsLarger
<1>4. /\ moved \in [0 .. new_limit + insns_limit - 1 -> Insn \cup {Junk}]
      /\ \A k \in 1 - consts_limit .. insns_count - 1 : moved[new_limit + k] = buf[consts_limit + k]
  <2>1. CASE grow
    <3>1. Slid(new_limit) \in [0 .. new_limit + insns_limit - 1 -> Insn \cup {Junk}]
      <4> HIDE DEF new_limit, grow
      <4> QED BY <1>2, <1>3 DEF Slid
    <3>2. ASSUME NEW k \in 1 - consts_limit .. insns_count - 1
          PROVE  Slid(new_limit)[new_limit + k] = buf[consts_limit + k]
      <4> HIDE DEF new_limit, grow
      <4>1. new_limit + k \in 0 .. new_limit + insns_limit - 1
        BY <1>2, <1>3
      <4>2. /\ new_limit + k - (new_limit - consts_limit) = consts_limit + k
            /\ consts_limit + k \in 0 .. consts_limit + insns_count - 1
        BY <1>2, <1>3
      <4> QED BY <1>2, <1>3, <4>1, <4>2 DEF Slid
    <3> QED BY <2>1, <3>1, <3>2
  <2>2. CASE ~grow
    BY <1>2, <2>2
  <2> QED BY <2>1, <2>2
<1> HIDE DEF new_limit, moved, grow
<1>5. ASSUME NEW k \in 1 - consts_count .. insns_count - 1
      PROVE  buf'[new_limit + k] = buf[consts_limit + k]
  <2>1. /\ k \in 1 - consts_limit .. insns_count - 1
        /\ new_limit + k # new_limit - consts_count
        /\ new_limit + k \in 0 .. new_limit + insns_limit - 1
    BY <1>2, <1>3
  <2> QED BY <2>1, <1>1, <1>4
<1>6. ASSUME NEW i \in 1 .. consts_count - 1
      PROVE  buf'[new_limit - i] = buf[consts_limit - i]
  <2>1. -i \in 1 - consts_count .. insns_count - 1
    BY <1>2
  <2>2. buf'[new_limit + (-i)] = buf[consts_limit + (-i)]
    BY <1>5, <2>1
  <2> QED BY <1>2, <1>3, <2>2
<1>7. ASSUME NEW i \in 1 .. insns_count - 1
      PROVE  buf'[new_limit + i] = buf[consts_limit + i]
  <2>1. i \in 1 - consts_count .. insns_count - 1
    BY <1>2
  <2> QED BY <1>5, <2>1
<1> QED BY <1>1, <1>2, <1>3, <1>4, <1>6, <1>7

(* ir_emit and ir_emit_N: the entries go above the instructions, the rest  *)
(* stays where it is, and a use_lists[] that grows is zeroed.              *)
LEMMA EmitEffect ==
  ASSUME IInv, NEW x \in Insn, NEW n \in 1 .. MAX_N, Emit(n, x)
  PROVE  /\ insns_limit' \in Nat /\ insns_limit' >= insns_limit
         /\ insns_count' = insns_count + n /\ insns_count' <= insns_limit'
         /\ buf' \in [0 .. consts_limit + insns_limit' - 1 -> Insn \cup {Junk}]
         /\ \A k \in 0 .. consts_limit + insns_count - 1 : buf'[k] = buf[k]
         /\ \A i \in insns_count .. insns_count + n - 1 : buf'[consts_limit + i] = x
         /\ \/ use_counts' = use_counts /\ (use_counts = << >> \/ insns_limit' = insns_limit)
            \/ use_counts # << >> /\ use_counts' = GrownUses(insns_limit')
         /\ UNCHANGED <<consts_limit, consts_count>>
<1> DEFINE new_limit == TopLimit(insns_count + n - 1)
           grow      == new_limit # insns_limit
           moved     == IF grow THEN Realloc(buf, consts_limit + insns_limit,
                                             consts_limit + new_limit, Junk)
                                ELSE buf
<1>1. /\ insns_limit' = new_limit
      /\ buf' = [i \in DOMAIN moved |->
                   IF i - consts_limit \in insns_count .. insns_count + n - 1 THEN x ELSE moved[i]]
      /\ insns_count' = insns_count + n
      /\ use_counts' = IF use_counts # << >> /\ grow THEN GrownUses(new_limit) ELSE use_counts
      /\ UNCHANGED <<consts_limit, consts_count>>
  BY DEF Emit
<1>2. /\ consts_limit \in Nat \ {0} /\ insns_limit \in Nat \ {0}
      /\ insns_count \in Nat \ {0} /\ insns_count <= insns_limit
      /\ buf \in [0 .. consts_limit + insns_limit - 1 -> Insn \cup {Junk}]
      /\ n \in Nat \ {0} /\ n <= MAX_N
  BY CountAssumption DEF IInv, ArrayTypeOK
<1>3. new_limit \in Nat /\ new_limit >= insns_limit /\ new_limit > insns_count + n - 1
  <2>1. insns_count + n - 1 \in Nat /\ insns_count + n - 1 < insns_limit + MAX_N
    BY <1>2, CountAssumption
  <2> QED BY <1>2, <2>1, TopLimitReaches
<1> HIDE DEF new_limit
<1>4. /\ moved \in [0 .. consts_limit + new_limit - 1 -> Insn \cup {Junk}]
      /\ \A k \in 0 .. consts_limit + insns_count - 1 : moved[k] = buf[k]
  <2>1. CASE grow
    BY <1>2, <1>3, <2>1 DEF Realloc
  <2>2. CASE ~grow
    BY <1>2, <2>2
  <2> QED BY <2>1, <2>2
<1>5. \/ use_counts' = use_counts /\ (use_counts = << >> \/ new_limit = insns_limit)
      \/ use_counts # << >> /\ use_counts' = GrownUses(new_limit)
  BY <1>1
<1> HIDE DEF moved, grow
<1>6. /\ DOMAIN moved = 0 .. consts_limit + new_limit - 1
      /\ buf' \in [0 .. consts_limit + new_limit - 1 -> Insn \cup {Junk}]
  BY <1>1, <1>4
<1>7. ASSUME NEW k \in 0 .. consts_limit + insns_count - 1 PROVE buf'[k] = buf[k]
  <2>1. /\ k \in 0 .. consts_limit + new_limit - 1
        /\ k - consts_limit \notin insns_count .. insns_count + n - 1
    BY <1>2, <1>3
  <2> QED BY <1>1, <1>4, <1>6, <2>1
<1>8. ASSUME NEW i \in insns_count .. insns_count + n - 1 PROVE buf'[consts_limit + i] = x
  <2>1. /\ consts_limit + i \in 0 .. consts_limit + new_limit - 1
        /\ consts_limit + i - consts_limit = i
    BY <1>2, <1>3
  <2> QED BY <1>1, <1>2, <1>6, <2>1
<1>9. /\ insns_limit' \in Nat /\ insns_limit' >= insns_limit
      /\ insns_count' = insns_count + n /\ insns_count' <= insns_limit'
  BY <1>1, <1>2, <1>3
<1>10. insns_limit' = new_limit /\ UNCHANGED <<consts_limit, consts_count>>
  BY <1>1
<1> QED BY ONLY Zenon, <1>5, <1>6, <1>7, <1>8, <1>9, <1>10

(* ir_truncate: the used middle of the buffer becomes the buffer. *)
LEMMA TruncateEffect ==
  ASSUME IInv, Truncate
  PROVE  /\ consts_limit' = consts_count /\ insns_limit' = insns_count
         /\ buf' \in [0 .. consts_count + insns_count - 1 -> Insn \cup {Junk}]
         /\ \A i \in 1 .. consts_count - 1 : buf'[consts_count - i] = buf[consts_limit - i]
         /\ \A i \in 1 .. insns_count - 1 : buf'[consts_count + i] = buf[consts_limit + i]
         /\ UNCHANGED <<consts_count, insns_count, use_counts>>
<1>1. /\ buf' = [i \in 0 .. consts_count + insns_count - 1 |-> buf[consts_limit - consts_count + i]]
      /\ consts_limit' = consts_count /\ insns_limit' = insns_count
      /\ UNCHANGED <<consts_count, insns_count, use_counts>>
  BY DEF Truncate
<1>2. /\ consts_limit \in Nat \ {0} /\ insns_limit \in Nat
      /\ consts_count \in Nat \ {0} /\ insns_count \in Nat \ {0}
      /\ consts_count <= consts_limit /\ insns_count <= insns_limit
      /\ buf \in [0 .. consts_limit + insns_limit - 1 -> Insn \cup {Junk}]
  BY DEF IInv, ArrayTypeOK
<1>3. buf' \in [0 .. consts_count + insns_count - 1 -> Insn \cup {Junk}]
  <2>1. ASSUME NEW i \in 0 .. consts_count + insns_count - 1
        PROVE  buf[consts_limit - consts_count + i] \in Insn \cup {Junk}
    <3>1. consts_limit - consts_count + i \in 0 .. consts_limit + insns_limit - 1
      BY <1>2
    <3> QED BY <1>2, <3>1
  <2> QED BY <1>1, <2>1
<1>4. ASSUME NEW i \in 1 .. consts_count - 1 PROVE buf'[consts_count - i] = buf[consts_limit - i]
  <2>1. /\ consts_count - i \in 0 .. consts_count + insns_count - 1
        /\ consts_limit - consts_count + (consts_count - i) = consts_limit - i
    BY <1>2
  <2> QED BY <1>1, <2>1
<1>5. ASSUME NEW i \in 1 .. insns_count - 1 PROVE buf'[consts_count + i] = buf[consts_limit + i]
  <2>1. /\ consts_count + i \in 0 .. consts_count + insns_count - 1
        /\ consts_limit - consts_count + (consts_count + i) = consts_limit + i
    BY <1>2
  <2> QED BY <1>1, <2>1
<1> QED BY <1>1, <1>3, <1>4, <1>5

(* The growth of the lower half moves everything, use_lists[] apart. *)
LEMMA NextConstInv ==
  ASSUME IInv, NEW x \in Insn, NextConst(x)
  PROVE  IInv'
<1>1. ArrayTypeOK' /\ consts_count' > 0 /\ insns_count' > 0
  BY NextConstEffect DEF IInv, ArrayTypeOK
<1>2. Filled'
  <2>1. ASSUME NEW i \in 1 .. consts_count' - 1 PROVE buf'[consts_limit' - i] \in Insn
    <3>1. consts_count \in Nat /\ consts_count' = consts_count + 1
      BY NextConstEffect DEF IInv, ArrayTypeOK
    <3>2. CASE i = consts_count
      BY <3>2, NextConstEffect
    <3>3. CASE i # consts_count
      <4>1. i \in 1 .. consts_count - 1
        BY <3>1, <3>3
      <4> QED BY <4>1, NextConstEffect DEF IInv, Filled
    <3> QED BY <3>2, <3>3
  <2>2. \A i \in 1 .. insns_count' - 1 : buf'[consts_limit' + i] \in Insn
    BY NextConstEffect DEF IInv, Filled
  <2> QED BY <2>1, <2>2 DEF Filled
<1>3. UsesCover' /\ FreshRefsUnused'
  BY NextConstEffect DEF IInv, UsesCover, FreshRefsUnused
<1> QED BY <1>1, <1>2, <1>3 DEF IInv

LEMMA EmitInv ==
  ASSUME IInv, NEW x \in Insn, NEW n \in 1 .. MAX_N, Emit(n, x)
  PROVE  IInv'
<1>1. /\ insns_limit \in Nat \ {0} /\ insns_count \in Nat \ {0} /\ insns_count <= insns_limit
      /\ consts_limit \in Nat /\ consts_count \in Nat \ {0} /\ consts_count <= consts_limit
      /\ n \in Nat \ {0}
  BY CountAssumption DEF IInv, ArrayTypeOK
<1>2. /\ insns_limit' \in Nat /\ insns_limit' >= insns_limit
      /\ insns_count' = insns_count + n /\ insns_count' <= insns_limit'
      /\ consts_limit' = consts_limit /\ consts_count' = consts_count
  BY Zenon, EmitEffect
<1>3. ArrayTypeOK' /\ consts_count' > 0 /\ insns_count' > 0
  <2>1. buf' \in [0 .. consts_limit' + insns_limit' - 1 -> Insn \cup {Junk}]
    BY Zenon, <1>2, EmitEffect
  <2>2. insns_count' \in Nat /\ insns_count' > 0
    BY <1>1, <1>2
  <2>3. consts_limit' \in Nat /\ consts_count' \in Nat /\ consts_count' > 0
        /\ consts_count' <= consts_limit'
    BY <1>1, <1>2
  <2> QED BY Zenon, <1>2, <2>1, <2>2, <2>3 DEF ArrayTypeOK
<1>4. Filled'
  <2>1. ASSUME NEW i \in 1 .. consts_count - 1 PROVE buf'[consts_limit - i] \in Insn
    <3>1. consts_limit - i \in 0 .. consts_limit + insns_count - 1
      BY <1>1
    <3> QED BY <3>1, EmitEffect DEF IInv, Filled
  <2>2. ASSUME NEW i \in 1 .. insns_count' - 1 PROVE buf'[consts_limit + i] \in Insn
    <3>1. CASE i < insns_count
      <4>1. consts_limit + i \in 0 .. consts_limit + insns_count - 1 /\ i \in 1 .. insns_count - 1
        BY <1>1, <1>2, <3>1
      <4> QED BY <4>1, EmitEffect DEF IInv, Filled
    <3>2. CASE i >= insns_count
      <4>1. i \in insns_count .. insns_count + n - 1
        BY <1>1, <1>2, <3>2
      <4> QED BY <4>1, EmitEffect
    <3>3. i \in Int
      BY <1>1, <1>2
    <3> QED BY <1>1, <3>1, <3>2, <3>3
  <2> QED BY Zenon, <1>2, <2>1, <2>2 DEF Filled
<1>5. UsesCover' /\ FreshRefsUnused'
  <2>1. CASE use_counts' = use_counts /\ (use_counts = << >> \/ insns_limit' = insns_limit)
    <3>1. CASE use_counts = << >>
      BY <2>1, <3>1 DEF UsesCover, FreshRefsUnused
    <3>2. CASE use_counts # << >> /\ insns_limit' = insns_limit
      <4>1. \A ref \in insns_count' .. insns_limit - 1 : ref \in insns_count .. insns_limit - 1
        BY <1>1, <1>2
      <4>2. UsesCover'
        BY <2>1, <3>2 DEF IInv, UsesCover
      <4> QED BY <2>1, <3>2, <4>1, <4>2 DEF IInv, FreshRefsUnused
    <3> QED BY <2>1, <3>1, <3>2
  <2>2. CASE use_counts # << >> /\ use_counts' = GrownUses(insns_limit')
    <3>1. PICK m \in Nat : m >= insns_limit /\ use_counts \in [0 .. m - 1 -> {0, 1}]
      BY <2>2 DEF IInv, UsesCover
    <3>2. use_counts' = [i \in 0 .. insns_limit' - 1 |-> IF i < insns_limit THEN use_counts[i] ELSE 0]
      BY <2>2 DEF GrownUses, Realloc
    <3>3. use_counts' \in [0 .. insns_limit' - 1 -> {0, 1}]
      <4>1. \A i \in 0 .. insns_limit' - 1 : i < insns_limit => i \in 0 .. m - 1
        BY <1>1, <1>2, <3>1
      <4> QED BY <3>1, <3>2, <4>1
    <3>4. ASSUME NEW ref \in insns_count' .. insns_limit' - 1 PROVE use_counts'[ref] = 0
      <4>1. insns_count' \in Nat /\ ref \in Int
        BY <1>1, <1>2
      <4>2. ref \in 0 .. insns_limit' - 1
        <5>1. \A a, b \in Nat : \A r \in a .. b - 1 : r \in 0 .. b - 1
          OBVIOUS
        <5> QED BY Zenon, <1>2, <4>1, <5>1
      <4>3. ref < insns_limit => ref \in insns_count .. insns_limit - 1
        BY <1>1, <1>2, <4>1
      <4> QED BY <2>2, <3>2, <4>2, <4>3 DEF IInv, FreshRefsUnused
    <3>5. UsesCover'
      <4>1. insns_limit' >= insns_limit'
        BY <1>2
      <4> QED BY Zenon, <1>2, <3>3, <4>1 DEF UsesCover
    <3> QED BY <3>3, <3>4, <3>5 DEF FreshRefsUnused
  <2> QED BY <2>1, <2>2, EmitEffect
<1> QED BY <1>3, <1>4, <1>5 DEF IInv

LEMMA SetInv ==
  ASSUME IInv, NEW ref, NEW x \in Insn, Set(ref, x)
  PROVE  IInv'
<1>1. /\ ref \in 1 .. insns_count - 1
      /\ buf' = [buf EXCEPT ![consts_limit + ref] = x]
      /\ UNCHANGED <<consts_limit, insns_limit, consts_count, insns_count, use_counts>>
  BY DEF Set
<1>2. ArrayTypeOK'
  BY <1>1 DEF IInv, ArrayTypeOK
<1>3. Filled'
  <2>1. /\ consts_limit \in Nat /\ insns_limit \in Nat /\ insns_count \in Nat
        /\ consts_count \in Nat /\ consts_count <= consts_limit /\ insns_count <= insns_limit
        /\ buf \in [0 .. consts_limit + insns_limit - 1 -> Insn \cup {Junk}]
    BY DEF IInv, ArrayTypeOK
  <2>2. ASSUME NEW k \in 0 .. consts_limit + insns_limit - 1, buf[k] \in Insn
        PROVE  buf'[k] \in Insn
    BY <1>1, <2>1, <2>2
  <2>3. ASSUME NEW i \in 1 .. consts_count - 1 PROVE buf'[consts_limit - i] \in Insn
    BY <2>1, <2>2 DEF IInv, Filled
  <2>4. ASSUME NEW i \in 1 .. insns_count - 1 PROVE buf'[consts_limit + i] \in Insn
    BY <2>1, <2>2 DEF IInv, Filled
  <2> QED BY <1>1, <2>3, <2>4 DEF Filled
<1> QED BY <1>1, <1>2, <1>3 DEF IInv, UsesCover, FreshRefsUnused

LEMMA TruncateInv ==
  ASSUME IInv, Truncate
  PROVE  IInv'
<1>1. ArrayTypeOK' /\ consts_count' > 0 /\ insns_count' > 0
  BY TruncateEffect DEF IInv, ArrayTypeOK
<1>2. Filled'
  BY TruncateEffect DEF IInv, Filled
<1>3. UsesCover' /\ FreshRefsUnused'
  <2>1. insns_limit' <= insns_limit /\ insns_limit' \in Nat /\ insns_limit \in Nat
        /\ insns_limit' = insns_count' /\ use_counts' = use_counts
    BY TruncateEffect DEF IInv, ArrayTypeOK
  <2>2. CASE use_counts = << >>
    BY <2>1, <2>2 DEF UsesCover, FreshRefsUnused
  <2>3. CASE use_counts # << >>
    <3>1. PICK n \in Nat : n >= insns_limit /\ use_counts \in [0 .. n - 1 -> {0, 1}]
      BY <2>3 DEF IInv, UsesCover
    <3>2. n >= insns_limit' /\ use_counts' \in [0 .. n - 1 -> {0, 1}]
      BY <2>1, <3>1
    <3>3. 0 .. insns_limit' - 1 \subseteq DOMAIN use_counts'
      <4>1. \A i \in 0 .. insns_limit' - 1 : i \in 0 .. n - 1
        <5>1. \A a \in Nat : n >= a => \A i \in 0 .. a - 1 : i \in 0 .. n - 1
          OBVIOUS
        <5> QED BY Zenon, <2>1, <3>2, <5>1
      <4>2. DOMAIN use_counts' = 0 .. n - 1
        BY <3>2
      <4> QED BY <4>1, <4>2
    <3>4. \A ref : ref \notin insns_limit' .. insns_limit' - 1
      <4>1. \A a \in Nat : \A ref : ref \notin a .. a - 1
        OBVIOUS
      <4> QED BY Zenon, <2>1, <4>1
    <3> QED BY <2>1, <3>2, <3>3, <3>4 DEF UsesCover, FreshRefsUnused
  <2> QED BY <2>2, <2>3
<1> QED BY <1>1, <1>2, <1>3 DEF IInv

LEMMA BuildUsesInv ==
  ASSUME IInv, BuildUses
  PROVE  IInv'
<1>1. PICK used \in SUBSET (1 .. insns_count - 1) :
        use_counts' = [i \in 0 .. insns_limit - 1 |-> IF i \in used THEN 1 ELSE 0]
  BY DEF BuildUses
<1>2. UNCHANGED <<buf, consts_limit, insns_limit, consts_count, insns_count>>
  BY DEF BuildUses
<1>3. UsesCover' /\ FreshRefsUnused'
  BY <1>1, <1>2 DEF IInv, ArrayTypeOK, UsesCover, FreshRefsUnused
<1> QED BY <1>2, <1>3 DEF IInv, ArrayTypeOK, Filled

LEMMA StutterInv == IInv /\ UNCHANGED arrayVars => IInv'
BY DEF arrayVars, IInv, ArrayTypeOK, UsesCover, FreshRefsUnused, Filled

LEMMA NextInv == IInv /\ [ArrayNext]_arrayVars => IInv'
BY NextConstInv, EmitInv, SetInv, TruncateInv, BuildUsesInv, StutterInv DEF ArrayNext

(* The limits always describe the buffer and both counts stay within them, *)
(* whatever ir_next_const, ir_emit_N and ir_truncate do in whatever order. *)
THEOREM CountsWithinLimits == ArraySpec => []ArrayTypeOK
<1>1. IInv => ArrayTypeOK
  BY DEF IInv
<1> QED BY InitInv, NextInv, <1>1, PTL DEF ArraySpec

(* A reference that is emitted next has a use list, and an empty one.      *)
THEOREM FreshRefsHaveNoUses == ArraySpec => []FreshRefsUnused
<1>1. IInv => FreshRefsUnused
  BY DEF IInv
<1> QED BY InitInv, NextInv, <1>1, PTL DEF ArraySpec

-----------------------------------------------------------------------------
(* Lists as functions *)
LEMMA FcnIsSeq ==
  ASSUME NEW S, NEW n \in Nat, NEW f \in [1 .. n -> S]
  PROVE  f \in Seq(S) /\ Len(f) = n
OBVIOUS

LEMMA AppendIs ==
  ASSUME NEW S, NEW n \in Nat, NEW f \in [1 .. n -> S], NEW x \in S,
         NEW g \in [1 .. n + 1 -> S], \A i \in 1 .. n : g[i] = f[i], g[n + 1] = x
  PROVE  g = Append(f, x)
<1>1. Append(f, x) \in Seq(S) /\ Len(Append(f, x)) = n + 1
  BY FcnIsSeq
<1>2. \A i \in 1 .. n + 1 : Append(f, x)[i] = g[i]
  BY FcnIsSeq
<1> QED BY <1>1, <1>2

LEMMA ConcatIs ==
  ASSUME NEW S, NEW n \in Nat, NEW m \in Nat, NEW f \in [1 .. n -> S], NEW x \in S,
         NEW g \in [1 .. n + m -> S], \A i \in 1 .. n : g[i] = f[i],
         \A i \in n + 1 .. n + m : g[i] = x
  PROVE  g = f \o [i \in 1 .. m |-> x]
<1> DEFINE h == [i \in 1 .. m |-> x]
<1>1. h \in Seq(S) /\ Len(h) = m /\ f \in Seq(S) /\ Len(f) = n
  BY FcnIsSeq
<1>2. f \o h \in Seq(S) /\ Len(f \o h) = n + m
  BY <1>1
<1>3. \A i \in 1 .. n + m : (f \o h)[i] = g[i]
  BY <1>1
<1> QED BY <1>2, <1>3

LEMMA ListTypes ==
  ASSUME IInv
  PROVE  /\ consts_count - 1 \in Nat /\ insns_count - 1 \in Nat
         /\ Consts \in [1 .. consts_count - 1 -> Insn]
         /\ Insns \in [1 .. insns_count - 1 -> Insn]
<1>1. consts_count - 1 \in Nat /\ insns_count - 1 \in Nat
  BY DEF IInv, ArrayTypeOK
<1> QED BY <1>1 DEF IInv, Filled, Consts, Insns

(* ir_next_const hands out the next negative reference, all others stay.   *)
LEMMA NextConstAppends ==
  ASSUME IInv, NEW x \in Insn, NextConst(x)
  PROVE  Consts' = Append(Consts, x) /\ Insns' = Insns
<1>1. consts_count \in Nat \ {0} /\ consts_count' = consts_count + 1 /\ insns_count' = insns_count
  BY NextConstEffect DEF IInv, ArrayTypeOK
<1>2. consts_count' - 1 = consts_count
  BY <1>1
<1>3. Consts' = [i \in 1 .. consts_count |-> buf'[consts_limit' - i]]
  BY Zenon, <1>2 DEF Consts
<1>4. \A i \in 1 .. consts_count - 1 : i \in 1 .. consts_count /\ Consts'[i] = Consts[i]
  BY <1>1, <1>3, NextConstEffect DEF Consts
<1>5. Consts'[consts_count] = x
  <2>1. consts_count \in 1 .. consts_count
    BY <1>1
  <2> QED BY Zenon, <1>3, <2>1, NextConstEffect
<1>6. Consts' \in [1 .. consts_count -> Insn]
  <2>1. ASSUME NEW i \in 1 .. consts_count PROVE Consts'[i] \in Insn
    <3>1. i = consts_count \/ i \in 1 .. consts_count - 1
      BY <1>1
    <3> QED BY <1>4, <1>5, <3>1, ListTypes
  <2> QED BY <1>3, <2>1
<1>7. Consts' = Append(Consts, x)
  <2>1. consts_count - 1 \in Nat /\ (consts_count - 1) + 1 = consts_count
    BY <1>1
  <2> QED BY <1>4, <1>5, <1>6, <2>1, ListTypes, AppendIs
<1>8. Insns' = Insns
  BY Zenon, <1>1, NextConstEffect DEF Insns
<1> QED BY <1>7, <1>8

(* ir_emit_N hands out the next positive references. *)
LEMMA EmitAppends ==
  ASSUME IInv, NEW x \in Insn, NEW n \in 1 .. MAX_N, Emit(n, x)
  PROVE  /\ Insns' = Insns \o [i \in 1 .. n |-> x] /\ Consts' = Consts
         /\ Insns' \in Seq(Insn) /\ n \in 1 .. Len(Insns')
<1>1. /\ insns_count \in Nat \ {0} /\ n \in Nat \ {0} /\ consts_limit \in Nat
      /\ consts_count \in Nat /\ consts_count <= consts_limit
  BY CountAssumption DEF IInv, ArrayTypeOK
<1>2. /\ insns_count' = insns_count + n /\ UNCHANGED <<consts_limit, consts_count>>
      /\ \A k \in 0 .. consts_limit + insns_count - 1 : buf'[k] = buf[k]
      /\ \A i \in insns_count .. insns_count + n - 1 : buf'[consts_limit + i] = x
  BY Zenon, EmitEffect
<1> DEFINE c == insns_count - 1
<1>3. c \in Nat /\ insns_count = c + 1 /\ insns_count' - 1 = c + n
  BY <1>1, <1>2
<1> HIDE DEF c
<1>4. Insns' = [i \in 1 .. c + n |-> buf'[consts_limit + i]]
  BY Zenon, <1>2, <1>3 DEF Insns
<1>5. Insns \in [1 .. c -> Insn]
  BY ListTypes DEF c
<1>6. ASSUME NEW i \in 1 .. c PROVE Insns'[i] = Insns[i]
  <2>1. i \in 1 .. c + n /\ i \in 1 .. insns_count - 1
        /\ consts_limit + i \in 0 .. consts_limit + insns_count - 1
    BY <1>1, <1>3
  <2> QED BY <1>2, <1>4, <2>1 DEF Insns
<1>7. ASSUME NEW i \in c + 1 .. c + n PROVE Insns'[i] = x
  <2>1. i \in 1 .. c + n /\ i \in insns_count .. insns_count + n - 1
    BY <1>1, <1>3
  <2> QED BY <1>2, <1>4, <2>1
<1>8. Insns' \in [1 .. c + n -> Insn]
  <2>1. ASSUME NEW i \in 1 .. c + n PROVE Insns'[i] \in Insn
    <3>1. i \in 1 .. c \/ i \in c + 1 .. c + n
      BY <1>1, <1>3
    <3> QED BY <1>5, <1>6, <1>7, <3>1
  <2> QED BY <1>4, <2>1
<1>9. Insns' = Insns \o [i \in 1 .. n |-> x]
  BY <1>1, <1>3, <1>5, <1>6, <1>7, <1>8, ConcatIs
<1>10. Insns' \in Seq(Insn) /\ Len(Insns') = c + n
  <2>1. c + n \in Nat
    BY <1>1, <1>3
  <2> QED BY <1>8, <2>1, FcnIsSeq
<1>11. n \in 1 .. Len(Insns')
  <2>1. n \in 1 .. c + n
    BY <1>1, <1>3
  <2> QED BY Zenon, <1>10, <2>1
<1>12. Consts' = Consts
  <2>1. \A i \in 1 .. consts_count - 1 : consts_limit - i \in 0 .. consts_limit + insns_count - 1
    BY <1>1
  <2> QED BY <1>2, <2>1 DEF Consts
<1> QED BY <1>9, <1>10, <1>11, <1>12

(* A write through ir_base changes the one entry. *)
LEMMA SetWrites ==
  ASSUME IInv, NEW ref, NEW x \in Insn, Set(ref, x)
  PROVE  /\ ref \in 1 .. Len(Insns) /\ Insns' = [Insns EXCEPT ![ref] = x]
         /\ Consts' = Consts
<1>1. /\ ref \in 1 .. insns_count - 1
      /\ buf' = [buf EXCEPT ![consts_limit + ref] = x]
      /\ UNCHANGED <<consts_limit, insns_limit, consts_count, insns_count, use_counts>>
  BY DEF Set
<1>2. /\ consts_limit \in Nat /\ insns_limit \in Nat /\ insns_count \in Nat
      /\ consts_count \in Nat /\ consts_count <= consts_limit /\ insns_count <= insns_limit
      /\ buf \in [0 .. consts_limit + insns_limit - 1 -> Insn \cup {Junk}]
  BY DEF IInv, ArrayTypeOK
<1>3. Consts' = Consts
  <2>1. \A i \in 1 .. consts_count - 1 : /\ consts_limit - i \in 0 .. consts_limit + insns_limit - 1
                                         /\ consts_limit - i # consts_limit + ref
    BY <1>1, <1>2
  <2>2. \A i \in 1 .. consts_count - 1 : buf'[consts_limit - i] = buf[consts_limit - i]
    BY <1>1, <1>2, <2>1
  <2> QED BY <1>1, <2>2 DEF Consts
<1>4. Insns' = [Insns EXCEPT ![ref] = x]
  <2>1. \A i \in 1 .. insns_count - 1 : consts_limit + i \in 0 .. consts_limit + insns_limit - 1
    BY <1>2
  <2>2. \A i \in 1 .. insns_count - 1 :
          buf'[consts_limit + i] = IF i = ref THEN x ELSE buf[consts_limit + i]
    BY <1>1, <1>2, <2>1
  <2> QED BY <1>1, <2>2 DEF Insns
<1>5. ref \in 1 .. Len(Insns)
  BY <1>1, ListTypes, FcnIsSeq
<1> QED BY <1>3, <1>4, <1>5

(* ir_truncate moves every entry and no reference. *)
LEMMA TruncateMoves ==
  ASSUME IInv, Truncate
  PROVE  UNCHANGED <<Consts, Insns>>
<1>1. Consts' = [i \in 1 .. consts_count - 1 |-> buf'[consts_count - i]]
  BY Zenon, TruncateEffect DEF Consts
<1>2. Insns' = [i \in 1 .. insns_count - 1 |-> buf'[consts_count + i]]
  BY Zenon, TruncateEffect DEF Insns
<1>3. Consts' = Consts
  BY <1>1, TruncateEffect DEF Consts
<1>4. Insns' = Insns
  BY <1>2, TruncateEffect DEF Insns
<1> QED BY <1>3, <1>4

(* The buffer implements the two lists: a reference keeps denoting the     *)
(* entry it was handed out for through every ir_grow_bottom, ir_grow_top   *)
(* and ir_truncate, until that entry is written.                           *)
THEOREM ReferencesStayValid == ArraySpec => RefsStable
<1>1. ArrayInit => TwoWay!Init
  <2> SUFFICES ASSUME ArrayInit PROVE TwoWay!Init
    OBVIOUS
  <2>1. IInv
    BY InitInv
  <2>2. Consts \in Seq(Insn)
    BY <2>1, ListTypes, FcnIsSeq
  <2>3. insns_count = 1 /\ insns_count - 1 = 0
    BY DEF ArrayInit
  <2>4. Insns = << >>
    BY <2>1, <2>3, ListTypes, FcnIsSeq
  <2> QED BY <2>2, <2>4 DEF TwoWay!Init
<1>2. IInv /\ [ArrayNext]_arrayVars => [TwoWay!Next]_<<Consts, Insns>>
  <2> SUFFICES ASSUME IInv, [ArrayNext]_arrayVars PROVE [TwoWay!Next]_<<Consts, Insns>>
    OBVIOUS
  <2>1. ASSUME NEW x \in Insn, NextConst(x) PROVE TwoWay!Next
    <3>1. TwoWay!NewConst(x)
      BY <2>1, NextConstAppends DEF TwoWay!NewConst
    <3> QED BY Zenon, <3>1 DEF TwoWay!Next
  <2>2. ASSUME NEW x \in Insn, NEW n \in 1 .. MAX_N, Emit(n, x) PROVE TwoWay!Next
    <3>1. TwoWay!NewInsns(n, x) /\ n \in 1 .. Len(Insns')
      BY <2>2, EmitAppends DEF TwoWay!NewInsns
    <3> QED BY Zenon, <3>1 DEF TwoWay!Next
  <2>3. ASSUME NEW x \in Insn, NEW ref \in 1 .. MAX_COUNT, Set(ref, x) PROVE TwoWay!Next
    <3>1. TwoWay!Set(ref, x) /\ ref \in 1 .. Len(Insns)
      BY <2>3, SetWrites DEF TwoWay!Set
    <3> QED BY Zenon, <3>1 DEF TwoWay!Next
  <2>4. ASSUME Truncate PROVE UNCHANGED <<Consts, Insns>>
    BY <2>4, TruncateMoves
  <2>5. ASSUME BuildUses \/ UNCHANGED arrayVars PROVE UNCHANGED <<Consts, Insns>>
    <3>1. UNCHANGED <<buf, consts_limit, consts_count, insns_count>>
      BY <2>5 DEF BuildUses, arrayVars
    <3> QED BY Zenon, <3>1 DEF Consts, Insns
  <2> QED BY Zenon, <2>1, <2>2, <2>3, <2>4, <2>5 DEF ArrayNext
<1> QED BY <1>1, <1>2, InitInv, NextInv, PTL DEF ArraySpec, RefsStable, TwoWay!Spec
=============================================================================
