----------------------------- MODULE MemForward -----------------------------
(***************************************************************************)
(* Load forwarding and dead store elimination: ir_find_aliasing_load,      *)
(* _vload, _store and _vstore, as the builder calls them for every memory  *)
(* access (IR_OPT_FOLDING) and as the iterative pass calls them again for  *)
(* accesses already in the graph.                                          *)
(*                                                                         *)
(* `prog' is what was asked for, `code' the control chain that is left of  *)
(* it.  Both are run on a memory of bytes, for every way in which the      *)
(* unknown pointers and the index may turn out, and compared.              *)
(***************************************************************************)
EXTENDS Integers, Sequences, FiniteSets, SequencesExt, FiniteSetsExt

CONSTANTS Expr,      \* address -> the expression that computes it
          AddrSets,  \* the sets of addresses a program may work with
          Consts,    \* constants that may be stored
          VarTypes,  \* types in which the variable is accessed
          Steps      \* bound on the length of a program

VARIABLES addrs,     \* the addresses this program uses
          folding,   \* IR_OPT_FOLDING, for the builder
          prog,      \* the accesses and control instructions asked for
          code,      \* the instructions on the control chain
          ret        \* request -> the value the builder returned for it

vars == <<addrs, folding, prog, code, ret>>

-----------------------------------------------------------------------------
(* Types: two integers and a floating point type, by their size in bytes *)
Type == {"I1", "I2", "F2"}
ir_type_size == [I1 |-> 1, I2 |-> 2, F2 |-> 2]
IR_IS_TYPE_INT(t) == t # "F2"

(* Values.  A value starts from a constant (root < 0) or from the load     *)
(* that was the root-th request and passes through conversions; `via' is   *)
(* the sequence of its types.                                              *)
Const(c, t) == [root |-> c, via |-> <<t>>]
Loaded(n, t) == [root |-> n, via |-> <<t>>]
TypeOf(v) == Last(v.via)
(* A conversion of a constant is folded to another constant *)
Convert(v, t) == IF TypeOf(v) = t THEN v
                 ELSE IF v.root < 0 THEN Const(v.root, t)
                 ELSE [v EXCEPT !.via = Append(@, t)]
(* v with the load n replaced by w *)
Subst(v, n, w) ==
    LET converted[k \in 0 .. Len(v.via)] ==
          IF k = 0 THEN w ELSE Convert(converted[k - 1], v.via[k])
    IN  IF v.root = n THEN converted[Len(v.via)] ELSE v
NoValue == [root |-> 0, via |-> <<"I1">>]

ASSUME AddressAssumption == \A A \in AddrSets : A \subseteq DOMAIN Expr
ASSUME ConstsAssumption ==
    \A v \in Consts : v.root \in Int /\ v.root < 0 /\ \E t \in Type : v = Const(v.root, t)
ASSUME VarTypesAssumption == VarTypes \subseteq Type
ASSUME StepsAssumption == Steps \in Nat

IsLoad(i) == i.op \in {"LOAD", "VLOAD"}
IsStore(i) == i.op \in {"STORE", "VSTORE"}

-----------------------------------------------------------------------------
(* Addresses.  An expression is a root to which terms are added one after  *)
(* the other; a term is a constant c (i = "none") or an index i plus c.    *)
(* ir_decompose_addr collects the constants and one index from the last    *)
(* term on; the expression in front of the second index is the base, and   *)
(* then the index is left as it is.                                        *)
ir_decompose_addr(e) ==
    LET ts == e.terms
        indexed == {k \in DOMAIN ts : ts[k].i # "none"}
        last == Max(indexed)
        second == Max(indexed \ {last})
        stop == IF Cardinality(indexed) > 1 THEN second ELSE 0
        consts == {k \in DOMAIN ts : k > stop /\ (k \notin indexed \/ stop = 0)}
    IN  [base |-> [e EXCEPT !.terms = SubSeq(ts, 1, stop)],
         idx |-> IF indexed = {} THEN [i |-> "none", c |-> 0]
                 ELSE [i |-> ts[last].i, c |-> IF stop = 0 THEN 0 ELSE ts[last].c],
         off |-> MapThenSumSet(LAMBDA k : ts[k].c, consts)]
Form == [a \in DOMAIN Expr |-> ir_decompose_addr(Expr[a])]

(* ir_check_aliasing *)
(* ir_get_base_addr *)
Root(a) == Expr[a].root
Kind == [x |-> "VADDR", g |-> "SYM", p |-> "PARAM", q |-> "LOAD"]

(* Kinds of objects no pointer of the other kind can point into *)
Apart(k1, k2) ==
    \/ k1 \in {"ALLOCA", "VADDR"} /\ k2 \in {"ALLOCA", "VADDR", "SYM", "PARAM"}
    \/ k1 = "SYM" /\ k2 \in {"ALLOCA", "VADDR", "SYM"}
    \/ k1 = "PARAM" /\ k2 \in {"ALLOCA", "VADDR"}

Alias_size(a1, a2, t1, t2) ==
    LET f1 == Form[a1]
        f2 == Form[a2]
    IN  IF f1.base = f2.base
          THEN IF f1.idx # f2.idx THEN "MAY"
               ELSE IF f1.off = f2.off THEN "MUST" ELSE "NO"
          ELSE IF Apart(Kind[Root(a1)], Kind[Root(a2)]) THEN "NO" ELSE "MAY"
Alias(a1, a2, t1, t2) ==
    LET f1 == Form[a1]
        f2 == Form[a2]
        Before(f, t, h) == f.off < h.off /\ f.off + ir_type_size[t] <= h.off
    IN  IF f1.base = f2.base
          THEN IF f1.idx # f2.idx THEN "MAY"
               ELSE IF Before(f1, t1, f2) \/ Before(f2, t2, f1) THEN "NO" ELSE "MUST"
          ELSE IF Root(a1) # Root(a2) /\ Apart(Kind[Root(a1)], Kind[Root(a2)])
                 THEN "NO" ELSE "MAY"

(* Can a value of type t be had from one of type s at the same address? *)
Feeds(s, t) == \/ ir_type_size[s] = ir_type_size[t]
               \/ /\ ir_type_size[s] > ir_type_size[t]
                  /\ IR_IS_TYPE_INT(s) /\ IR_IS_TYPE_INT(t)

(* The walks go up the control chain c to the last instruction that        *)
(* settles the question; 0 if there is none.                               *)
LastOf(c, P) == Max({0} \cup {j \in 1 .. Len(c) : c[j] \in P})

(* ir_find_aliasing_load_i: the value a load of type t from addr would     *)
(* find, NoValue if that cannot be told.                                   *)
ir_find_aliasing_load_noalias(c, t, addr) ==
    LET same(i) == i.op \in {"LOAD", "STORE"} /\ i.a = addr
        stops(i) == \/ same(i) /\ (i.op = "STORE" \/ Feeds(i.t, t))
                    \/ i.op \in {"CALL", "VSTORE"}
        j == LastOf(c, {i \in Range(c) : stops(i)})
    IN  IF j > 0 /\ same(c[j]) /\ Feeds(c[j].t, t)
          THEN IF c[j].op = "LOAD" THEN Loaded(c[j].n, c[j].t) ELSE c[j].v
          ELSE NoValue
ir_find_aliasing_load(c, t, addr) ==
    LET same(i) == i.op \in {"LOAD", "STORE"} /\ i.a = addr
        stops(i) == \/ same(i) /\ (i.op = "STORE" \/ Feeds(i.t, t))
                    \/ i.op = "STORE" /\ Alias(addr, i.a, t, i.t) # "NO"
                    \/ i.op \in {"CALL", "VSTORE"}
        j == LastOf(c, {i \in Range(c) : stops(i)})
    IN  IF j > 0 /\ same(c[j]) /\ Feeds(c[j].t, t)
          THEN IF c[j].op = "LOAD" THEN Loaded(c[j].n, c[j].t) ELSE c[j].v
          ELSE NoValue

(* ir_find_aliasing_vload_i: the same for a variable *)
ir_find_aliasing_vload(c, t) ==
    LET stops(i) == \/ i.op = "VLOAD" /\ Feeds(i.t, t)
                    \/ i.op \in {"VSTORE", "CALL", "STORE"}
        j == LastOf(c, {i \in Range(c) : stops(i)})
    IN  IF j > 0 /\ c[j].op \in {"VLOAD", "VSTORE"} /\ Feeds(c[j].t, t)
          THEN IF c[j].op = "VLOAD" THEN Loaded(c[j].n, c[j].t) ELSE c[j].v
          ELSE NoValue

Guarded(c, j) == \E k \in j + 1 .. Len(c) : c[k].op = "GUARD"

(* ir_find_aliasing_store_i: is a store of v to addr superfluous (dead),   *)
(* and which store does it make superfluous (kill, 0 if none)?             *)
ir_find_aliasing_store(c, addr, v) ==
    LET stops(i) == \/ /\ i.op \in {"LOAD", "STORE"}
                       /\ i.a = addr \/ Alias(addr, i.a, TypeOf(v), i.t) # "NO"
                    \/ i.op \in {"IF", "CALL", "PURE"}
        j == LastOf(c, {i \in Range(c) : stops(i)})
        over == j > 0 /\ c[j].op = "STORE" /\ c[j].a = addr /\ c[j].t = TypeOf(v)
        back == j > 0 /\ c[j].op = "LOAD" /\ c[j].a = addr
    IN  [dead |-> (over /\ c[j].v = v) \/ (back /\ v = Loaded(c[j].n, c[j].t)),
         kill |-> IF over /\ ~Guarded(c, j) THEN j ELSE 0]

(* ir_find_aliasing_vstore_i: the same for the variable *)
ir_find_aliasing_vstore(c, v) ==
    LET stops(i) == IsLoad(i) \/ IsStore(i) \/ i.op \in {"IF", "CALL", "PURE"}
        j == LastOf(c, {i \in Range(c) : stops(i)})
        over == j > 0 /\ c[j].op = "VSTORE"
        back == j > 0 /\ c[j].op = "VLOAD"
    IN  [dead |-> (over /\ c[j].v = v) \/ (back /\ v = Loaded(c[j].n, c[j].t)),
         kill |-> IF over /\ ~Guarded(c, j) THEN j ELSE 0]

FindLoad(c, i) == IF i.op = "LOAD" THEN ir_find_aliasing_load(c, i.t, i.a)
                                   ELSE ir_find_aliasing_vload(c, i.t)
FindStore(c, i) == IF i.op = "STORE" THEN ir_find_aliasing_store(c, i.a, i.v)
                                     ELSE ir_find_aliasing_vstore(c, i.v)
-----------------------------------------------------------------------------
(* The builder.  A program works with two addresses and the variable.      *)
Init ==
    /\ addrs \in AddrSets
    /\ folding \in BOOLEAN
    /\ prog = <<>> /\ code = <<>> /\ ret = <<>>

Insn(op, t, a, v) == [n |-> Len(prog) + 1, op |-> op, t |-> t, a |-> a, v |-> v]
IsVaddr(a) == Expr[a] = [root |-> "x", terms |-> <<>>]
VAR == "x"

(* Values of type t the caller has at hand *)
Values(t) ==
    {v \in Consts : TypeOf(v) = t} \cup
    {Loaded(i.n, t) : i \in {i \in Range(prog) : IsLoad(i) /\ i.t = t}}

(* _ir_LOAD, _ir_VLOAD: what was asked for is i *)
EmitLoad(i) ==
    LET w == IF folding THEN FindLoad(code, i) ELSE NoValue
    IN  IF w # NoValue
          THEN ret' = Append(ret, Convert(w, i.t)) /\ code' = code
          ELSE ret' = Append(ret, Loaded(i.n, i.t)) /\ code' = Append(code, i)

(* _ir_STORE, _ir_VSTORE; the operand is what the builder returned *)
EmitStore(i) ==
    LET j == [i EXCEPT !.v = IF i.v.root > 0 THEN Subst(i.v, i.v.root, ret[i.v.root]) ELSE i.v]
        f == FindStore(code, j)
    IN  /\ code' = IF ~folding THEN Append(code, j)
                   ELSE IF f.dead THEN code
                   ELSE IF f.kill > 0 THEN Append(RemoveAt(code, f.kill), j)
                   ELSE Append(code, j)
        /\ ret' = Append(ret, NoValue)

(* With folding an access through VADDR is one to the variable *)
ByVar(a) == folding /\ IsVaddr(a)

Building == Len(prog) < Steps
Asked(i) == prog' = Append(prog, i) /\ UNCHANGED <<addrs, folding>>

LOAD(t, a) ==
    /\ Building
    /\ Asked(Insn("LOAD", t, a, NoValue))
    /\ EmitLoad(Insn(IF ByVar(a) THEN "VLOAD" ELSE "LOAD", t, IF ByVar(a) THEN VAR ELSE a, NoValue))
STORE(a, t, v) ==
    /\ Building
    /\ Asked(Insn("STORE", t, a, v))
    /\ EmitStore(Insn(IF ByVar(a) THEN "VSTORE" ELSE "STORE", t, IF ByVar(a) THEN VAR ELSE a, v))
VLOAD(t) ==
    /\ Building
    /\ Asked(Insn("VLOAD", t, VAR, NoValue))
    /\ EmitLoad(Insn("VLOAD", t, VAR, NoValue))
VSTORE(t, v) ==
    /\ Building
    /\ Asked(Insn("VSTORE", t, VAR, v))
    /\ EmitStore(Insn("VSTORE", t, VAR, v))

(* A guard, a branch of which we follow one way, the call of a pure        *)
(* function, and any other call; a MERGE or LOOP_BEGIN, behind which the   *)
(* memory is as unknown as behind a call, stops all walks in the same way. *)
Control(op) ==
    /\ Building
    /\ Asked(Insn(op, "I1", VAR, NoValue))
    /\ code' = Append(code, Insn(op, "I1", VAR, NoValue))
    /\ ret' = Append(ret, NoValue)

-----------------------------------------------------------------------------
(* The iterative pass takes the instructions in the order of its worklist, *)
(* which any change may add to: any of them may be next.                   *)
Iterating == Len(prog) = Steps

(* A load whose value is known is taken off the chain and replaced *)
IterLoad_dangle(j) ==
    LET i == code[j]
        w == FindLoad(SubSeq(code, 1, j - 1), i)
    IN  /\ Iterating /\ IsLoad(i)
        /\ w # NoValue
        /\ code' = RemoveAt(code, j)
        /\ ret' = [ret EXCEPT ![i.n] = Convert(w, i.t)]
        /\ UNCHANGED <<addrs, folding, prog>>
IterLoad(j) ==
    LET i == code[j]
        w == FindLoad(SubSeq(code, 1, j - 1), i)
        new(v) == Subst(v, i.n, w)
        rest == RemoveAt(code, j)
    IN  /\ Iterating /\ IsLoad(i)
        /\ w # NoValue
        /\ code' = [k \in DOMAIN rest |-> [rest[k] EXCEPT !.v = new(@)]]
        /\ ret' = [n \in DOMAIN ret |-> new(ret[n])]
        /\ UNCHANGED <<addrs, folding, prog>>

(* A store is dead, or makes an earlier one dead, or loses the bitcast of  *)
(* its operand.                                                            *)
NoBitcast(v) ==
    LET n == Len(v.via)
    IN  IF n > 1 /\ ir_type_size[v.via[n]] = ir_type_size[v.via[n - 1]]
          THEN [v EXCEPT !.via = Front(@)] ELSE v
IterStore(j) ==
    LET i == code[j]
        f == FindStore(SubSeq(code, 1, j - 1), i)
        v == NoBitcast(i.v)
        kept == [code EXCEPT ![j].v = v, ![j].t = TypeOf(v)]
    IN  /\ Iterating /\ IsStore(i)
        /\ code' = IF f.dead THEN RemoveAt(code, j)
                   ELSE IF f.kill > 0 THEN RemoveAt(kept, f.kill) ELSE kept
        /\ UNCHANGED <<addrs, folding, prog, ret>>

Next ==
    \/ \E t \in Type, a \in addrs : LOAD(t, a) \/ \E v \in Values(t) : STORE(a, t, v)
    \/ \E t \in VarTypes : VLOAD(t) \/ \E v \in Values(t) : VSTORE(t, v)
    \/ \E op \in {"GUARD", "IF", "CALL", "PURE"} : Control(op)
    \/ \E j \in DOMAIN code : IterLoad(j) \/ IterStore(j)

Spec == Init /\ [][Next]_vars
-----------------------------------------------------------------------------
(* What the programs mean.  Memory consists of the variable, object 1, a   *)
(* global, object 2, and something else, object 3.  A parameter points     *)
(* outside of the locals, another pointer may also point to the variable.  *)
Loc == (1 .. 3) \X (0 .. 4)
Outside == {<<2, 0>>, <<2, 1>>, <<3, 0>>}
Roots == {Root(a) : a \in addrs}
Indices == {t.i : t \in UNION {Range(Expr[a].terms) : a \in addrs}}
Layouts ==
    [x : {<<1, 0>>}, g : {<<2, 0>>},
     p : IF "p" \in Roots THEN Outside ELSE {<<3, 0>>},
     q : IF "q" \in Roots THEN Outside \cup {<<1, 0>>} ELSE {<<3, 0>>},
     i : IF "i" \in Indices THEN {0, 1} ELSE {0},
     j : IF "j" \in Indices THEN {0, 1} ELSE {0},
     none : {0}]

(* Where that may put the addresses of the program *)
Placements ==
    LET at(L, a) == LET plus(n, t) == n + L[t.i] + t.c
                    IN  <<L[Root(a)][1], FoldLeft(plus, L[Root(a)][2], Expr[a].terms)>>
    IN  {[a \in addrs \cup {VAR} |-> IF a = VAR THEN L.x ELSE at(L, a)] : L \in Layouts}

(* The k-th byte an access touches when addresses are at P *)
At(i, P, k) == <<P[i.a][1], P[i.a][2] + k - 1>>
Touches(i, P) == {At(i, P, k) : k \in 1 .. ir_type_size[i.t]}

Bytes(v, val) == IF v.root < 0 THEN [k \in 1 .. ir_type_size[TypeOf(v)] |-> <<v.root, k>>]
                 ELSE SubSeq(val[v.root], 1, ir_type_size[TypeOf(v)])

(* One instruction; s holds the memory, the values loaded so far and the   *)
(* memory as others have seen it: an exit, the other branch or a callee.   *)
Exec(s, i, P) ==
    CASE IsLoad(i) ->
           [s EXCEPT !.val[i.n] = [k \in 1 .. ir_type_size[i.t] |-> s.mem[At(i, P, k)]]]
      [] IsStore(i) ->
           LET b == Bytes(i.v, s.val)
               put(m, k) == [m EXCEPT ![At(i, P, k)] = b[k]]
           IN  [s EXCEPT !.mem = FoldLeftDomain(put, @, b)]
      [] i.op \in {"GUARD", "IF", "PURE"} -> [s EXCEPT !.seen = Append(@, s.mem)]
      [] i.op = "CALL" ->
           [s EXCEPT !.seen = Append(@, s.mem),
                     !.mem = [l \in Loc |-> <<10 * i.n + l[1], l[2]>>]]
Start == [mem |-> [l \in Loc |-> l], val |-> [n \in 1 .. Steps |-> <<>>], seen |-> <<>>]
Run(c, P) ==
    LET step(s, i) == Exec(s, i, P)
    IN  FoldLeft(step, Start, c)
-----------------------------------------------------------------------------
(* The variables of the model, and the types of what is stored *)
TypeOK ==
    /\ folding \in BOOLEAN
    /\ Len(prog) <= Steps /\ Len(code) <= Len(prog)
    /\ DOMAIN ret = DOMAIN prog
    /\ \A i \in Range(prog) : i.op \in {"LOAD", "STORE"} => i.a \in addrs
    /\ \A i \in Range(code) : IsStore(i) => TypeOf(i.v) = i.t

(* The chain holds instructions in program order, and the values in use    *)
(* are constants or loads that are still on the chain, before their uses.  *)
WellFormed ==
    LET emitted(v, c) == v.root > 0 => \E i \in Range(c) : IsLoad(i) /\ i.n = v.root
    IN  /\ TypeOK
        /\ \A j, k \in DOMAIN code : j < k => code[j].n < code[k].n
        /\ \A j \in DOMAIN code : emitted(code[j].v, SubSeq(code, 1, j - 1))
        /\ \A n \in DOMAIN ret : emitted(ret[n], code)

(* The variable is accessed by name between an access through a pointer to *)
(* it and a store through the same pointer: ir_find_aliasing_store looks   *)
(* at LOAD and STORE only.                                                 *)
Named(i) == i.op \in {"VLOAD", "VSTORE"} \/ (i.op \in {"LOAD", "STORE"} /\ ByVar(i.a))
NamedBetween(P) ==
    \E i, j, k \in DOMAIN prog :
      /\ i < k /\ k < j
      /\ prog[i].op \in {"LOAD", "STORE"} /\ ~Named(prog[i])
      /\ prog[j].op = "STORE" /\ prog[i].a = prog[j].a
      /\ Named(prog[k])
      /\ P[prog[i].a][1] = 1

(* The variable is overwritten in part, which ir_find_aliasing_vstore does *)
(* not tell from being overwritten.                                        *)
PartlyStored == \E i, j \in {i \in Range(prog) : IsStore(i) /\ Named(i)} : ir_type_size[i.t] # ir_type_size[j.t]

(* A load that was replaced gives what a load would have given, wherever   *)
(* the pointers point.                                                     *)
LoadsGiveTheSame == code # prog =>
    \A P \in Placements : ~NamedBetween(P) /\ ~PartlyStored =>
      LET was == Run(prog, P)
          is == Run(code, P)
      IN  \A i \in Range(prog) : IsLoad(i) => Bytes(ret[i.n], is.val) = was.val[i.n]

(* Nobody can tell that stores have been removed: not an exit at a guard,  *)
(* the branch not taken, a callee, nor what follows.                       *)
StoresLookTheSame == code # prog =>
    \A P \in Placements : ~NamedBetween(P) /\ ~PartlyStored =>
      LET was == Run(prog, P)
          is == Run(code, P)
      IN  is.mem = was.mem /\ is.seen = was.seen

(* Removing loads and stores changes neither the values that are loaded    *)
(* nor what anybody sees of memory.                                        *)
MemoryLooksTheSame == LoadsGiveTheSame /\ StoresLookTheSame

(* What ir_check_aliasing answers for two accesses is so, wherever the     *)
(* pointers point.                                                         *)
AliasAnswers ==
    Len(prog) = 2 => \A P \in Placements, i, j \in Range(prog) :
      i.op \in {"LOAD", "STORE"} /\ j.op \in {"LOAD", "STORE"} /\ i.a # j.a =>
        LET common == Touches(i, P) \cap Touches(j, P)
        IN  /\ Alias(i.a, j.a, i.t, j.t) = "NO" => common = {}
            /\ Alias(i.a, j.a, i.t, j.t) = "MUST" => common # {}

(* "the previous VSTORE is dead" (ir.c:2430): the store that makes an      *)
(* earlier one superfluous writes all of what that one has written.        *)
DeadStoresOverwritten ==
    \A P \in Placements : ~NamedBetween(P) => Run(code, P).mem = Run(prog, P).mem
=============================================================================
