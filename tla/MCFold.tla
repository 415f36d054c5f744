------------------------------- MODULE MCFold -------------------------------
(***************************************************************************)
(* The instructions Fold is given: every operation on variables and        *)
(* constants of each type, and the nested ones some rule looks for.        *)
(***************************************************************************)
EXTENDS Fold

CONSTANT Wanted(_)    \* the calls a run is about

X(t) == Var(4, t, -1)
Y(t) == Var(5, t, -1)
Region == [op |-> "MERGE", ref |-> 2, type |-> "VOID"]
Guard == [op |-> "GUARD", ref |-> 3, type |-> "VOID"]

Insn(op, t, x, y, z) == [op |-> op, type |-> t, op1 |-> x, op2 |-> y, op3 |-> z]

\* the limits of each width, small numbers and, for narrow types, all values
Consts(t) ==
    IF t = "BOOL" \/ Size[t] = 1 THEN {Const(t, v) : v \in Values(t)}
    ELSE {Const(t, Ext(t, n)) : n \in {0, 1, 2, -1} \cup
             {2^k : k \in {Bits8 - 1, Bits8, Bits[t] - 1}} \cup
             {2^k - 1 : k \in {Bits8 - 1, Bits8, Bits32, Bits[t] - 1}}}
Leaves(t) == Consts(t) \cup {X(t), Y(t)}
Few(t) == {X(t), Y(t)} \cup {Const(t, Ext(t, n)) : n \in {0, 1, -1, 2^(Bits[t] - 1)}}

Shifts == {"SHL", "SHR", "SAR", "ROL", "ROR"}
CompareOps(t) == {"EQ", "NE"} \cup UnsignedCompare
                     \cup (IF t \in Signed THEN SignedCompare ELSE {})
BinaryOps(t) ==
    CASE t = "BOOL" -> {"AND", "OR", "XOR"}
      [] t = "ADDR" -> {"ADD", "SUB", "MUL", "AND", "OR", "XOR"}
      [] OTHER -> {"ADD", "SUB", "MUL", "DIV", "MOD", "MIN", "MAX", "AND", "OR", "XOR"}
                      \cup Checked \cup Shifts
UnaryOps(t) == CASE t = "BOOL" -> {"NOT"}
                 [] t \in Signed -> {"NEG", "ABS", "NOT"}
                 [] OTHER -> {"NOT"}

\* op on operands of type t
Binary(op, t, x, y) == Insn(op, IF op \in Comparisons THEN "BOOL" ELSE t, x, y, UNUSED)
Unary1(op, t, x) == Insn(op, t, x, UNUSED, UNUSED)

\* conversions from type s, as the front ends write them
Converts(s) ==
    {<<op, t>> \in {"SEXT", "ZEXT"} \X Ints : Size[t] > Size[s]}
    \cup {<<"TRUNC", t>> : t \in {u \in Ints : Size[u] < Size[s] /\ s # "BOOL"}}
    \cup {<<"BITCAST", t>> : t \in {u \in Ints : Size[u] = Size[s]}}

---------------------------------------------------------------------------
(* Instructions used as operands.                                          *)

Terms(r, S) == {[op |-> i.op, ref |-> r, type |-> i.type, op1 |-> i.op1,
                 op2 |-> i.op2, op3 |-> i.op3] : i \in S}

\* op applied to variables and constants
OfBinary(r, op, t) ==
    Terms(r, {Binary(op, t, x, y) : x \in {X(t), Y(t)}, y \in Leaves(t)}
             \cup {Binary(op, t, c, X(t)) : c \in Consts(t)})
OfUnary(r, op, t) == Terms(r, {Unary1(op, t, x) : x \in {X(t), Y(t)}})
OfConvert(r, t) ==
    UNION {Terms(r, {Unary1(c[1], t, X(s)) : c \in {d \in Converts(s) : d[2] = t}}) :
              s \in Types}

\* for each operation, the operations that its rules look for in an operand
Looked == [op \in {"ADD", "SUB", "MUL", "AND", "OR", "XOR", "MIN", "MAX", "SHL", "SHR",
                   "EQ", "NE", "ADD_OV"} |->
    CASE op = "ADD" -> {"ADD", "SUB"}
      [] op = "SUB" -> {"ADD", "SUB"}
      [] op = "AND" -> {"AND", "SHL", "SHR"}
      [] op \in {"SHL", "SHR"} -> {"AND"}
      [] op \in {"EQ", "NE"} -> {"SUB"}
      [] OTHER -> {op}]

---------------------------------------------------------------------------

Flat(t) ==
    {Binary(op, t, x, y) : op \in BinaryOps(t) \cup CompareOps(t), x \in Leaves(t), y \in Leaves(t)}
    \cup {Unary1(op, t, x) : op \in UnaryOps(t), x \in Leaves(t)}
    \cup {Unary1(c[1], c[2], x) : c \in Converts(t), x \in Leaves(t)}
    \cup {Insn(op, t, x, y, Guard) : op \in {"DIV", "MOD"} \cap BinaryOps(t),
                                     x \in Leaves(t), y \in Leaves(t)}

NestedBinary(t) ==
    UNION {UNION {{Binary(op, t, x, y), Binary(op, t, y, x)} :
                     x \in UNION {OfBinary(10, o, t) : o \in Looked[op]}, y \in Few(t)} :
              op \in DOMAIN Looked}

NestedUnary(t) ==
    LET inner == UNION {OfUnary(10, u, t) : u \in UnaryOps(t)}
    IN UNION {{Binary(op, t, n, y), Binary(op, t, y, n)} :
                 op \in {"ADD", "SUB", "MUL", "DIV"} \cup CompareOps(t),
                 n \in inner, y \in Few(t)}
       \cup {Binary(op, t, m, n) : op \in {"ADD", "SUB", "MUL", "DIV"}, m \in inner, n \in inner}
       \cup {Unary1(op, t, n) : op \in UnaryOps(t), n \in inner}

\* a conversion of a conversion, or of a masked or shifted value
NestedConvert(t) ==
    {Unary1(c[1], c[2], n) : c \in Converts(t),
        n \in OfConvert(10, t) \cup (IF t = "ADDR" THEN {}
                                     ELSE OfBinary(10, "AND", t) \cup OfBinary(10, "SHR", t))}

\* an extended value compared, masked or divided
NestedExt(t) ==
    {Binary(op, t, n, c) : op \in CompareOps(t) \cup ({"AND", "DIV", "MOD"} \cap BinaryOps(t)),
                           n \in OfConvert(10, t), c \in Consts(t)}

\* two extended values compared
TwoExt(t) ==
    {Binary(op, t, m, n) : op \in CompareOps(t), m \in OfConvert(10, t),
        n \in UNION {Terms(11, {Unary1(c[1], t, Y(s)) : c \in {d \in Converts(s) : d[2] = t}}) :
                        s \in Types}}

\* (a + b) - (c + d)
TwoSums(t) ==
    {Binary("SUB", t, m, n) : m \in OfBinary(10, "ADD", t),
                              n \in OfBinary(10, "ADD", t) \cup OfBinary(11, "ADD", t)}

\* the ways to write a rotation
Rotations(t) ==
    LET diff(v, r) == Terms(r, {Binary("SUB", t, c, v) : c \in Consts(t) \cup {Const(t, Bits[t])}})
        count == {Const(t, n) : n \in 0 .. Bits[t] - 1} \cup {Y(t)} \cup diff(Y(t), 8)
        shift(r, op) == Terms(r, {Binary(op, t, X(t), n) : n \in count})
    IN {Binary(op, t, m, n) : op \in {"OR", "ADD"}, m \in shift(10, "SHL"), n \in shift(11, "SHR")}
       \cup {Binary(op, t, m, n) : op \in {"OR", "ADD"}, m \in shift(10, "SHR"),
                                   n \in shift(11, "SHL")}

\* shifts of a masked value by a count of another type
NarrowCounts(t, s) ==
    {Insn(op, t, x, c, UNUSED) : op \in Shifts, x \in {X(t)} \cup OfBinary(10, "AND", t),
                                 c \in Consts(s) \cup {Y(s)}}

\* choices between values of type t on a condition of type s
Choices(t, s) ==
    LET small == {Const(t, 0), Const(t, 1), X(t), Y(t)}
        tests == {Var(6, s, -1)} \cup Consts(s)
                     \cup Terms(10, {Binary(op, s, Var(6, s, -1), c) : op \in CompareOps(s),
                                                                   c \in Consts(s)})
    IN {Insn("COND", t, b, x, y) : b \in tests, x \in small, y \in small}

Others(t) ==
    {Insn("PHI", t, Region, x, y) : x \in Leaves(t), y \in Leaves(t)}
    \cup {Insn("COPY", t, x, h, UNUSED) : x \in Leaves(t), h \in {UNUSED, IR_COPY_HARD}}
    \cup {Unary1("OVERFLOW", "BOOL", x) : x \in Leaves(t) \cup
             UNION {OfBinary(10, op, t) : op \in Checked \cap BinaryOps(t)}}

\* pointer arithmetic: an offset of an integer type
Pointers ==
    LET p == X("ADDR")
        offsets == {Y("I64"), Y("U64"), Const("I64", 0), Const("U64", 2), Const("I64", Ext("I64", -1))}
        sums(r) == Terms(r, {Insn(op, "ADDR", p, i, UNUSED) : op \in {"ADD", "SUB"}, i \in offsets})
        ops == {"ADD", "SUB"}
    IN {Insn(op, t, x, y, UNUSED) : op \in ops, t \in {"ADDR", "I64"}, x \in sums(10),
                                    y \in sums(11) \cup {p, Const("ADDR", 7)}}
       \cup {Insn(op, "ADDR", x, i, UNUSED) : op \in ops, x \in sums(10) \cup {p, Const("ADDR", 7)},
                                              i \in offsets}
       \cup {Insn(op, "ADDR", i, p, UNUSED) : op \in ops, i \in offsets}

\* operands SCCP has found to be constants
Known(t) ==
    LET left == {Var(6, t, v) : v \in Values(t)}
        right == {Var(7, t, v) : v \in Values(t)}
        ops == BinaryOps(t) \cup CompareOps(t)
    IN {Binary(op, t, x, y) : op \in ops, x \in left, y \in Few(t) \cup right}
       \cup {Binary(op, t, x, y) : op \in ops, x \in {X(t), Const(t, 1)}, y \in right}
       \cup {Binary(op, t, x, x) : op \in ops, x \in left}
       \cup {Unary1(op, t, x) : op \in UnaryOps(t), x \in left}
       \cup {Unary1(c[1], c[2], x) : c \in Converts(t), x \in left}
       \cup {Insn("COND", t, b, x, y) : b \in {Var(8, "BOOL", 1), Var(8, "BOOL", -1)},
                                        x \in left \cup {X(t)}, y \in right \cup {X(t)}}

---------------------------------------------------------------------------
(* The rewrites on which the rules and the meaning of the IR disagree, by  *)
(* the rule that does them.                                                *)

\* c1 - (c2 - x)
Reassociates(i) == i.op = "SUB" /\ IsConst(i.op1) /\ i.op2.op = "SUB" /\ IsConstRef(i.op2.op1)

\* f(f(a, b), a)
Absorbs(i) == /\ i.op \in {"AND", "OR", "MIN", "MAX"} /\ i.op1.op = i.op
              /\ i.op2 \in {i.op1.op1, i.op1.op2}

\* a comparison of extended values that is made before they are extended,
\* where the constant or the signedness is not the same there
Narrows(i, uses) ==
    LET a == i.op1
        b == i.op2
        x == a.op1
        same == Apply(a.op, a.type, x.type, Ext(x.type, b.val), 0, 0) = b.val
    IN /\ i.op \in Comparisons /\ a.op \in {"SEXT", "ZEXT"} /\ uses # "many"
       /\ \/ a.op = "SEXT" /\ i.op \in SignedCompare /\ x.type \in Unsigned
          \/ x.type = "BOOL" /\ IsConst(b) /\ b.val \notin {0, 1}
          \/ /\ a.op = "SEXT" /\ IsConst(b)
             /\ same # (b.val \div 2^Bits[x.type] = 0 \/ I64(b.val) \div 2^Bits[x.type] = -1)

\* a mask compared at the width of a narrower shift count
Unmasks(i) == /\ i.op \in {"SHL", "SHR"} /\ i.op1.op = "AND"
              /\ IsConst(i.op2) /\ Size[i.op2.type] < Size[i.type]

\* an overflow check that becomes the check of its operand
Unchecks(i) == i.op \in Checked /\ i.op1.op \in Checked /\ IsConst(i.op2) /\ i.op2.val = 0

\* a boolean compared with a value that SCCP knows to be true
ComparesKnown(i) == i.op \in {"EQ", "NE"} /\ i.op2 = Var(i.op2.ref, "BOOL", 1)

\* an offset negated as a pointer, or as an integer of another type
NegatesOffset(i) ==
    /\ i.op = "NEG" /\ i.op1.type # i.type
    /\ IsConst(i.op1) \/ ~Fits(i.type, i.op1.type)

Disputed(i, uses) ==
    \/ Reassociates(i) \/ Absorbs(i) \/ Narrows(i, uses) \/ Unmasks(i)
    \/ Unchecks(i) \/ ComparesKnown(i) \/ NegatesOffset(i)

\* whether i meets one of them within n restarts
RECURSIVE Meets(_, _, _)
Meets(i, uses, n) ==
    LET r == ir_folding(i, uses)
    IN \/ Disputed(i, uses)
       \/ n > 0 /\ r.k = "RESTART" /\ Meets(r.insn, uses, n - 1)

MaxRestarts == 8

---------------------------------------------------------------------------

Family(name, t) ==
    CASE name = "flat" -> Flat(t)
      [] name = "binary" -> NestedBinary(t)
      [] name = "convert" -> NestedConvert(t)
      [] name = "unary" -> NestedUnary(t) \cup TwoSums(t) \cup Others(t)
      [] name = "choice" -> Choices(t, IF t = "I8" THEN "BOOL" ELSE "I32")
      [] name = "shift" -> IF t = "U8" THEN Rotations(t) ELSE NarrowCounts(t, "U8")
      [] name = "pointer" -> Pointers
      [] name = "compare" -> NestedExt(t) \cup (IF t = "I32" THEN TwoExt(t) ELSE {})
      [] name = "known" -> Known(t)

\* the families, with the types and the callers they are given to
Families ==
    (({"flat"} \X {"BOOL", "U8", "I8", "I32", "U64"}) \cup ({"binary"} \X {"U8", "I32"})
      \cup ({"convert"} \X {"U8", "I8", "I32", "U64"})
      \cup {<<"unary", "I8">>, <<"choice", "I8">>, <<"choice", "BOOL">>, <<"shift", "U8">>,
            <<"shift", "I32">>, <<"pointer", "ADDR">>, <<"compare", "I32">>, <<"compare", "U64">>})
       \X {<<"build", "none">>}
    \cup ({"compare"} \X {"I32", "U64"}) \X {<<"iter", "once">>, <<"iter", "many">>}
    \cup ({"known"} \X {"BOOL", "I8"}) \X {<<"sccp", "once">>}

\* operands are instructions that folding leaves as they are
RECURSIVE Normal(_)
Normal(t) ==
    t.op \notin {"C", "VAR", "MERGE", "NOP", "START", "GUARD"} =>
       /\ ir_folding(t, "none").k \in {"NEXT", "EMIT"}
       /\ \A x \in {t.op1, t.op2, t.op3} : Normal(x)

MCInit ==
    \E f \in Families : \E i \in Family(f[1][1], f[1][2]) :
      \E c \in {[mode |-> f[2][1], uses |-> f[2][2], insn |-> i]} :
         /\ Wanted(c)
         /\ \A x \in {i.op1, i.op2, i.op3} : Normal(x)
         /\ Init(c)
MCSpec == MCInit /\ [][Next]_vars /\ WF_vars(Next)

\* all calls but the disputed ones
Agreed(c) == ~ Meets(c.insn, c.uses, MaxRestarts)

\* calls for which one of the disputed rewrites is due
Reassoc(c) == c.mode = "build" /\ Reassociates(c.insn)
AbsorbTwice(c) == Absorbs(c.insn)
Narrow(c) == c.mode = "build" /\ Narrows(c.insn, c.uses)
Unmask(c) == Unmasks(c.insn)
Uncheck(c) == Unchecks(c.insn)
KnownTrue(c) == c.mode = "sccp" /\ ComparesKnown(c.insn)
Pointer(c) == c.mode = "build" /\ c.insn \in Pointers

=============================================================================
