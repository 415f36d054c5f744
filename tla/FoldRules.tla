----------------------------- MODULE FoldRules ------------------------------
(***************************************************************************)
(* The integer rules of ir_fold.h, one operator per group of rules.        *)
(*                                                                         *)
(* A term is an operand: a constant (op "C"), a value computed elsewhere   *)
(* (op "VAR") or an instruction with operands of its own.  Every term has  *)
(* a ref, negative exactly for constants; equal terms have equal refs.     *)
(* An instruction to fold is a record with fields op, type, op1, op2, op3. *)
(* A rule is given the instruction i and its operands as they are seen     *)
(* through op1_insn and op2_insn, here a and b (see View); the operands of *)
(* a and b are read from ir_base, so they are plain terms.                 *)
(***************************************************************************)
EXTENDS IrValues, FiniteSets

TypeIndex == [t \in Types |->
    CASE t = "BOOL" -> 0 [] t = "U8" -> 1 [] t = "U32" -> 2 [] t = "U64" -> 3
      [] t = "ADDR" -> 4 [] t = "I8" -> 5 [] t = "I32" -> 6 [] t = "I64" -> 7]

\* ir_const: the constant of type t with the cell v; equal cells share a ref,
\* and every boolean that is not 0 is IR_TRUE
Const(t, v) ==
    LET w == IF t = "BOOL" THEN Truth(v # 0) ELSE v
    IN [op |-> "C", ref |-> -1 - (TypeIndex[t] * 2^Bits64 + w), type |-> t, val |-> w]

\* a value known to the optimiser only as the number "known" (SCCP), or not
\* at all (-1)
Var(r, t, known) == [op |-> "VAR", ref |-> r, type |-> t, known |-> known]

UNUSED == [op |-> "NOP", ref |-> 0, type |-> "VOID"]
IR_COPY_HARD == [op |-> "START", ref |-> 1, type |-> "VOID"]
IR_FALSE == Const("BOOL", 0)
IR_TRUE == Const("BOOL", 1)

\* op1_insn: SCCP shows the constant it found in place of the instruction,
\* while the reference stays that of the instruction
View(t) == IF t.op = "VAR" /\ t.known >= 0
           THEN [op |-> "C", ref |-> t.ref, type |-> t.type, val |-> t.known]
           ELSE t

IsConst(t) == t.op = "C"
IsConstRef(t) == t.ref < 0

\* the ways out of a rule: break, and the labels of ir_folding
Next_ == [k |-> "NEXT"]
Copy(t) == [k |-> "COPY", to |-> t]
ConstU(v) == [k |-> "CONST", val |-> v]
Emit == [k |-> "EMIT"]
Failed == [k |-> "ASSERT"]
Again(op, t, x, y, z) ==
    [k |-> "RESTART",
     insn |-> [op |-> op, type |-> t, op1 |-> x, op2 |-> y, op3 |-> z]]
Bool(p) == Copy(IF p THEN IR_TRUE ELSE IR_FALSE)
Asserting(p, out) == IF p THEN out ELSE Failed

\* restart i as an operation on other operands, or as a unary operation
With(i, op, x, y) == Again(op, i.type, x, y, i.op3)
Unary(i, op, t, x) == Again(op, t, x, UNUSED, i.op3)

\* the types of the C_ patterns
C_U == {"U8", "U32", "U64"}
C_I == Signed
C_UI == C_U \cup C_I
C_Wide == {"U32", "U64", "I32", "I64", "ADDR"}
C_Ptr == {"U64", "I64", "ADDR"}

BothConst(a, b, T) == IsConst(a) /\ IsConst(b) /\ a.type = b.type /\ a.type \in T
ConstIn(t, T) == IsConst(t) /\ t.type \in T

SignedCompare == {"LT", "GE", "LE", "GT"}
UnsignedCompare == {"ULT", "UGE", "ULE", "UGT"}

\* the tricks with opcode numbers: opt ^ 1, opt ^ 3, opt + 4, opt + 3
Negated == [o \in Comparisons |->
    CASE o = "EQ" -> "NE" [] o = "NE" -> "EQ" [] o = "LT" -> "GE" [] o = "GE" -> "LT"
      [] o = "LE" -> "GT" [] o = "GT" -> "LE" [] o = "ULT" -> "UGE"
      [] o = "UGE" -> "ULT" [] o = "ULE" -> "UGT" [] o = "UGT" -> "ULE"]
Swapped == [o \in SignedCompare \cup UnsignedCompare |->
    CASE o = "LT" -> "GT" [] o = "GT" -> "LT" [] o = "LE" -> "GE" [] o = "GE" -> "LE"
      [] o = "ULT" -> "UGT" [] o = "UGT" -> "ULT" [] o = "ULE" -> "UGE"
      [] o = "UGE" -> "ULE"]
AsUnsigned == [o \in SignedCompare |->
    CASE o = "LT" -> "ULT" [] o = "GE" -> "UGE" [] o = "LE" -> "ULE" [] o = "GT" -> "UGT"]
AsRotate == [o \in {"SHL", "SHR"} |-> IF o = "SHL" THEN "ROL" ELSE "ROR"]

IsPowerOfTwo(v) == \E n \in 0 .. Bits64 - 1 : v = 2^n
Log2(v) == CHOOSE n \in 0 .. Bits64 - 1 : v = 2^n

---------------------------------------------------------------------------
(* Constant folding: both operands are constants of one type.              *)

Ordered(op, m, n) ==
    CASE op \in {"LT", "ULT"} -> m < n
      [] op \in {"GE", "UGE"} -> m >= n
      [] op \in {"LE", "ULE"} -> m <= n
      [] op \in {"GT", "UGT"} -> m > n

ConstEqual(i, a, b) == Bool((a.val = b.val) = (i.op = "EQ"))

ConstOrdered(i, a, b) ==
    LET n(c) == IF a.type \in Signed THEN I64(c.val) ELSE c.val
    IN Bool(Ordered(i.op, n(a), n(b)))

ConstUnsigned(i, a, b) == Bool(Ordered(i.op, a.val, b.val))

\* sums and products of 8-bit constants are those of int, and are not cut
OfInt(t, n) == ConstU(IF Size[t] = 1 THEN Wrap(n) ELSE Ext(t, n))

ConstSum(i, a, b) ==
    LET x == Lit(a.type, a.val)
        y == Lit(b.type, b.val)
    IN Asserting(\/ i.type = a.type
                 \/ "ADDR" \in {a.type, b.type}
                 \/ i.op = "ADD" /\ i.type = "ADDR" /\ a.type \in {"U64", "I64"},
                 OfInt(a.type, IF i.op = "ADD" THEN x + y ELSE x - y))

ConstProduct(i, a, b) ==
    Asserting(i.type = a.type \/ "ADDR" \in {a.type, b.type},
              OfInt(a.type, Lit(a.type, a.val) * Lit(b.type, b.val)))

ConstDivMod(i, a, b) ==
    LET t == a.type
    IN IF i.type # t THEN Failed
       ELSE IF \/ b.val = 0
               \/ /\ i.op = "DIV" /\ t \in Signed
                  /\ I64(b.val) = -1 /\ Low(t, a.val) = 2^(Bits[t] - 1)
       THEN Emit
       ELSE IF i.op = "DIV" THEN ConstU(Wrap(Quot(Lit(t, a.val), Lit(t, b.val))))
       ELSE IF t \in Signed THEN ConstU(Wrap(Rem(I64(a.val), I64(b.val))))
       ELSE ConstU(a.val % b.val)

ConstNegAbs(i, a) ==
    IF i.type # a.type THEN Failed
    ELSE IF i.op = "NEG" THEN ConstU(Ext(a.type, -a.val))
    ELSE IF I64(a.val) >= 0 THEN Copy(i.op1)
    ELSE ConstU(IF Size[a.type] = 1 THEN Wrap(-Num(a.type, a.val)) ELSE Ext(a.type, -a.val))

\* the checks are made on whole cells against the limits of the type
ConstOverflow(i, a, b) ==
    LET t == i.type
        s == t \in Signed
        x == IF s THEN I64(a.val) ELSE a.val
        y == IF s THEN I64(b.val) ELSE b.val
        max == IF s THEN 2^(Bits[t] - 1) - 1 ELSE 2^Bits[t] - 1
        min == IF s THEN -max - 1 ELSE 0
        res == IF s THEN I64(Wrap(x * y)) ELSE Wrap(x * y)
        over == CASE i.op = "ADD_OV" /\ ~s -> x > Wrap(max - y)
                  [] i.op = "ADD_OV" /\ s -> \/ y > 0 /\ x > max - y
                                             \/ y < 0 /\ x < min - y
                  [] i.op = "SUB_OV" /\ ~s -> y > x
                  [] i.op = "SUB_OV" /\ s -> \/ y > 0 /\ x < min + y
                                             \/ y < 0 /\ x > max + y
                  [] i.op = "MUL_OV" -> \/ x # 0 /\ Quot(res, x) # y
                                        \/ res < min \/ res > max
    IN CASE t # a.type -> Failed
         [] t = a.type /\ over -> Next_
         [] t = a.type /\ ~over ->
              ConstU(CASE i.op = "ADD_OV" -> Wrap(x + y)
                       [] i.op = "SUB_OV" -> Wrap(x - y)
                       [] i.op = "MUL_OV" -> Wrap(res))

ConstNot(i, a) ==
    Asserting(i.type = a.type,
        IF a.type = "BOOL" THEN Bool(a.val = 0)
        ELSE ConstU(IF Size[a.type] = 1 THEN Wrap(-1 - Lit(a.type, a.val))
                    ELSE Ext(a.type, -1 - a.val)))

ConstBits(i, a, b) ==
    LET v == CASE i.op = "OR" -> OrCells[<<a.val, b.val>>]
               [] i.op = "AND" -> AndCells[<<a.val, b.val>>]
               [] i.op = "XOR" -> Ext(a.type, XorCells[<<a.val, b.val>>])
    IN Asserting(i.type = a.type, IF a.type = "BOOL" THEN Bool(v # 0) ELSE ConstU(v))

\* the count is cut to the width; SHL of an 8-bit unsigned is not cut
ConstShift(i, a, b) ==
    LET t == a.type
        n == Low(t, b.val) % Bits[t]
    IN Asserting(i.type = t,
         ConstU(CASE i.op = "SHL" -> IF t = "U8" THEN Wrap(Low(t, a.val) * 2^n)
                                     ELSE Ext(t, a.val * 2^n)
                  [] i.op = "SHR" -> Ext(t, Low(t, a.val) \div 2^n)
                  [] i.op = "SAR" -> Ext(t, Num(t, a.val) \div 2^n)))

ConstRotate(i, a, b) ==
    LET n == Low(a.type, b.val) % Bits[a.type]
    IN Asserting(i.type = a.type,
         ConstU(IF i.op = "ROL" THEN Rol(a.type, a.val, n) ELSE Ror(a.type, a.val, n)))

\* the rules for signed constants are declared for an unsigned second operand
ConstMinMax(i, a, b) ==
    LET x == IF a.type \in Signed THEN I64(a.val) ELSE a.val
        y == IF a.type \in Signed THEN I64(b.val) ELSE b.val
    IN Copy(IF (i.op = "MIN" /\ x <= y) \/ (i.op = "MAX" /\ x >= y) THEN i.op1 ELSE i.op2)

MinMaxPair(a, b) ==
    \/ BothConst(a, b, Unsigned)
    \/ IsConst(a) /\ IsConst(b) /\ <<a.type, b.type>> \in
           {<<"I8", "U8">>, <<"I32", "U32">>, <<"I64", "U64">>}

ConstConvert(i, a) ==
    CASE i.op \in {"SEXT", "ZEXT"} ->
           Asserting(Size[i.type] > Size[a.type],
               ConstU(Wrap(IF i.op = "SEXT" THEN Num(a.type, a.val) ELSE Low(a.type, a.val))))
      [] i.op = "TRUNC" -> Asserting(Size[i.type] < Size[a.type], ConstU(Ext(i.type, a.val)))
      [] i.op = "BITCAST" ->
           Asserting(Size[i.type] = Size[a.type],
               IF i.type = "BOOL" THEN Bool(Low("BOOL", a.val) # 0)
               ELSE ConstU(Ext(i.type, a.val)))

---------------------------------------------------------------------------
(* Comparisons.  uses says what use_lists tell of the operands: "none"     *)
(* when the lists are not built yet, else whether each is used "once".     *)

CompareBool(i) ==
    IF (i.op2 = IR_TRUE) = (i.op = "EQ") THEN Copy(i.op1)
    ELSE Unary(i, "NOT", "BOOL", i.op1)

\* a boolean x widened or cast, compared with v
WidenedBool(i, x, v) ==
    CASE (i.op = "NE" /\ v = 1) \/ (i.op = "EQ" /\ v = 0) -> Unary(i, "NOT", "BOOL", x)
      [] (i.op = "NE" /\ v = 0) \/ (i.op = "EQ" /\ v = 1) -> Copy(x)
      [] OTHER -> Next_

CompareBitcast(i, a, b) ==
    LET x == a.op1
    IN IF x.type = "BOOL" THEN WidenedBool(i, x, b.val)
       ELSE With(i, i.op, x, Const(x.type, Ext(x.type, b.val)))

\* the extended operand is compared in its own type unless the constant has
\* bits above it
CompareExt(i, a, b, uses) ==
    LET x == a.op1
        high == b.val \div 2^Bits[x.type]
        shifted == I64(b.val) \div 2^Bits[x.type]
        bool == IF x.type = "BOOL" THEN WidenedBool(i, x, b.val) ELSE Next_
    IN CASE uses = "many" -> Next_
         [] uses # "many" /\ bool.k # "NEXT" -> bool
         [] uses # "many" /\ bool.k = "NEXT" ->
              IF high # 0 /\ (a.op # "SEXT" \/ shifted # -1)
              THEN CASE i.op \in {"EQ", "UGT", "UGE"} -> Bool(FALSE)
                     [] i.op \in {"NE", "ULT", "ULE"} -> Bool(TRUE)
                     [] i.op \in {"GT", "GE"} -> Bool(I64(b.val) < 0)
                     [] i.op \in {"LT", "LE"} -> Bool(I64(b.val) >= 0)
              ELSE With(i, i.op, x, Const(x.type, Ext(x.type, b.val)))

CompareExtended(i, a, b, uses) ==
    IF a.op1.type = b.op1.type /\ uses # "many"
    THEN With(i, IF a.op = "ZEXT" /\ i.op \in SignedCompare THEN AsUnsigned[i.op] ELSE i.op,
              a.op1, b.op1)
    ELSE Next_

CompareSub(i, a, b, uses) ==
    IF uses = "once" /\ b.val = 0 THEN With(i, i.op, a.op1, a.op2) ELSE Next_

CompareZero(i, b) ==
    IF b.val # 0 THEN Next_
    ELSE CASE i.op = "UGE" -> Bool(TRUE)
           [] i.op = "ULT" -> Bool(FALSE)
           [] i.op = "UGT" -> Again("NE", "BOOL", i.op1, i.op2, i.op3)
           [] i.op = "ULE" -> Again("EQ", "BOOL", i.op1, i.op2, i.op3)

CompareAbs(i, b) == IF b.val = 0 THEN Bool(i.op = "GE") ELSE Next_

---------------------------------------------------------------------------
(* Sums, products and quotients.                                           *)

\* x, cast when its type is not the one of i
CopyAs(i, x) == IF x.type = i.type THEN Copy(x) ELSE Unary(i, "BITCAST", i.type, x)

AddZero(i, b) == IF b.val = 0 THEN CopyAs(i, i.op1) ELSE Next_
ZeroAdd(i, a) == IF a.val = 0 THEN CopyAs(i, i.op2) ELSE Next_
ZeroSub(i, a) == IF a.val = 0 THEN Unary(i, "NEG", i.type, i.op2) ELSE Next_

\* the rules with a sum, a difference or a change of sign on the right
CancelRight(i, b) ==
    CASE b.op = "NEG" -> With(i, IF i.op = "ADD" THEN "SUB" ELSE "ADD", i.op1, b.op1)
      [] i.op = "ADD" /\ b.op = "SUB" /\ b.op2 = i.op1 -> CopyAs(i, b.op1)
      [] i.op = "SUB" /\ b.op = "ADD" /\ b.op1 = i.op1 -> Unary(i, "NEG", i.type, b.op2)
      [] i.op = "SUB" /\ b.op = "ADD" /\ b.op1 # i.op1 /\ b.op2 = i.op1 ->
           Unary(i, "NEG", i.type, b.op1)
      [] i.op = "SUB" /\ b.op = "SUB" /\ b.op1 = i.op1 -> CopyAs(i, b.op2)
      [] OTHER -> Next_

\* and with one of them on the left
CancelLeft(i, a) ==
    CASE i.op = "ADD" /\ a.op = "NEG" -> With(i, "SUB", i.op2, a.op1)
      [] i.op = "ADD" /\ a.op = "SUB" /\ a.op2 = i.op2 -> CopyAs(i, a.op1)
      [] i.op = "SUB" /\ a.op = "ADD" /\ a.op1 = i.op2 -> CopyAs(i, a.op2)
      [] i.op = "SUB" /\ a.op = "ADD" /\ a.op1 # i.op2 /\ a.op2 = i.op2 -> CopyAs(i, a.op1)
      [] i.op = "SUB" /\ a.op = "SUB" /\ a.op1 = i.op2 -> Unary(i, "NEG", i.type, a.op2)
      [] OTHER -> Next_

\* _ir_fold_cast, with the ref r for the instruction it may emit
FoldCast(x, t, r) ==
    CASE x.type = t -> x
      [] x.type # t /\ IsConstRef(x) -> Const(t, x.val)
      [] x.type # t /\ ~IsConstRef(x) ->
           [op |-> "BITCAST", ref |-> r, type |-> t, op1 |-> x, op2 |-> UNUSED, op3 |-> UNUSED]

CancelSums(i, a, b) ==
    LET diff(x, y) == With(i, "SUB", FoldCast(x, i.type, 98), FoldCast(y, i.type, 99))
    IN IF i.op1 = i.op2 THEN ConstU(0)
       ELSE IF a.op1 = b.op1 THEN diff(a.op2, b.op2)
       ELSE IF a.op1 = b.op2 THEN diff(a.op2, b.op1)
       ELSE IF a.op2 = b.op1 THEN diff(a.op1, b.op2)
       ELSE IF a.op2 = b.op2 THEN diff(a.op1, b.op1)
       ELSE Next_

MulDivNegConst(i, a, b) == With(i, i.op, a.op1, Const(b.type, Wrap(-b.val)))
MulDivNegNeg(i, a, b) == With(i, i.op, a.op1, b.op1)

MulConst(i, b) ==
    CASE b.val = 0 -> Copy(i.op2)
      [] b.val = 1 -> Copy(i.op1)
      [] b.type \in Signed /\ I64(b.val) = -1 -> Unary(i, "NEG", i.type, i.op1)
      [] OTHER -> Next_

DivConst(i, a, b) ==
    CASE b.val = 1 -> Copy(i.op1)
      [] b.type \in Signed /\ I64(b.val) = -1 -> Unary(i, "NEG", i.type, i.op1)
      [] /\ b.val # 1 /\ IsPowerOfTwo(b.val)
         /\ b.type \in Signed => a.op = "ZEXT" ->
           With(i, "SHR", i.op1, Const(i.type, Log2(b.val)))
      [] OTHER -> Next_

\* mutant: signed operands are masked too
ModConst_signed(i, a, b) ==
    CASE b.val = 1 -> ConstU(0)
      [] b.val # 1 /\ IsPowerOfTwo(b.val) ->
           With(i, "AND", i.op1, Const(i.type, b.val - 1))
      [] OTHER -> Next_

ModConst(i, a, b) ==
    CASE b.val = 1 -> ConstU(0)
      [] b.val # 1 /\ IsPowerOfTwo(b.val) /\ (i.type \in Unsigned \/ a.op = "ZEXT") ->
           With(i, "AND", i.op1, Const(i.type, b.val - 1))
      [] OTHER -> Next_

---------------------------------------------------------------------------
(* Bits, shifts and conversions.                                           *)

Zero(c) == Low(c.type, c.val) = 0
Ones(c) == IF c.type = "BOOL" THEN c.val # 0 ELSE Num(c.type, c.val) = -1

AndOrConst(i, b) ==
    CASE (i.op = "AND" /\ Zero(b)) \/ (i.op = "OR" /\ Ones(b)) -> Copy(i.op2)
      [] (i.op = "AND" /\ Ones(b)) \/ (i.op = "OR" /\ Zero(b)) -> Copy(i.op1)
      [] ~Zero(b) /\ ~Ones(b) -> Next_

XorConst(i, b) ==
    CASE Zero(b) -> Copy(i.op1)
      [] Ones(b) -> Unary(i, "NOT", i.type, i.op1)
      [] ~Zero(b) /\ ~Ones(b) -> Next_

ShiftByConst(i, b) ==
    CASE b.val = 0 -> Copy(i.op1)
      [] b.val = 1 /\ i.op = "SHL" -> With(i, "ADD", i.op1, i.op1)
      [] OTHER -> Next_

ShiftOfConst(i, a) ==
    IF \/ i.op \in {"SHL", "SHR"} /\ a.val = 0
       \/ i.op \in {"SAR", "ROL", "ROR"} /\ Num(a.type, a.val) \in {0, -1}
    THEN Copy(i.op1)
    ELSE Next_

\* mutant: the widths are compared the wrong way round
TruncExt_swapped(i, a) ==
    LET x == a.op1
    IN CASE x.type = i.type -> Copy(x)
         [] x.type # i.type /\ Size[x.type] = Size[i.type] -> With(i, "BITCAST", x, i.op2)
         [] Size[x.type] > Size[i.type] -> With(i, a.op, x, i.op2)
         [] Size[x.type] < Size[i.type] -> With(i, "TRUNC", x, i.op2)

TruncExt(i, a) ==
    LET x == a.op1
    IN CASE x.type = i.type -> Copy(x)
         [] x.type # i.type /\ Size[x.type] = Size[i.type] -> With(i, "BITCAST", x, i.op2)
         [] Size[x.type] > Size[i.type] -> With(i, "TRUNC", x, i.op2)
         [] Size[x.type] < Size[i.type] -> With(i, a.op, x, i.op2)

\* a conversion of a conversion
ConvertChain(i, a) ==
    CASE i.op = "BITCAST" /\ a.op1.type = i.type -> Copy(a.op1)
      [] i.op = "SEXT" /\ a.op = "ZEXT" -> With(i, "ZEXT", a.op1, i.op2)
      [] OTHER -> With(i, i.op, a.op1, i.op2)

\* the sign bit of the operand is known to be clear
SextPositive(i, a) ==
    LET c == a.op2
    IN IF /\ IsConstRef(c)
          /\ \/ a.op = "AND" /\ AndCells[<<c.val, 2^(Bits[a.type] - 1)>>] = 0
             \/ a.op = "SHR" /\ c.val # 0
       THEN With(i, "ZEXT", i.op1, i.op2)
       ELSE Next_

TruncAnd(i, a) ==
    IF IsConstRef(a.op2) /\ Size[i.type] < 8 /\ a.op2.val = 2^Bits[i.type] - 1
    THEN With(i, "TRUNC", a.op1, i.op2)
    ELSE Next_

AndExt(i, a, b) ==
    LET t == a.op1.type
    IN CASE Size[t] = 8 \/ b.val # 2^Bits[t] - 1 -> Next_
         [] Size[t] < 8 /\ b.val = 2^Bits[t] - 1 ->
              IF a.op = "ZEXT" THEN Copy(i.op1) ELSE Unary(i, "ZEXT", i.type, a.op1)

\* 0xff >> n and 0xff << n as C computes them at the width of type t: the
\* second is an int, and is not cut, when t has 8 bits
MaskRight(t, n) == (2^Bits[t] - 1) \div 2^n
MaskLeft(t, n) == LET m == (2^Bits[t] - 1) * 2^n
                  IN IF Size[t] = 1 THEN m ELSE m % 2^Bits[t]
ShiftMask(op, t, n) == IF op = "SHR" THEN MaskRight(t, n) ELSE MaskLeft(t, n)

\* AND(SHR, C), AND(SHL, C)
AndShift(i, a, b) ==
    LET t == b.type
        n == Low(t, a.op2.val) % Bits[t]
    IN IF IsConstRef(a.op2) /\ ShiftMask(a.op, t, n) = Low(t, b.val)
       THEN Copy(i.op1) ELSE Next_

\* SHL(AND, C), SHR(AND, C): the mask is compared at the width of the count
ShiftAnd(i, a, b) ==
    LET t == b.type
        n == Low(t, b.val) % Bits[t]
        other == IF i.op = "SHL" THEN "SHR" ELSE "SHL"
    IN IF IsConstRef(a.op2) /\ ShiftMask(other, t, n) = Low(t, a.op2.val)
       THEN With(i, i.op, a.op1, i.op2) ELSE Next_

\* (x << c) | (x >> (32 - c)) and its three variants
Rotate(i, a, b) ==
    LET c == a.op2
        d == b.op2
        full(s, n) == /\ s.op = "SUB" /\ IsConstRef(s.op1) /\ s.op2 = n
                      /\ s.op1.val = Bits[i.type]
    IN IF a.op1 # b.op1 THEN Next_
       ELSE IF IsConstRef(c) /\ IsConstRef(d)
       THEN IF Wrap(c.val + d.val) = Bits[i.type]
            THEN Again(AsRotate[a.op], a.type, a.op1, c, i.op3) ELSE Next_
       ELSE IF full(d, c) THEN Again(AsRotate[a.op], a.type, a.op1, c, i.op3)
       ELSE IF full(c, d) THEN Again(AsRotate[b.op], b.type, b.op1, d, i.op3)
       ELSE Next_

---------------------------------------------------------------------------
(* Reassociation: two constants of a chain of operations become one.       *)

\* x + v or x - |v|: the operation named first for v, the second for -v
SignedTerm(i, pos, neg, x, v, t) ==
    IF I64(v) < 0 /\ I64(v) # -2^(Bits64 - 1)
    THEN With(i, neg, x, Const(t, Wrap(-I64(v))))
    ELSE With(i, pos, x, Const(t, v))

Sum(p, q) == Wrap(p.val + q.val)
Diff(p, q) == Wrap(p.val - q.val)
ConstRight(t) == IsConstRef(t.op2)
ConstLeft(t) == ~ConstRight(t) /\ IsConstRef(t.op1)

\* x + v, written as a difference when v is a negative signed number
Offset(i, x, v, t) == IF t \in Signed THEN SignedTerm(i, "ADD", "SUB", x, v, t)
                      ELSE With(i, "ADD", x, Const(t, v))

\* ADD(ADD, C), ADD(SUB, C)
ReassocAdd(i, a, b) ==
    CASE a.op = "ADD" /\ ConstRight(a) -> With(i, "ADD", a.op1, Const(b.type, Sum(a.op2, b)))
      [] a.op = "SUB" /\ ConstRight(a) -> Offset(i, a.op1, Diff(b, a.op2), b.type)
      [] a.op = "SUB" /\ ConstLeft(a) -> With(i, "SUB", Const(b.type, Sum(a.op1, b)), a.op2)
      [] OTHER -> Next_

\* SUB(ADD, C)
SumMinus(i, a, b) ==
    IF ConstRight(a) THEN Offset(i, a.op1, Diff(a.op2, b), b.type) ELSE Next_

\* SUB(C, ADD)
MinusSum(i, a, b) ==
    IF ConstRight(b) THEN With(i, "SUB", Const(b.type, Diff(a, b.op2)), b.op1) ELSE Next_

\* SUB(SUB, C)
DiffMinus(i, a, b) ==
    CASE ConstRight(a) -> SignedTerm(i, "SUB", "ADD", a.op1, Sum(a.op2, b), b.type)
      [] ConstLeft(a) -> With(i, "SUB", Const(b.type, Diff(a.op1, b)), a.op2)
      [] OTHER -> Next_

\* SUB(C, SUB)
MinusDiff(i, a, b) ==
    CASE ConstRight(b) -> With(i, "SUB", Const(a.type, Sum(a, b.op2)), b.op1)
      [] ConstLeft(b) -> SignedTerm(i, "SUB", "MUL", b.op2, Diff(a, b.op1), a.type)
      [] OTHER -> Next_

\* op(op, C) for a product or bits
ReassocSame(i, a, b) ==
    LET pair == <<a.op2.val, b.val>>
        v == CASE i.op = "MUL" -> Wrap(a.op2.val * b.val)
               [] i.op = "AND" -> AndCells[pair]
               [] i.op = "OR" -> OrCells[pair]
               [] i.op = "XOR" -> XorCells[pair]
    IN IF ConstRight(a) THEN With(i, i.op, a.op1, Const(b.type, v)) ELSE Next_

Absorb(i, a) == IF i.op2 \in {a.op1, a.op2} THEN Copy(i.op2) ELSE Next_

XorTwice(i, a) ==
    CASE a.op1 = i.op2 -> Copy(a.op2)
      [] a.op1 # i.op2 /\ a.op2 = i.op2 -> Copy(a.op1)
      [] OTHER -> Next_

---------------------------------------------------------------------------
(* Copies, choices, and the rules for operands of any kind.                *)

UnaryChain(i, a) ==
    CASE i.op = "ABS" /\ a.op = "ABS" -> Copy(i.op1)
      [] i.op = "ABS" /\ a.op = "NEG" -> With(i, "ABS", a.op1, i.op2)
      [] i.op \in {"NEG", "NOT"} /\ a.op = i.op -> Copy(a.op1)

NotCompare(i, a) == Again(Negated[a.op], a.type, a.op1, a.op2, i.op3)

FoldOverflow(a) ==
    IF a.op \in {"ADD_OV", "SUB_OV", "MUL_OV"} THEN Next_ ELSE Copy(IR_FALSE)

FoldCopy(i) == IF i.op2 = IR_COPY_HARD THEN Emit ELSE Copy(i.op1)

FoldPhi(i) == IF i.op2 = i.op3 /\ i.op3 # UNUSED THEN Copy(i.op2) ELSE Emit

FoldCondConst(i, a) == Copy(IF a.val # 0 THEN i.op2 ELSE i.op3)

\* COND with a boolean and with an integer condition
CondBool(i) ==
    LET x == i.op2
        y == i.op3
    IN CASE x = IR_TRUE /\ y = IR_FALSE -> Copy(i.op1)
         [] x = IR_TRUE /\ y # IR_FALSE -> Again("OR", "BOOL", i.op1, y, UNUSED)
         [] x # IR_TRUE /\ y = IR_FALSE -> Again("AND", "BOOL", i.op1, x, UNUSED)
         [] x = IR_FALSE /\ y = IR_TRUE -> Again("NOT", "BOOL", i.op1, UNUSED, UNUSED)
         [] i.type # "BOOL" /\ x = Const(i.type, 1) /\ y = Const(i.type, 0) ->
              Again(IF Size[i.type] > 1 THEN "ZEXT" ELSE "BITCAST", i.type, i.op1, UNUSED, UNUSED)
         [] OTHER -> Next_

CondInt(i, a) ==
    LET test(op) == Again(op, "BOOL", i.op1, Const(a.type, 0), UNUSED)
    IN CASE i.op2 = IR_TRUE /\ i.op3 = IR_FALSE -> test("NE")
         [] i.op2 = IR_FALSE /\ i.op3 = IR_TRUE -> test("EQ")
         [] OTHER -> Next_

\* a condition that compares with zero is replaced by what it compares
CondTest(i, a) ==
    IF a.op \in {"EQ", "NE"} /\ IsConstRef(a.op2) /\ a.op2.val = 0
    THEN IF a.op = "NE" THEN Again("COND", i.type, a.op1, i.op2, i.op3)
         ELSE Again("COND", i.type, a.op1, i.op3, i.op2)
    ELSE Next_

FoldCond(i, a) ==
    LET first == IF a.type = "BOOL" THEN CondBool(i) ELSE CondInt(i, a)
    IN IF i.op2 = i.op3 THEN Copy(i.op2)
       ELSE IF first.k # "NEXT" THEN first
       ELSE CondTest(i, a)

\* mutant: operands are exchanged whatever their order
SwapOps_always(i) == With(i, i.op, i.op2, i.op1)

\* move the lower ref to op2
SwapOps(i) == IF i.op1.ref < i.op2.ref THEN With(i, i.op, i.op2, i.op1) ELSE Next_

SwapCompare(i) ==
    IF i.op1 = i.op2 THEN Bool(i.op \in {"GE", "LE", "UGE", "ULE"})
    ELSE IF i.op1.ref < i.op2.ref THEN With(i, Swapped[i.op], i.op2, i.op1)
    ELSE Next_

Commute(i) ==
    IF i.op1 # i.op2 THEN SwapOps(i)
    ELSE CASE i.op = "ADD" -> Asserting(~IsConstRef(i.op1),
                                        With(i, "MUL", i.op1, Const(i.type, 2)))
           [] i.op \in {"AND", "OR", "MIN", "MAX"} -> Copy(i.op1)
           [] i.op = "XOR" -> ConstU(0)
           [] i.op \in {"EQ", "NE"} -> Bool(i.op = "EQ")
           [] i.op = "MUL" -> Next_

\* overflow-checked operations skip common subexpression elimination
CheckedAny(i) ==
    CASE i.op = "SUB_OV" -> IF i.op1 = i.op2 THEN ConstU(0) ELSE Emit
      [] i.op \in {"ADD_OV", "MUL_OV"} -> IF i.op1.ref < i.op2.ref THEN SwapOps(i) ELSE Emit

=============================================================================
