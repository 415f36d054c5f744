------------------------------ MODULE IrValues ------------------------------
(***************************************************************************)
(* The integer types of the IR, the 64-bit cell in which a constant is     *)
(* kept (union ir_val), and what every integer operation computes.         *)
(*                                                                         *)
(* Widths are scaled down: Bits8, Bits32 and Bits64 stand for 8, 32 and 64 *)
(* bits.  I16 and U16 have the rules of I8 and U8 (the C code computes     *)
(* both in an int) and are left out, and so are CHAR and floating point.   *)
(* A value of a type is written as the content of its cell: sign-extended  *)
(* for a signed type, zero-extended for an unsigned one.                   *)
(***************************************************************************)
EXTENDS Integers, Bitwise

CONSTANTS Bits8, Bits32, Bits64

ASSUME WidthAssumption ==
    /\ {Bits8, Bits32, Bits64} \subseteq Nat
    /\ 2 < Bits8 /\ Bits8 < Bits32 /\ Bits32 < Bits64

Signed == {"I8", "I32", "I64"}
Unsigned == {"BOOL", "U8", "U32", "U64", "ADDR"}
Types == Signed \cup Unsigned
Ints == Types \ {"BOOL"}

\* ir_type_size: 1, 4 or 8 bytes
Size == [t \in Types |-> CASE t \in {"BOOL", "I8", "U8"} -> 1
                           [] t \in {"I32", "U32"} -> 4
                           [] OTHER -> 8]

Bits == [t \in Types |-> CASE Size[t] = 1 -> Bits8
                           [] Size[t] = 4 -> Bits32
                           [] Size[t] = 8 -> Bits64]

Cell == 0 .. 2^Bits64 - 1

\* n as the 64 bits of a cell, and a cell read as val.i64
Wrap(n) == n % 2^Bits64
I64(v) == IF v < 2^(Bits64 - 1) THEN v ELSE v - 2^Bits64

\* val.u8, val.u32, val.u64 and val.i8, val.i32, val.i64, by the width of t
Low(t, v) == v % 2^Bits[t]
Num(t, v) == LET u == Low(t, v)
             IN IF u < 2^(Bits[t] - 1) THEN u ELSE u - 2^Bits[t]

\* the number a cell of type t stands for
Lit(t, v) == IF t \in Signed THEN Num(t, v) ELSE Low(t, v)

\* the cell of type t that holds n cut to the width of t
Ext(t, n) == Wrap(Lit(t, n))

Values(t) == IF t = "BOOL" THEN {0, 1} ELSE {Ext(t, n) : n \in 0 .. 2^Bits[t] - 1}

Truth(b) == IF b THEN 1 ELSE 0
Abs(n) == IF n < 0 THEN -n ELSE n

\* C's division, which rounds to zero, and its remainder
Quot(m, n) == IF (m < 0) = (n < 0) THEN Abs(m) \div Abs(n) ELSE -(Abs(m) \div Abs(n))
Rem(m, n) == m - n * Quot(m, n)

AndCells == [p \in Cell \X Cell |-> p[1] & p[2]]
OrCells == [p \in Cell \X Cell |-> p[1] | p[2]]
XorCells == [p \in Cell \X Cell |-> p[1] ^^ p[2]]

Rol(t, v, n) == LET u == Low(t, v)
                IN Ext(t, u * 2^n + u \div 2^(Bits[t] - n))
Ror(t, v, n) == Rol(t, v, IF n = 0 THEN 0 ELSE Bits[t] - n)

---------------------------------------------------------------------------
(* What an instruction computes.  Arithmetic wraps.  LT, GE, LE and GT     *)
(* follow the type of their operands, as they do in the emitted C and LLVM *)
(* code and in the constant folder.  The x86-64 backend tests them signed  *)
(* whatever the type (_ir_emit_setcc_int), so on an unsigned type they     *)
(* have no one meaning, and programs use ULT, UGE, ULE and UGT there.      *)

Comparisons == {"EQ", "NE", "LT", "GE", "LE", "GT", "ULT", "UGE", "ULE", "UGT"}

\* a comparison of two values of type t
Compare(op, t, x, y) ==
    LET m == Lit(t, x)
        n == Lit(t, y)
        u == Low(t, x)
        w == Low(t, y)
    IN CASE op = "EQ" -> u = w
         [] op = "NE" -> u # w
         [] op = "LT" -> m < n
         [] op = "GE" -> m >= n
         [] op = "LE" -> m <= n
         [] op = "GT" -> m > n
         [] op = "ULT" -> u < w
         [] op = "UGE" -> u >= w
         [] op = "ULE" -> u <= w
         [] op = "UGT" -> u > w

\* the result of type t of op on x (of type s), y and z
Apply(op, t, s, x, y, z) ==
    CASE op \in Comparisons -> Truth(Compare(op, s, x, y))
      [] op \in {"ADD", "ADD_OV"} -> Ext(t, x + y)
      [] op \in {"SUB", "SUB_OV"} -> Ext(t, x - y)
      [] op \in {"MUL", "MUL_OV"} -> Ext(t, x * y)
      [] op = "DIV" -> Ext(t, Quot(Lit(t, x), Lit(t, y)))
      [] op = "MOD" -> Ext(t, Rem(Lit(t, x), Lit(t, y)))
      [] op = "NEG" -> Ext(t, -x)
      [] op = "ABS" -> Ext(t, Abs(Lit(t, x)))
      [] op = "NOT" -> IF t = "BOOL" THEN Truth(x = 0) ELSE Ext(t, -1 - x)
      [] op = "AND" -> AndCells[<<x, y>>]
      [] op = "OR" -> OrCells[<<x, y>>]
      [] op = "XOR" -> XorCells[<<x, y>>]
      [] op = "SHL" -> Ext(t, x * 2^(y % Bits[t]))
      [] op = "SHR" -> Ext(t, Low(t, x) \div 2^(y % Bits[t]))
      [] op = "SAR" -> Ext(t, Num(t, x) \div 2^(y % Bits[t]))
      [] op = "ROL" -> Rol(t, x, y % Bits[t])
      [] op = "ROR" -> Ror(t, x, y % Bits[t])
      [] op = "MIN" -> IF Lit(t, x) <= Lit(t, y) THEN x ELSE y
      [] op = "MAX" -> IF Lit(t, x) >= Lit(t, y) THEN x ELSE y
      [] op = "SEXT" -> Ext(t, Num(s, x))
      [] op = "ZEXT" -> Ext(t, Low(s, x))
      [] op \in {"TRUNC", "BITCAST", "COPY"} -> Ext(t, x)
      [] op \in {"COND", "PHI"} -> IF x # 0 THEN y ELSE z

\* the number an overflow-checked operation computes before it is cut to t
Exact(op, t, x, y) ==
    CASE op = "ADD_OV" -> Lit(t, x) + Lit(t, y)
      [] op = "SUB_OV" -> Lit(t, x) - Lit(t, y)
      [] op = "MUL_OV" -> Lit(t, x) * Lit(t, y)

Overflows(op, t, x, y) ==
    LET n == Exact(op, t, x, y) IN Lit(t, Ext(t, n)) # n

\* the operands for which the result of op is not defined: a divisor of
\* zero, a quotient or a change of sign that does not fit, and a shift by
\* the width or more
Traps(op, t, x, y) ==
    \/ op \in {"DIV", "MOD"} /\ Low(t, y) = 0
    \/ /\ op \in {"DIV", "MOD"} /\ t \in Signed
       /\ Num(t, y) = -1 /\ Num(t, x) = -2^(Bits[t] - 1)
    \/ op \in {"NEG", "ABS"} /\ t \in Signed /\ Num(t, x) = -2^(Bits[t] - 1)
    \/ op \in {"SHL", "SHR", "SAR", "ROL", "ROR"} /\ Low(t, y) >= Bits[t]

=============================================================================
