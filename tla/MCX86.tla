-------------------------------- MODULE MCX86 --------------------------------
(***************************************************************************)
(* Small functions for the x86-64 back-end: every kind of operation, in    *)
(* the shapes that selection looks for and in the ones it must not take.   *)
(* Six shapes are left out, on which the code differs from the IR (the     *)
(* README describes them): x & 0xffffffff of a 64-bit x; a guard on a      *)
(* comparison with zero that does not directly follow it; a comparison     *)
(* that is repeated after an instruction of the branch that sets flags; a  *)
(* loaded value compared and stored over what it was loaded from;          *)
(* a location taken in place modulo a power of two that is no immediate;   *)
(* and the negation of a wider number whose result is spilled.             *)
(***************************************************************************)
EXTENDS X86Code

Insn(op, t, a, b, c) == <<[op |-> op, t |-> t, op1 |-> a, op2 |-> b, op3 |-> c]>>
Con(t, n)            == <<[t |-> t, v |-> Ext(t, n)]>>
Param(t)             == Insn("PARAM", t, 1, 0, 0)
Params(t, n)         == FlattenSeq([k \in 1 .. n |-> Param(t)])
Op2(op, t, a, b)     == Insn(op, t, a, b, 0)
LoadOf(prev, t, a)   == Insn("LOAD", t, prev, a, 0)
StoreTo(prev, a, r)  == Insn("STORE", "BOOL", prev, a, r)

Blocks == {"START", "BEGIN", "IF_TRUE", "IF_FALSE"}

Function(body, con, stack) ==
  LET insn == Insn("START", "BOOL", 0, 0, 0) \o body
  IN [insn |-> insn, con |-> con, stack |-> stack, bb |-> 0, rules |-> [r \in DOMAIN insn |-> NoRule],
      start |-> [r \in DOMAIN insn |-> Max({b \in 1 .. r : insn[b].op \in Blocks})]]

(* the return of r at the end of the chain of memory accesses and branches *)
Chained == {"LOAD", "VLOAD", "STORE", "VSTORE", "GUARD", "GUARD_NOT", "BEGIN", "IF_TRUE", "IF_FALSE"}
EndOfChain(body) == Max({1} \cup {k + 1 : k \in {j \in DOMAIN body : body[j].op \in Chained}})
Returning(body, r, con, stack) ==
  Function(body \o Insn("RETURN", "BOOL", EndOfChain(body), r, 0), con, stack)

Wholes == {"I8", "U8", "I32", "I64", "U64"}
Plain  == {"U8", "I32", "U64"}
Binary == {"ADD", "SUB", "MUL", "DIV", "MOD", "AND", "OR", "XOR", "SHL", "SHR", "SAR", "ROL", "ROR", "MIN", "MAX"}
TypesOf(op) == IF op \in {"MUL", "DIV", "MOD", "SAR", "MIN", "MAX"} THEN Wholes ELSE Plain

(* x op y, and one more use of x *)
Binaries == UNION {{Returning(Params(t, 2) \o Op2(op, t, 2, 3) \o Op2("XOR", t, 4, 2), 5, <<>>, {}) :
                      t \in TypesOf(op)} : op \in Binary}

(* x op x, and a parameter that is passed in memory *)
Doubles == {Returning(Params(t, 2) \o Op2(op, t, 2, 2) \o Op2(op, t, 4, 3), 5, <<>>, {3}) :
              t \in Plain, op \in {"ADD", "SUB", "MUL", "AND", "XOR"}}

ConstantsOf(op) ==
  CASE op = "ADD" -> {1, 9, 20, 100, 127}
    [] op = "SUB" -> {1, 9, 16, 20, 127}
    [] op = "MUL" -> {2, 3, 4, 6, 16, 20}
    [] op \in {"DIV", "MOD"} -> {2, 3, 4, 16, 32}
    [] op = "AND" -> {1, 7, 111, 20}
    [] op \in {"OR", "XOR"} -> {1, 16, 32, 20}
    [] op \in {"SHL", "SHR", "SAR", "ROL", "ROR"} -> {1, 2}
    [] op \in {"MIN", "MAX"} -> {3, 20}

(* x op c: constants that are immediates, powers of two, scales, masks and *)
(* single bits, in the range of the type, and none that folding removes    *)
WithConstant ==
  UNION {{Returning(Param(p[1]) \o Op2(op, p[1], 2, -1), 3, Con(p[1], p[2]), {}) :
            p \in {q \in TypesOf(op) \X ConstantsOf(op) :
                     q[2] < 2^Bits[q[1]] - 1 \/ (q[2] = 127 /\ op \in {"ADD", "SUB"})}} : op \in Binary}

(* x <op> and conversions; the operand of a widening is computed before, for *)
(* a parameter says nothing about the bits above its width                   *)
Unaries ==
  {Returning(Param(t) \o Insn(op, t, 2, 0, 0) \o Op2("ADD", t, 3, 2), 4, <<>>, {}) :
     t \in Wholes, op \in {"NEG", "NOT", "CTLZ", "CTTZ", "CTPOP", "COPY"}}
  \cup {Returning(Param(t) \o Insn("ABS", t, 2, 0, 0), 3, <<>>, {}) : t \in Signed}
  \cup {Returning(Param(p[2]) \o Op2("XOR", p[2], 2, -1) \o Insn(p[1], p[3], 3, 0, 0), 4, Con(p[2], 3), {}) :
          p \in {<<"SEXT", "I8", "I32">>, <<"SEXT", "I8", "I64">>, <<"SEXT", "I32", "I64">>, <<"ZEXT", "U8", "U32">>,
                 <<"ZEXT", "I8", "U64">>, <<"ZEXT", "U32", "U64">>, <<"TRUNC", "U64", "U8">>, <<"TRUNC", "I64", "I32">>,
                 <<"BITCAST", "U32", "I32">>}}
  \cup {Returning(Params("U8", 2) \o Op2("ULT", "BOOL", 2, 3) \o Insn("NOT", "BOOL", 4, 0, 0), 5, <<>>, {}),
        Returning(Param("U8") \o Insn("NOT", "BOOL", 2, 0, 0), 3, <<>>, {})}

(* Sums that are addresses: the shapes of a LEA, also with parts used twice *)
Sum(t, shape) == Returning(Params(t, 2) \o shape, 3 + Len(shape), Con(t, 3) \o Con(t, 4), {})
Addresses ==
  UNION {{Sum(t, sh) : sh \in
     {Op2("ADD", t, 2, -1) \o Op2("ADD", t, 4, 3),
      Op2("ADD", t, 3, -1) \o Op2("ADD", t, 2, 4),
      Op2("MUL", t, 2, -2) \o Op2("ADD", t, 4, 3),
      Op2("MUL", t, 2, -2) \o Op2("ADD", t, 3, 4),
      Op2("MUL", t, 2, -2) \o Op2("SUB", t, 4, -1),
      Op2("MUL", t, 2, -1) \o Op2("ADD", t, 4, -1),
      Op2("MUL", t, 2, -2) \o Op2("ADD", t, 3, -1) \o Op2("ADD", t, 4, 5),
      Op2("MUL", t, 2, -2) \o Op2("ADD", t, 3, -1) \o Op2("ADD", t, 5, 4),
      Op2("MUL", t, 2, -2) \o Op2("ADD", t, 4, 3) \o Op2("ADD", t, 5, -1),
      Op2("MUL", t, 2, -2) \o Op2("ADD", t, 3, 4) \o Op2("SUB", t, 5, -1),
      Op2("ADD", t, 2, 3) \o Op2("ADD", t, 4, -1),
      Op2("ADD", t, 2, 2) \o Op2("ADD", t, 4, 4),
      Op2("MUL", t, 2, -2) \o Op2("ADD", t, 4, 3) \o Op2("ADD", t, 4, -1) \o Op2("SUB", t, 5, 6),
      Op2("MUL", t, 2, -2) \o Op2("ADD", t, 4, 3) \o Op2("XOR", t, 4, 5),
      Op2("ADD", t, 2, -1) \o Op2("ADD", t, 4, 3) \o Op2("SUB", t, 5, 4)}} : t \in {"I32", "U64"}}

(* A location that is modified in place: the load, the operation and the    *)
(* store, also with a second use of the result, the operands the other way  *)
(* around, or a store to another address in between                         *)
PtrAnd(t) == Param("ADDR") \o Param(t)
Modify(t, op, a, b, r, con) ==
  Returning(PtrAnd(t) \o LoadOf(1, t, 2) \o Op2(op, t, a, b) \o StoreTo(4, 2, 5), r, con, {})
InPlaces ==
  {Modify(t, op, 4, 3, r, <<>>) :
     t \in Plain, op \in {"ADD", "SUB", "MUL", "AND", "OR", "SHL", "SHR"}, r \in {3, 5}}
  \cup {Modify(t, op, 3, 4, 3, <<>>) : t \in Plain, op \in {"ADD", "SUB", "XOR"}}
  \cup {Modify(t, op, 4, -1, 3, Con(t, n)) :
          t \in {"U8", "U64"}, op \in {"ADD", "SUB", "MUL", "DIV", "MOD", "SHR", "AND"}, n \in {1, 4}}
  \cup {Modify(t, op, 4, 0, 3, <<>>) : t \in Plain, op \in {"NEG", "NOT"}}
  \cup {Returning(Params("ADDR", 3) \o LoadOf(1, "U64", 2) \o StoreTo(5, 3, 4) \o Op2(op, "U64", 5, 4)
                     \o StoreTo(6, 2, 7), 4, <<>>, {}) : op \in {"ADD", "SUB"}}

(* A load as an operand, through an address, with and without a store       *)
(* between the load and its use                                             *)
Reading(body) ==
  Returning(Params("ADDR", 2) \o body, 3 + Len(body), Con("ADDR", 3) \o Con("ADDR", 4) \o Con("ADDR", 20), {})
LoadsUsed ==
  {Returning(PtrAnd(t) \o LoadOf(1, t, 2) \o Op2(op, t, p[1], p[2]), 5, <<>>, {}) :
     t \in {"U8", "I32"}, op \in {"ADD", "SUB", "MUL", "DIV", "MIN", "XOR"}, p \in {<<3, 4>>, <<4, 3>>}}
  \cup {Reading(sh) : sh \in
     {LoadOf(1, "U64", 2) \o StoreTo(4, 3, 2) \o Op2("ADD", "U64", 2, 4),
      LoadOf(1, "U64", 2) \o StoreTo(4, 3, 2) \o Op2("SUB", "U64", 2, 4),
      Op2("ADD", "ADDR", 2, -1) \o LoadOf(1, "U8", 4),
      Op2("ADD", "ADDR", 2, -3) \o LoadOf(1, "I32", 4),
      Op2("ADD", "ADDR", 2, 3) \o LoadOf(1, "I32", 4),
      Op2("MUL", "ADDR", 3, -2) \o Op2("ADD", "ADDR", 2, 4) \o LoadOf(1, "U64", 5),
      Op2("MUL", "ADDR", 3, -2) \o Op2("ADD", "ADDR", 4, 2) \o Op2("ADD", "ADDR", 5, -1) \o LoadOf(1, "U64", 6),
      LoadOf(1, "U64", 2) \o Op2("ADD", "ADDR", 4, 3) \o LoadOf(4, "U8", 5),
      Op2("ADD", "ADDR", 2, -1) \o LoadOf(1, "U64", 4) \o StoreTo(5, 4, 3) \o Op2("SUB", "U64", 5, 4),
      Op2("ADD", "ADDR", 2, -1) \o LoadOf(1, "U64", 4) \o StoreTo(5, 4, 3) \o Op2("XOR", "U64", 5, 3),
      LoadOf(1, "U8", -1),
      LoadOf(1, "U8", -3),
      StoreTo(1, 2, -1) \o StoreTo(4, 3, -3) \o LoadOf(5, "U8", 2)}}

(* A comparison stored as a truth value *)
Compared(t) == IF t \in Signed THEN {"EQ", "LT", "GE", "LE", "GT"} ELSE {"NE", "ULT", "UGE", "ULE", "UGT"}
StoredTests ==
  UNION {{Returning(Param("ADDR") \o Params(t, 2) \o Op2(op, "BOOL", 3, 4) \o StoreTo(1, 2, 5), 3, <<>>, {}) :
            op \in Compared(t)} : t \in Plain}

(* A local variable, by name and by address *)
Locals ==
  {Returning(Param("U64") \o Insn("VAR", "U64", 1, 0, 0) \o Insn("VSTORE", "BOOL", 1, 3, 2) \o sh, 4 + Len(sh),
             Con("U64", 1) \o Con("U64", 20), {}) : sh \in
     {Insn("VLOAD", "U64", 4, 3, 0) \o Op2("ADD", "U64", 5, 2),
      Insn("VLOAD", "U64", 4, 3, 0) \o Op2("SUB", "U64", 5, -1) \o Insn("VSTORE", "BOOL", 5, 3, 6)
        \o Insn("VLOAD", "U64", 7, 3, 0),
      Insn("VADDR", "ADDR", 3, 0, 0) \o LoadOf(4, "U64", 5),
      Insn("VADDR", "ADDR", 3, 0, 0) \o StoreTo(4, 5, -2) \o Insn("VLOAD", "U64", 6, 3, 0),
      Insn("VADDR", "ADDR", 3, 0, 0) \o Op2("ADD", "ADDR", 5, -1) \o StoreTo(4, 6, 2) \o LoadOf(7, "U64", 6),
      Insn("VADDR", "ADDR", 3, 0, 0) \o Op2("SUB", "ADDR", 2, 5),
      Insn("VADDR", "ADDR", 3, 0, 0) \o Op2("ADD", "ADDR", 2, 5)}}

(* The last value of a body decides: it is returned, branched on, or        *)
(* guarded, inside its block or at the end of it                            *)
Branching(body, r, con) == Function(body \o Insn("IF", "BOOL", EndOfChain(body), r, 0), con, {})
Guarded(body, con) ==
  LET guard(op) == body \o Insn(op, "BOOL", EndOfChain(body), Len(body) + 1, 0)
      n == Len(body) + 2
  IN {Returning(guard("GUARD"), 2, con, {}),
      Returning(guard("GUARD_NOT") \o Insn("END", "BOOL", n, 0, 0) \o Insn("BEGIN", "BOOL", n + 1, 0, 0), 2, con, {})}
Deciding(body, con) ==
  {Returning(body, Len(body) + 1, con, {}), Branching(body, Len(body) + 1, con)} \cup Guarded(body, con)

(* x cmp y, x cmp c, and a comparison with a loaded value on either side *)
Tests ==
  UNION {UNION {Deciding(Params(t, 2) \o Op2(op, "BOOL", 2, b), Con(t, 3) \o Con(t, 20)) :
                  op \in Compared(t), b \in {3, -1, -2}} : t \in Plain}
LoadTests ==
  UNION {UNION {Deciding(PtrAnd(t) \o LoadOf(1, t, 2) \o Op2(op, "BOOL", p[1], p[2]), Con(t, 2)) :
                  op \in Compared(t) \ {"EQ", "LE", "GT", "ULE", "UGT"},
                  p \in {<<3, 4>>, <<4, 3>>, <<4, -1>>}} : t \in Plain}

(* v = x op y, v cmp 0: the flags of the operation may serve; also when v   *)
(* has another use                                                          *)
ZeroTests ==
  UNION {UNION {Deciding(Params(t, 2) \o Op2(v, t, 2, 3) \o Op2(op, "BOOL", 4, -1), Con(t, 0)) :
                  v \in {"SUB", "AND", "MUL"}, op \in Compared(t) \ {"ULT", "UGE"}} : t \in {"U8", "I32"}}
FlagUses ==
  {Returning(Params(t, 2) \o Op2(v, t, 2, 3) \o Op2(op, "BOOL", 4, -1) \o Insn("GUARD", "BOOL", 1, 5, 0), 4,
             Con(t, 0), {}) :
     v \in {"SUB", "AND"}, op \in {"LT", "GE", "NE", "GT"}, t \in {"I8", "I64"}}

(* x & y, x & c and a loaded x & y as conditions; the constants are a byte  *)
(* mask, a bit within and a bit beyond an immediate                         *)
Masks ==
  UNION {Deciding(Params(t, 2) \o Op2("AND", t, 2, b), Con(t, 7) \o Con(t, 2) \o Con(t, 32)) :
           b \in {3, -1, -2, -3}, t \in {"I32", "U64"}}
  \cup UNION {Deciding(PtrAnd(t) \o LoadOf(1, t, 2) \o Op2("AND", t, p[1], p[2]), Con(t, 32)) :
                p \in {<<3, 4>>, <<4, -1>>}, t \in {"I32", "U64"}}
  \cup UNION {Deciding(Params("U64", 2) \o Op2("AND", "U64", 2, b) \o Op2(op, "BOOL", 4, -3),
                       Con("U64", 2) \o Con("U64", 32) \o Con("U64", 0)) :
                b \in {3, -1, -2}, op \in {"EQ", "NE"}}

(* A value that is no truth value decides: computed, loaded, passed, or     *)
(* just written to memory                                                   *)
Numbers ==
  UNION {Deciding(Params(t, 2) \o Op2(op, t, 2, 3), <<>>) : t \in {"U8", "U64"}, op \in {"ADD", "OR", "MUL"}}
  \cup UNION {Deciding(Param("ADDR") \o LoadOf(1, t, 2), <<>>) : t \in {"U8", "U64"}}
  \cup {Branching(Param(t), 2, <<>>) : t \in {"U8", "I64"}}
  \cup {Branching(PtrAnd(t) \o LoadOf(1, t, 2) \o Op2(op, t, p[1], p[2]) \o StoreTo(4, 2, 5), 5, Con(t, 1)) :
          t \in {"U8", "I32"}, op \in {"ADD", "SUB", "AND"}, p \in {<<4, 3>>, <<3, 4>>, <<4, -1>>}}
  \cup {Returning(PtrAnd(t) \o LoadOf(1, t, 2) \o Op2(op, t, 4, b) \o StoreTo(4, 2, 5)
                     \o Op2(cmp, "BOOL", 5, -2) \o Insn("GUARD", "BOOL", 6, 7, 0), 3, Con(t, 1) \o Con(t, 0), {}) :
          t \in {"I8", "I32"}, op \in {"ADD", "SUB"}, cmp \in {"LT", "GT"}, b \in {3, -1}}

(* A choice between values and constants, on every kind of condition *)
Choosing(t, body) ==
  {Returning(Params(t, 2) \o body \o Insn("COND", t, Len(body) + 3, c[1], c[2]), Len(body) + 4,
             Con(t, 0) \o Con(t, 20) \o Con(t, 3), {}) :
     c \in {<<2, 3>>, <<3, 2>>, <<3, 3>>, <<2, -1>>, <<-2, 3>>, <<-1, -2>>}}
Selections ==
  UNION {Choosing("I32", Op2(op, "BOOL", 2, 3)) : op \in {"EQ", "LT", "GE", "LE", "GT"}}
  \cup UNION {Choosing("U64", Op2(op, "BOOL", 2, -3)) : op \in {"NE", "ULT", "UGE", "UGT"}}
  \cup UNION {Choosing("U64", Op2("AND", "U64", 2, b)) : b \in {3, -2, -3}}
  \cup Choosing("U8", Op2("SUB", "U8", 2, 3))
  \cup {Returning(PtrAnd("I32") \o LoadOf(1, "I32", 2) \o Op2("LT", "BOOL", 4, 3) \o Insn("COND", "I32", 5, c[1], c[2]),
                  6, Con("I32", 0) \o Con("I32", 5), {}) : c \in {<<3, -1>>, <<-2, 3>>, <<-2, -1>>}}

(* The carry or the overflow of an operation *)
Overflowing ==
  UNION {Deciding(Params(t, 2) \o Op2(op, t, 2, b) \o Insn("OVERFLOW", "BOOL", 4, 0, 0), Con(t, 3)) :
           t \in {"I8", "U64"}, op \in {"ADD_OV", "MUL_OV"}, b \in {3, -1}}
  \cup UNION {Deciding(Params(t, 2) \o Op2("SUB_OV", t, 2, 3) \o Insn("OVERFLOW", "BOOL", 4, 0, 0), <<>>) :
                t \in {"I32", "U8"}}

(* Blocks one after the other: a load is used in the block behind its own,  *)
(* a comparison is repeated, or made again of other operands                *)
Sequels ==
  {Returning(PtrAnd(t) \o LoadOf(1, t, 2) \o Insn("END", "BOOL", 4, 0, 0) \o Insn("BEGIN", "BOOL", 5, 0, 0)
               \o Op2(op, t, 4, 3), 7, <<>>, {}) : t \in Plain, op \in {"ADD", "SUB"}}
  \cup {Branching(Params("I32", 2) \o Op2("LT", "BOOL", 2, 3) \o Insn("IF", "BOOL", 1, 4, 0)
                    \o Insn(side, "BOOL", 5, 0, 0) \o Op2(op, "BOOL", 2, 3), 7, <<>>) :
          side \in {"IF_TRUE", "IF_FALSE"}, op \in {"EQ", "GT", "LE"}}
  \cup {Branching(Params("U64", 2) \o Op2("ULT", "BOOL", 2, 3) \o Insn("IF", "BOOL", 1, 4, 0)
                    \o Insn("IF_TRUE", "BOOL", 5, 0, 0) \o Op2("XOR", "U64", 2, 3) \o Op2("UGT", "BOOL", 3, 7), 8, <<>>)}

Progs == Binaries \cup Doubles \cup WithConstant \cup Unaries \cup Addresses \cup InPlaces \cup LoadsUsed
           \cup StoredTests \cup Locals \cup Tests \cup LoadTests \cup ZeroTests \cup FlagUses \cup Masks
           \cup Numbers \cup Selections \cup Overflowing \cup Sequels

Args == {<<0, 5, 3, 2>>, <<0, 127, 2, 4>>, <<0, 80, 80, 8>>}
ArgsOf(f) == Args
=============================================================================
