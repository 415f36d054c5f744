----------------------------- MODULE X86Machine -----------------------------
(***************************************************************************)
(* The processor the emitted code runs on, as far as the templates of      *)
(* ir_x86.dasc use it: general registers with 1, 4 and 8 byte accesses, a  *)
(* memory, the spill slots of the frame, and the flags Z, S, C and O.      *)
(*                                                                         *)
(* A write of one byte keeps the rest of a register, a write of 4 bytes    *)
(* clears the upper half.  A flag is 0, 1, or 2 when the instruction       *)
(* leaves it undefined; ok turns FALSE when such a flag is read, when a    *)
(* division faults, when a spill slot is written beyond its width, and at  *)
(* the place of a failed assertion of the emitter.                         *)
(* Memory is addressed by cells: accesses to different addresses never     *)
(* overlap.  The stack pointer is a register that nothing writes.          *)
(***************************************************************************)
EXTENDS IrValues, LiveInterval

RAX == 0
RCX == 1
RDX == 2
RBX == 3
RSP == 4
Regs == {RAX, RCX, RDX, RBX}

StackBase == 2^(Bits64 - 1)

(* Operands *)
R(r)          == [k |-> "reg", r |-> r]
Imm(n)        == [k |-> "imm", n |-> n]
Slot(ref)     == [k |-> "slot", n |-> ref]
Mem(b, o, i, c) == [k |-> "mem", b |-> b, o |-> o, i |-> i, c |-> c]

(* Instructions: name, access size, destination, source and one more       *)
(* argument (the size of the source of an extension, the immediate of the  *)
(* three-operand imul, a condition, the target of a jump).                 *)
Ins(i, sz, d, s)     == <<[i |-> i, sz |-> sz, d |-> d, s |-> s, n |-> 0]>>
InsN(i, sz, d, s, n) == <<[i |-> i, sz |-> sz, d |-> d, s |-> s, n |-> n]>>
CC(i, cc, sz, d, s)  == <<[i |-> i, sz |-> sz, d |-> d, s |-> s, n |-> 0, cc |-> cc]>>
Jcc(cc, to)          == <<[i |-> "jcc", sz |-> 8, n |-> to, cc |-> cc]>>
Jmp(to)              == <<[i |-> "jmp", sz |-> 8, n |-> to]>>
Fail                 == <<[i |-> "fail", sz |-> 8, n |-> 0]>>
Asserting(p)         == IF p THEN <<>> ELSE Fail

W(sz) == CASE sz = 1 -> Bits8 [] sz = 4 -> Bits32 [] sz = 8 -> Bits64

(* the low w bits as a signed number *)
Sig(w, v) == LET u == v % 2^w IN IF u < 2^(w - 1) THEN u ELSE u - 2^w

Untouched(a) == (11 * a + 5) % 2^Bits64

ReadMem(mem, a) == IF a \in DOMAIN mem THEN mem[a] ELSE Untouched(a)

WriteMem(mem, a, v) == [x \in DOMAIN mem \cup {a} |-> IF x = a THEN v ELSE mem[x]]

Address(m, o) == Wrap((IF o.b = NONE THEN 0 ELSE m.r[o.b]) + o.o
                        + (IF o.i = NONE THEN 0 ELSE m.r[o.i] * o.c))

Get(m, sz, o) == (CASE o.k = "reg" -> m.r[o.r]
                    [] o.k = "imm" -> o.n
                    [] o.k = "slot" -> m.slot[o.n]
                    [] o.k = "mem" -> ReadMem(m.mem, Address(m, o))) % 2^W(sz)

(* the w low bits of old replaced by those of v *)
Patch(w, old, v) == (old - (old % 2^w)) + (v % 2^w)

Put(m, sz, o, v) ==
  CASE o.k = "reg"  -> [m EXCEPT !.r[o.r] = IF sz = 1 THEN Patch(Bits8, @, v) ELSE v % 2^W(sz)]
    [] o.k = "slot" -> [m EXCEPT !.slot[o.n] = Patch(W(sz), @, v), !.ok = @ /\ sz <= m.width[o.n]]
    [] o.k = "mem"  -> LET a == Address(m, o)
                       IN [m EXCEPT !.mem = WriteMem(@, a, Patch(W(sz), ReadMem(@, a), v))]

---------------------------------------------------------------------------
(* Flags *)

Undefined == [z |-> 2, s |-> 2, c |-> 2, o |-> 2]

(* Z and S follow the result; carry and overflow are given *)
FlagsOf(w, n, c, o) == [z |-> Truth(n % 2^w = 0), s |-> Truth(Sig(w, n) < 0), c |-> c, o |-> o]

Fits(w, n) == -2^(w - 1) <= n /\ n < 2^(w - 1)

AddFlags(w, x, y) == FlagsOf(w, x + y, Truth(x + y >= 2^w), Truth(~ Fits(w, Sig(w, x) + Sig(w, y))))
SubFlags(w, x, y) == FlagsOf(w, x - y, Truth(x < y), Truth(~ Fits(w, Sig(w, x) - Sig(w, y))))
BitFlags(w, n)    == FlagsOf(w, n, 0, 0)

(* the flags a condition reads, and when it holds *)
Reads(cc) == CASE cc \in {"e", "ne"} -> {"z"}
               [] cc \in {"l", "ge"} -> {"s", "o"}
               [] cc \in {"le", "g"} -> {"z", "s", "o"}
               [] cc \in {"b", "ae"} -> {"c"}
               [] cc \in {"be", "a"} -> {"c", "z"}
               [] cc \in {"s", "ns"} -> {"s"}
               [] cc \in {"o", "no"} -> {"o"}

Holds(f, cc) == CASE cc = "e"  -> f.z = 1
                  [] cc = "ne" -> f.z # 1
                  [] cc = "l"  -> f.s # f.o
                  [] cc = "ge" -> f.s = f.o
                  [] cc = "le" -> f.z = 1 \/ f.s # f.o
                  [] cc = "g"  -> f.z # 1 /\ f.s = f.o
                  [] cc = "b"  -> f.c = 1
                  [] cc = "ae" -> f.c # 1
                  [] cc = "be" -> f.c = 1 \/ f.z = 1
                  [] cc = "a"  -> f.c # 1 /\ f.z # 1
                  [] cc = "s"  -> f.s = 1
                  [] cc = "ns" -> f.s # 1
                  [] cc = "o"  -> f.o = 1
                  [] cc = "no" -> f.o # 1

Known(m, cc) == [m EXCEPT !.ok = @ /\ \A f \in Reads(cc) : m.f[f] # 2]

---------------------------------------------------------------------------
(* What each instruction does *)

Result(m, q, n, f) == [Put(m, q.sz, q.d, n) EXCEPT !.f = f]

Arith(m, q) ==
  LET w == W(q.sz)
      x == Get(m, q.sz, q.d)
      y == Get(m, q.sz, q.s)
  IN CASE q.i = "add"  -> Result(m, q, x + y, AddFlags(w, x, y))
       [] q.i = "sub"  -> Result(m, q, x - y, SubFlags(w, x, y))
       [] q.i = "cmp"  -> [m EXCEPT !.f = SubFlags(w, x, y)]
       [] q.i = "and"  -> Result(m, q, AndCells[<<x, y>>], BitFlags(w, AndCells[<<x, y>>]))
       [] q.i = "or"   -> Result(m, q, OrCells[<<x, y>>], BitFlags(w, OrCells[<<x, y>>]))
       [] q.i = "xor"  -> Result(m, q, XorCells[<<x, y>>], BitFlags(w, XorCells[<<x, y>>]))
       [] q.i = "test" -> [m EXCEPT !.f = BitFlags(w, AndCells[<<x, y>>])]
       [] q.i = "inc"  -> Result(m, q, x + 1, [AddFlags(w, x, 1) EXCEPT !.c = m.f.c])
       [] q.i = "dec"  -> Result(m, q, x - 1, [SubFlags(w, x, 1) EXCEPT !.c = m.f.c])
       [] q.i = "neg"  -> Result(m, q, -x, SubFlags(w, 0, x))
       [] q.i = "not"  -> Put(m, q.sz, q.d, -1 - x)
       [] q.i = "imul" -> LET n == Sig(w, x) * Sig(w, y)
                          IN Result(m, q, n, [Undefined EXCEPT !.c = Truth(~ Fits(w, n)), !.o = Truth(~ Fits(w, n))])
       [] q.i = "imul3" -> LET n == Sig(w, y) * q.n
                           IN Result(m, q, n, [Undefined EXCEPT !.c = Truth(~ Fits(w, n)), !.o = Truth(~ Fits(w, n))])

(* A shift by zero changes no flag. *)
Shift(m, q) ==
  LET w == W(q.sz)
      x == Get(m, q.sz, q.d)
      k == Get(m, 1, q.s)
      n == CASE q.i = "shl" -> x * 2^k
             [] q.i = "shr" -> x \div 2^k
             [] q.i = "sar" -> Sig(w, x) \div 2^k
             [] q.i = "rol" -> x * 2^(k % w) + x \div 2^(w - (k % w))
             [] q.i = "ror" -> x \div 2^(k % w) + x * 2^(w - (k % w))
  IN IF k = 0 THEN m ELSE Result(m, q, n, [FlagsOf(w, n, 2, 2) EXCEPT !.z = IF q.i \in {"rol", "ror"} THEN m.f.z ELSE @,
                                                                      !.s = IF q.i \in {"rol", "ror"} THEN m.f.s ELSE @])

(* The one-operand multiplication and the divisions: RDX:RAX, or AX for a  *)
(* byte.  A quotient that does not fit faults.                             *)
HighLow(m, sz) == IF sz = 1 THEN m.r[RAX] % 2^(2 * Bits8)
                  ELSE Get(m, sz, R(RDX)) * 2^W(sz) + Get(m, sz, R(RAX))

PutHighLow(m, sz, high, low) ==
  IF sz = 1 THEN [m EXCEPT !.r[RAX] = Patch(2 * Bits8, @, (high % 2^Bits8) * 2^Bits8 + (low % 2^Bits8))]
  ELSE Put(Put(m, sz, R(RAX), low), sz, R(RDX), high)

Wide(m, q) ==
  LET w == W(q.sz)
      y == Get(m, q.sz, q.s)
      u == HighLow(m, q.sz)
      x == Get(m, q.sz, R(RAX))
  IN CASE q.i = "mul"  -> [PutHighLow(m, q.sz, (x * y) \div 2^w, x * y) EXCEPT
                             !.f = [Undefined EXCEPT !.c = Truth(x * y >= 2^w), !.o = Truth(x * y >= 2^w)]]
       [] q.i = "imul1" -> LET n == Sig(w, x) * Sig(w, y)
                           IN [PutHighLow(m, q.sz, n \div 2^w, n) EXCEPT
                                 !.f = [Undefined EXCEPT !.c = Truth(~ Fits(w, n)), !.o = Truth(~ Fits(w, n))]]
       [] q.i = "div"  -> IF y = 0 \/ u \div y >= 2^w THEN [m EXCEPT !.ok = FALSE]
                          ELSE [PutHighLow(m, q.sz, u % y, u \div y) EXCEPT !.f = Undefined]
       [] q.i = "idiv" -> LET s == Sig(2 * w, u)
                              d == Sig(w, y)
                          IN IF d = 0 \/ ~ Fits(w, Quot(s, d)) THEN [m EXCEPT !.ok = FALSE]
                             ELSE [PutHighLow(m, q.sz, Rem(s, d), Quot(s, d)) EXCEPT !.f = Undefined]
       [] q.i = "movzxax" -> PutHighLow(m, 1, 0, x)
       [] q.i = "cwd"  -> PutHighLow(m, q.sz, IF Sig(w, x) < 0 THEN -1 ELSE 0, x)   \* cbw, cdq, cqo

(* the number of leading and trailing zeroes and of ones in w bits *)
Clz(w, v) == w - Max({0} \cup {k + 1 : k \in {j \in 0 .. w - 1 : (v \div 2^j) % 2 = 1}})
Ctz(w, v) == Min({w} \cup {j \in 0 .. w - 1 : (v \div 2^j) % 2 = 1})
Pop(w, v) == Cardinality({j \in 0 .. w - 1 : (v \div 2^j) % 2 = 1})

BitOf(m, q) == (Get(m, q.sz, q.d) \div 2^Get(m, 1, q.s)) % 2

Move(m, q) ==
  CASE q.i = "mov"   -> Put(m, q.sz, q.d, Get(m, q.sz, q.s))
    [] q.i = "movsx" -> Put(m, q.sz, q.d, Sig(W(q.n), Get(m, q.n, q.s)))
    [] q.i = "movzx" -> Put(m, q.sz, q.d, Get(m, q.n, q.s))
    [] q.i = "movah" -> Put(m, 1, q.d, m.r[RAX] \div 2^Bits8)
    [] q.i = "lea"   -> Put(m, q.sz, q.d, Address(m, q.s))
    [] q.i = "set"   -> Put(Known(m, q.cc), 1, q.d, Truth(Holds(m.f, q.cc)))
    [] q.i = "cmov"  -> Put(Known(m, q.cc), q.sz, q.d, Get(m, q.sz, IF Holds(m.f, q.cc) THEN q.s ELSE q.d))
    [] q.i = "bt"    -> [m EXCEPT !.f = [z |-> m.f.z, s |-> 2, c |-> BitOf(m, q), o |-> 2]]
    [] q.i = "bts"   -> Result(m, q, Get(m, q.sz, q.d) + (1 - BitOf(m, q)) * 2^Get(m, 1, q.s),
                               [z |-> m.f.z, s |-> 2, c |-> BitOf(m, q), o |-> 2])
    [] q.i = "btr"   -> Result(m, q, Get(m, q.sz, q.d) - BitOf(m, q) * 2^Get(m, 1, q.s),
                               [z |-> m.f.z, s |-> 2, c |-> BitOf(m, q), o |-> 2])
    [] q.i = "lzcnt" -> Result(m, q, Clz(W(q.sz), Get(m, q.sz, q.s)), Undefined)
    [] q.i = "tzcnt" -> Result(m, q, Ctz(W(q.sz), Get(m, q.sz, q.s)), Undefined)
    [] q.i = "popcnt" -> Result(m, q, Pop(W(q.sz), Get(m, q.sz, q.s)), Undefined)

Step(m, q) ==
  CASE m.to # 0 -> m
    [] m.to = 0 /\ q.i \in {"add", "sub", "cmp", "and", "or", "xor", "test", "inc", "dec", "neg", "not",
                            "imul", "imul3"} -> Arith(m, q)
    [] m.to = 0 /\ q.i \in {"shl", "shr", "sar", "rol", "ror"} -> Shift(m, q)
    [] m.to = 0 /\ q.i \in {"mul", "imul1", "div", "idiv", "cwd", "movzxax"} -> Wide(m, q)
    [] m.to = 0 /\ q.i = "jcc"  -> [Known(m, q.cc) EXCEPT !.to = IF Holds(m.f, q.cc) THEN q.n ELSE 0]
    [] m.to = 0 /\ q.i = "jmp"  -> [m EXCEPT !.to = q.n]
    [] m.to = 0 /\ q.i = "fail" -> [m EXCEPT !.ok = FALSE]
    [] OTHER -> Move(m, q)

Execute(m, code) == Through(Step, m, code)

=============================================================================
