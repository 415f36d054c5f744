----------------------------- MODULE MCRegAlloc -----------------------------
(***************************************************************************)
(* Small programs for the register allocator, on a machine with the        *)
(* registers RAX, RCX, RDX and RBX and the calling convention of Win64:    *)
(* parameters in RCX and RDX, others on the stack, RBX is preserved.       *)
(***************************************************************************)
EXTENDS RegAlloc

CONSTANT Families      \* the programs that are looked at

I(op, ops) == [op |-> op, ops |-> ops, reg |-> NONE, size |-> 8]
Param(reg) == [I("PARAM", <<>>) EXCEPT !.reg = reg]
Phi(x, y)  == I("PHI", 2 :> x @@ 3 :> y)
Trunc(x, n) == [I("COPY", <<x>>) EXCEPT !.size = n]
Control(op) == I(op, <<>>)
If(x) == I("IF", 2 :> x)
Return(x) == I("RETURN", 2 :> x)
Add(x, y) == I("BINOP", <<x, y>>)

(* an instruction of any kind on x, or on x and y *)
Make(op, x, y) ==
  CASE op \in {"BINOP", "SHIFT", "DIV", "LEA"} -> I(op, <<x, y>>)
    [] op \in {"ABS", "CTPOP", "COPY"} -> I(op, <<x>>)
    [] op = "CALL" -> I(op, 3 :> x)
    [] op = "LOAD" -> I(op, 2 :> x)

Block(s, e, succ, pred, depth, header, idom) ==
  [start |-> s, end |-> e, succ |-> succ, pred |-> pred, depth |-> depth, header |-> header, idom |-> idom]

Head4 == <<Control("START"), Param(RCX), Param(RDX), Param(NONE)>>

---------------------------------------------------------------------------
(* One block in which up to seven values are alive *)
Line ==
  {[insn |-> Head4 \o <<Make(a, x, y), Make(b, 5, z), Make(c, 4, 5), Add(5, 6), Add(8, 7), Add(9, 2), Add(10, 3),
                        Return(11)>>,
    block |-> <<Block(1, 12, <<>>, <<>>, 0, 0, 0)>>] :
      a \in {"BINOP", "SHIFT", "DIV", "CALL", "ABS"}, b \in {"BINOP", "SHIFT", "DIV", "CALL", "CTPOP"},
      c \in {"SHIFT", "DIV", "CALL"}, x \in {2, 4}, y \in {3, 4}, z \in {2, 5}}

(* Two ways that meet at two PHIs *)
Diamond ==
  {[insn |-> Head4 \o <<Make(a, 3, 4), If(c), Control("BEGIN"), Make(b, 5, 4), Control("END"),
                        Control("BEGIN"), Make("CALL", y, 0), Control("END"),
                        Control("MERGE"), Phi(x, 11), Phi(8, y), Add(15, 2), Make(d, 16, 14), Return(17)>>,
    block |-> <<Block(1, 6, <<2, 3>>, <<>>, 0, 0, 0), Block(7, 9, <<4>>, <<1>>, 0, 0, 1),
                Block(10, 12, <<4>>, <<1>>, 0, 0, 1), Block(13, 18, <<>>, <<2, 3>>, 0, 0, 1)>>] :
      a \in {"BINOP", "DIV", "CALL"}, b \in {"SHIFT", "CALL", "CTPOP"}, d \in {"BINOP", "SHIFT"},
      c \in {3, 5}, x \in {0, 2, 5, 8}, y \in {3, 5}}

(* A loop with two PHIs: x and y are what they become in the next round *)
Loop ==
  {[insn |-> Head4 \o <<Control("END"), Control("LOOP_BEGIN"), Phi(2, x), Phi(z, y), Make(a, 7, 8), Make(b, 8, 4),
                        If(9), Control("BEGIN"), Control("LOOP_END"), Control("BEGIN"),
                        Add(7, 10), Add(15, 3), Return(16)>>,
    block |-> <<Block(1, 5, <<2>>, <<>>, 0, 0, 0), Block(6, 11, <<3, 4>>, <<1, 3>>, 1, 2, 1),
                Block(12, 13, <<2>>, <<2>>, 1, 2, 2), Block(14, 17, <<>>, <<2>>, 0, 0, 2)>>] :
      a \in {"BINOP", "SHIFT", "CALL", "COPY"}, b \in {"BINOP", "DIV", "CALL", "ABS"}, z \in {0, 3, 4},
      x \in {7, 8, 9}, y \in {7, 9, 10}}

(* A loop in a loop *)
Nested ==
  {[insn |-> Head4 \o <<Control("END"), Control("LOOP_BEGIN"), Phi(2, x), Make(a, 7, 4), Control("END"),
                        Control("LOOP_BEGIN"), Phi(z, y), Make(b, 11, 8), If(12), Control("BEGIN"), Control("LOOP_END"),
                        Control("BEGIN"), Make(c, 11, 3), If(17), Control("BEGIN"), Control("LOOP_END"),
                        Control("BEGIN"), Add(17, 8), Add(22, 3), Return(23)>>,
    block |-> <<Block(1, 5, <<2>>, <<>>, 0, 0, 0), Block(6, 9, <<3>>, <<1, 6>>, 1, 2, 1),
                Block(10, 13, <<4, 5>>, <<2, 4>>, 2, 3, 2), Block(14, 15, <<3>>, <<3>>, 2, 3, 3),
                Block(16, 18, <<6, 7>>, <<3>>, 1, 2, 3), Block(19, 20, <<2>>, <<5>>, 1, 2, 5),
                Block(21, 24, <<>>, <<5>>, 0, 0, 5)>>] :
      a \in {"BINOP", "CALL"}, b \in {"BINOP", "SHIFT", "CALL"}, c \in {"BINOP", "DIV", "CALL"},
      x \in {11, 12, 17}, y \in {8, 11, 12}, z \in {3, 7}}

(* Addresses that are computed, and values that are loaded, by the         *)
(* instruction that needs them                                             *)
Fused ==
  {[insn |-> Head4 \o <<Make(a, x, 4), I("FUSED_ADD", <<2, y>>), Make("LOAD", 6, 0), Make(b, 7, 3), I(c, 2 :> z),
                        Add(8, 9), Make("LEA", 10, y), Make("LOAD", 6, 0), Add(11, 12), Add(13, 5), Return(14)>>,
    block |-> <<Block(1, 15, <<>>, <<>>, 0, 0, 0)>>] :
      a \in {"BINOP", "CALL", "SHIFT"}, b \in {"BINOP", "DIV", "CALL"}, c \in {"LOAD", "FUSED_LOAD"},
      x \in {2, 3}, y \in {3, 4, 5}, z \in {3, 5, 6}}

(* ... which may be in another block *)
Spread ==
  {[insn |-> Head4 \o <<Make(a, 3, 4), I("FUSED_ADD", <<2, y>>), If(x), Control("BEGIN"), Make(b, 5, 3),
                        Make("LOAD", w, 0), Control("END"), Control("BEGIN"), Make(c, 4, 5), Make("LOAD", 6, 0),
                        Control("END"), Control("MERGE"), Phi(10, 14), Phi(9, 13), Add(17, 3), Add(18, 19), Return(20)>>,
    block |-> <<Block(1, 7, <<2, 3>>, <<>>, 0, 0, 0), Block(8, 11, <<4>>, <<1>>, 0, 0, 1),
                Block(12, 15, <<4>>, <<1>>, 0, 0, 1), Block(16, 21, <<>>, <<2, 3>>, 0, 0, 1)>>] :
      a \in {"BINOP", "CALL"}, b \in {"BINOP", "DIV", "CALL"}, c \in {"SHIFT", "CALL"},
      x \in {3, 4}, y \in {3, 4, 5}, w \in {4, 6}}

(* Values of several sizes that have to be kept while functions are called *)
Sizes ==
  {[insn |-> Head4 \o <<Trunc(2, i), Trunc(3, j), Trunc(4, k), Make("CALL", 2, 0), Make("CALL", x, 0), Trunc(8, l),
                        Make("CALL", 11 - x, 0), Make("CALL", 7, 0), Make("CALL", 10, 0), Add(9, 13), Add(14, 3), Return(15)>>,
    block |-> <<Block(1, 16, <<>>, <<>>, 0, 0, 0)>>] :
      i \in {1, 2, 4}, j \in {1, 2}, k \in {1, 4, 8}, l \in {1, 2, 4}, x \in {5, 6}}

(* Constants that need a register of their own *)
Consts ==
  {[insn |-> Head4 \o <<Make(a, x, 0), Make(b, 5, y), Make(c, 4, 0), Add(5, 6), Add(8, 7), Add(9, 2), Add(10, 3),
                        Return(11)>>,
    block |-> <<Block(1, 12, <<>>, <<>>, 0, 0, 0)>>] :
      a \in {"BINOP", "DIV", "CTPOP"}, b \in {"BINOP", "DIV"}, c \in {"BINOP", "DIV", "CTPOP"},
      x \in {2, 4}, y \in {0, 2, 4}}

Programs(f) == CASE f = "line" -> Line [] f = "diamond" -> Diamond [] f = "loop" -> Loop [] f = "nested" -> Nested
                 [] f = "fused" -> Fused [] f = "spread" -> Spread [] f = "sizes" -> Sizes
                 [] f = "consts" -> Consts

MCInit == \E f \in Families : \E p \in Programs(f) : Begin(p)

(* The allocator and the code go on until the code has returned. *)
Spec == MCInit /\ [][Next]_vars /\ ([]<><<TRUE>>_vars \/ <>[](phase = "run" /\ pc = 0))

=============================================================================
