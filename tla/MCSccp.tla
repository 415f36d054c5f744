------------------------------- MODULE MCSccp -----------------------------
(***************************************************************************)
(* Programs for SCCP, the iterative optimisations and the CFG: a few       *)
(* control shapes with every choice of operands.                           *)
(***************************************************************************)
EXTENDS BuildCfg

C0 == Const(0)
C1 == Const(1)

(* A value computed from the parameter 2 that may turn out constant. *)
Defs == {<<"ADD", <<2, C1>>>>, <<"EQ", <<2, C0>>>>, <<"COPY", <<2>>>>, <<"COPY", <<C0>>>>, <<"COPY", <<C1>>>>}

Moving == {d \in Defs : 2 \in ToSet(d[2])}

(* if (cond) ... else ...; a PHI, and an operation on it *)
Diamonds ==
  {Graph(<< <<"START", << >>>>, <<"PARAM", <<1>>>>,
            d,                                       \* 3
            <<"IF", <<1, c>>>>, <<"IF_TRUE", <<4>>>>, <<"END", <<5>>>>,
            <<"IF_FALSE", <<4>>>>, <<"END", <<7>>>>, <<"MERGE", <<6, 8>>>>,
            <<"PHI", <<9, x, y>>>>,                  \* 10
            <<p, <<10, z>>>>,                        \* 11
            <<"RETURN", <<9, 11>>>> >>) :
     d \in Defs, c \in {2, 3}, x \in {2, 3, C1},
     y \in {2, 3, C0, C1}, p \in {"ADD", "SUB", "EQ"}, z \in {2, 3, C0}}

(* a loop with two PHIs *)
LoopPrograms ==
  {Graph(<< <<"START", << >>>>, <<"PARAM", <<1>>>>, <<"END", <<1>>>>,
            <<"LOOP_BEGIN", <<3, 11>>>>,
            <<"PHI", <<4, x, y>>>>, <<"PHI", <<4, z, w>>>>,   \* 5 6
            <<o, <<5, a>>>>, <<"SUB", <<7, b>>>>,             \* 7 8
            <<"IF", <<4, c>>>>, <<"IF_TRUE", <<9>>>>, <<"LOOP_END", <<10>>>>,
            <<"IF_FALSE", <<9>>>>, <<"RETURN", <<12, r>>>> >>) :
     x \in {2, C0}, y \in {6, 7, 8}, z \in {2, C1}, w \in {5, 8, C1},
     o \in {"ADD", "EQ"}, a \in {6, C0, C1}, b \in {6, 2}, c \in {7, 8}, r \in {6, 8}}

(* switch with three cases, a load in the first, and a PHI of three        *)
(* operands; 3 is the address of a symbol, which no rule folds             *)
Switches(D, Third) ==
  {Graph(<< <<"START", << >>>>, <<"PARAM", <<1>>>>, <<"ADDR", <<C1>>>>,
            d,                                       \* 4
            <<"SWITCH", <<1, s>>>>,                  \* 5
            <<"CASE_VAL", <<5, C0>>>>, <<"LOAD", <<6, 2>>>>, <<"END", <<7>>>>,
            <<"CASE_VAL", <<5, C1>>>>, <<"END", <<9>>>>,
            <<"CASE_DEFAULT", <<5>>>>, <<"END", <<11>>>>,
            <<"MERGE", <<8, 10, 12>>>>,              \* 13
            <<"PHI", <<13, x, y, z>>>>,
            <<"ADD", <<14, 3>>>>,
            <<"RETURN", <<13, r>>>> >>) :
     d \in D, s \in {2, 4, Const(2)}, x \in {2, 3, 7, C1}, y \in {2, 3, C0, C1},
     z \in Third, r \in {14, 15}}

(* two returns, a plain block, and copies *)
Returns ==
  {Graph(<< <<"START", << >>>>, <<"PARAM", <<1>>>>, d,
            <<"IF", <<1, 3>>>>, <<"IF_TRUE", <<4>>>>, <<"LOAD", <<5, 3>>>>, <<"RETURN", <<6, x>>>>,
            <<"IF_FALSE", <<4>>>>, <<"END", <<8>>>>, <<"BEGIN", <<9>>>>,
            <<"COPY", <<y>>>>, <<"ADD", <<11, z>>>>, <<"RETURN", <<10, 12>>>> >>) :
     d \in Defs, x \in {2, 3, 6, C1}, y \in {2, 3, C1}, z \in {2, 3, 11, C0, C1}}

(* a loop whose PHIs are copies of each other for a while *)
CopyLoops ==
  {Graph(<< <<"START", << >>>>, <<"PARAM", <<1>>>>, <<"END", <<1>>>>,
            <<"LOOP_BEGIN", <<3, 13>>>>,
            <<"PHI", <<4, 2, x>>>>, <<"COPY", <<5>>>>,
            <<"PHI", <<4, y, z>>>>, <<"COPY", <<7>>>>,
            <<"EQ", <<8, w>>>>, <<"ADD", <<8, a>>>>,
            <<"IF", <<4, c>>>>, <<"IF_TRUE", <<11>>>>, <<"LOOP_END", <<12>>>>,
            <<"IF_FALSE", <<11>>>>, <<"RETURN", <<14, r>>>> >>) :
     x \in {2, 6, 7, 8, 10}, y \in {2, C0}, z \in {5, 6, 8, 10}, w \in {2, 6},
     a \in {9, C0, C1}, c \in {9, 10}, r \in {8, 9}}

(* nested branches that meet in one merge *)
Nests(D, Third) ==
  {Graph(<< <<"START", << >>>>, <<"PARAM", <<1>>>>, d,
            <<"IF", <<1, 2>>>>, <<"IF_TRUE", <<4>>>>, <<"END", <<5>>>>,
            <<"IF_FALSE", <<4>>>>, <<"IF", <<7, 3>>>>, <<"IF_TRUE", <<8>>>>, <<"END", <<9>>>>,
            <<"IF_FALSE", <<8>>>>, <<"END", <<11>>>>, <<"MERGE", <<6, 10, 12>>>>,
            <<"PHI", <<13, x, y, z>>>>, <<"SUB", <<14, 2>>>>, <<"RETURN", <<13, r>>>> >>) :
     d \in D, x \in {2, 3, C1}, y \in {2, C0}, z \in Third, r \in {14, 15}}

C2 == Const(WIDTH - 1)   \* -1

(* The two ways to list the blocks of a branch *)
Orders == {<<"IF_TRUE", "IF_FALSE">>, <<"IF_FALSE", "IF_TRUE">>}

(* The constant next to the limit that ir_fix_min_max_const computes wraps *)
(* around, or the comparison it changes has another user.                  *)
Wraps(c, b, k) == (c = "LE" /\ b = C1 /\ k = C2) \/ (c = "GE" /\ b = C2 /\ k = C1)

(* a choice between x and y: MIN, MAX, ABS, COND *)
Selections ==
  {Graph(<< <<"START", << >>>>, <<"PARAM", <<1>>>>, <<"PARAM", <<1>>>>, <<"NEG", <<2>>>>,
            <<c, <<2, b>>>>,                                          \* 5
            <<"IF", <<1, 5>>>>, <<o[1], <<6>>>>, <<"END", <<7>>>>,
            <<o[2], <<6>>>>, <<"VAR", <<9>>>>, <<"END", <<9>>>>, <<"MERGE", <<8, 11>>>>,
            <<"PHI", <<12, x, y>>>>,                                  \* 13
            <<"ADD", <<13, r>>>>, <<"RETURN", <<12, 14>>>> >>) :
     <<c, b, o, x, y, r>> \in
       {q \in (Cmp \ {"NE"}) \X {3, C0, C1, C2} \X Orders \X {2, 3, 4, C0, C1, C2} \X {2, 3, 4, C0, C1, C2} \X {3, 5} :
          /\ 2 \in {q[4], q[5]} /\ q[4] # q[5]
          /\ \A k \in {q[4], q[5]} :
               k < 0 /\ q[2] < 0 /\ FixesConst(q[1], q[2], k) => q[6] = 3 /\ ~Wraps(q[1], q[2], k)}}

(* a branch on a PHI of a constant and something else, or on a comparison  *)
(* of that PHI                                                             *)
Splits ==
  {Graph(<< <<"START", << >>>>, <<"PARAM", <<1>>>>, <<"PARAM", <<1>>>>,
            <<"IF", <<1, 2>>>>, <<o[1], <<4>>>>, <<"END", <<5>>>>,
            <<o[2], <<4>>>>, <<"LOAD", <<7, 3>>>>, <<"END", <<8>>>>, <<"MERGE", <<6, 9>>>>,
            <<"PHI", <<10, x, y>>>>, <<c[1], <<11, c[2]>>>>,          \* 11 12
            <<"IF", <<10, d>>>>, <<p[1], <<13>>>>, <<"END", <<14>>>>,
            <<p[2], <<13>>>>, <<"END", <<16>>>>, <<"MERGE", <<15, 17>>>>,
            <<"PHI", <<18, u[1], u[2]>>>>, <<"RETURN", <<18, 19>>>> >>) :
     o \in Orders, p \in Orders, x \in {3, C0, C1, C2}, y \in {8, C0, C1},
     c \in {<<"EQ", C1>>, <<"LT", C1>>, <<"NE", C0>>}, d \in {11, 12}, u \in {<<2, 3>>, <<C0, C1>>}}

(* a branch that repeats a condition, or tests the opposite *)
Repeats ==
  {Graph(<< <<"START", << >>>>, <<"PARAM", <<1>>>>, <<"PARAM", <<1>>>>,
            <<"LT", <<2, 3>>>>, d,                                   \* 4 5
            <<"IF", <<1, a>>>>, <<o[1], <<6>>>>,
            <<"IF", <<7, b>>>>, <<p[1], <<8>>>>, <<"LOAD", <<9, 2>>>>, <<"END", <<10>>>>,
            <<p[2], <<8>>>>, <<"END", <<12>>>>, <<"MERGE", <<11, 13>>>>,
            <<"PHI", <<14, x, 3>>>>, <<"END", <<14>>>>,
            <<o[2], <<6>>>>, <<"END", <<17>>>>, <<"MERGE", <<16, 18>>>>,
            <<"PHI", <<19, 15, y>>>>, <<"RETURN", <<19, 20>>>> >>) :
     d \in {<<"NOT", <<4>>>>, <<"EQ", <<4, C0>>>>, <<"NE", <<4, C0>>>>, <<"EQ", <<4, C1>>>>,
            <<"GT", <<3, 2>>>>, <<"LT", <<2, 3>>>>},
     o \in Orders, p \in Orders, a \in {4, 5}, b \in {2, 4, 5}, x \in {10, C1}, y \in {5, C0}}

(* guards with snapshots, on conditions that turn out to be equal *)
Guards ==
  {Graph(<< <<"START", << >>>>, <<"PARAM", <<1>>>>, <<"PARAM", <<1>>>>,
            <<"LT", <<2, 3>>>>, <<"NOT", <<4>>>>, <<"COPY", <<e>>>>,
            <<"SNAPSHOT", <<1, 2>>>>, <<k, <<7, a, C1>>>>,
            <<"LOAD", <<8, 2>>>>,
            <<l, <<9, b, C2>>>>,
            <<"SNAPSHOT", <<10, 9>>>>, <<m, <<11, c, C0>>>>,
            <<"RETURN", <<12, 9>>>> >>) :
     k \in Guard, l \in Guard, m \in Guard, e \in {4, 5, C0, C1}, a \in {4, 6}, b \in {4, 5, 6},
     c \in {5, 6}}

(* an empty switch, and equal instructions *)
EmptySwitches ==
  {Graph(<< <<"START", << >>>>, <<"PARAM", <<1>>>>, <<"PARAM", <<1>>>>,
            <<"ADD", <<2, a>>>>, <<"ADD", <<2, b>>>>, <<c, <<4, 5>>>>,     \* 4 5 6
            <<"SWITCH", <<1, 4>>>>,
            <<"CASE_VAL", <<7, C0>>>>, <<"END", <<8>>>>,
            <<"CASE_VAL", <<7, C1>>>>, <<"END", <<10>>>>,
            <<"CASE_DEFAULT", <<7>>>>, <<"END", <<12>>>>,
            <<"MERGE", <<9, 11, 13>>>>,
            <<"END", <<14>>>>, <<"BEGIN", <<15>>>>,
            <<d, <<r, t>>>>, <<"RETURN", <<16, 17>>>> >>) :
     a \in {3, C1}, b \in {3, C1}, c \in {"SUB", "LT"},
     d \in {"ADD", "SUB", "MIN"}, r \in {2, 4, 6, C0}, t \in {5, 6}}

(* Code no optimisation has seen: a block without predecessor that enters  *)
(* a merge, before a return or an endless loop                             *)
Joined(m, tail) ==
  Graph(<< <<"START", << >>>>, <<"PARAM", <<1>>>>,
           <<"IF", <<1, 2>>>>, <<"IF_TRUE", <<3>>>>, <<"END", <<4>>>>,
           <<"IF_FALSE", <<3>>>>, IF Len(m) = 3 THEN <<"END", <<6>>>> ELSE <<"RETURN", <<6, 2>>>>,
           <<"BEGIN", <<0>>>>, <<"END", <<8>>>>,
           <<"MERGE", m>>, <<"PHI", <<10, 2, C1>> \o (IF Len(m) = 3 THEN <<C0>> ELSE << >>)>>,
           <<"END", <<10>>>> >> \o tail)

Tails ==
  {<< <<"BEGIN", <<12>>>>, <<"RETURN", <<13, 11>>>> >>,
   << <<"LOOP_BEGIN", <<12, 15>>>>, <<"LOAD", <<13, 11>>>>, <<"LOOP_END", <<14>>>> >>,
   << <<"LOOP_BEGIN", <<12, 15>>>>, <<"LOAD", <<13, 11>>>>, <<"LOOP_END", <<14>>>>,
      <<"BEGIN", <<0>>>>, <<"RETURN", <<16, 2>>>> >>}

(* A loop with a branch out of it or without one, after which comes dead   *)
(* code that enters the loop, branches, or returns                         *)
Looped(exit, dead) ==
  Graph(<< <<"START", << >>>>, <<"PARAM", <<1>>>>, <<"END", <<1>>>>,
           <<"LOOP_BEGIN", IF Len(dead) = 2 THEN <<3, 11, 13>> ELSE <<3, 11>>>>,
           <<"PHI", IF Len(dead) = 2 THEN <<4, 2, 6, C1>> ELSE <<4, 2, 6>>>>,
           <<"ADD", <<5, C1>>>> >>
        \o exit \o dead)

MCUnoptimized ==
  {Joined(m, tail) : m \in {<<5, 7, 9>>, <<9, 7, 5>>, <<5, 9>>, <<9, 5>>}, tail \in Tails}
    \cup {Looped(exit, dead) :
            exit \in {<< <<"IF", <<4, 5>>>>, <<"IF_FALSE", <<7>>>>, <<"RETURN", <<8, 6>>>>,
                         <<"IF_TRUE", <<7>>>>, <<"LOOP_END", <<10>>>> >>,
                      << <<"LOAD", <<4, 2>>>>, <<"LOAD", <<7, 2>>>>, <<"LOAD", <<8, 2>>>>,
                         <<"LOAD", <<9, 6>>>>, <<"LOOP_END", <<10>>>> >>},
            dead \in {<< >>, << <<"BEGIN", <<0>>>>, <<"LOOP_END", <<12>>>> >>,
                      << <<"BEGIN", <<0>>>>, <<"IF", <<12, 2>>>>, <<"IF_TRUE", <<13>>>>, <<"RETURN", <<14, 2>>>>,
                         <<"IF_FALSE", <<13>>>>, <<"RETURN", <<16, C0>>>> >>}}

(* An operand of a PHI behind its second one is a constant or depends on    *)
(* the parameter.                                                          *)
SccpPrograms ==
  UNION {Diamonds, LoopPrograms, CopyLoops, Returns,
         Switches(Defs, {2, C0, C1}), Switches(Moving, {4}),
         Nests(Defs, {2, C1}), Nests(Moving, {3})}

IterPrograms == UNION {Selections, Splits, Repeats, Guards, EmptySwitches}

MCPrograms == (SccpPrograms \X BOOLEAN) \cup (IterPrograms \X {FALSE})

(* The last operand of the PHI is the address of a symbol. *)
MCLateOperand == Switches({<<"COPY", <<2>>>>}, {3}) \X {FALSE}
===========================================================================
