-------------------------------- MODULE Fold --------------------------------
(***************************************************************************)
(* ir_folding: the search for a rule, and what its callers do with what    *)
(* the rule answers.                                                       *)
(*                                                                         *)
(* A behaviour folds one instruction.  The three callers are ir_fold,      *)
(* which emits instructions while the graph is built ("build"),            *)
(* ir_iter_fold, which rewrites one in place ("iter"), and ir_sccp_fold,   *)
(* which only asks what a value is ("sccp").  A call is its mode, the       *)
(* instruction, and what the use lists say of its operands.                *)
(***************************************************************************)
EXTENDS FoldRules, TLC

VARIABLES
    call,   \* the call that is made
    insn,   \* opt, op1, op2 and op3 after the last restart
    out     \* what the caller gets, once it does

vars == <<call, insn, out>>

NoResult == [k |-> "NONE"]

---------------------------------------------------------------------------
(* The rules, by the mask under which their key is looked up.  A unary     *)
(* operation has no second operand, so FullKey and OpKey have its rules.    *)

FullKey(i, a, b, uses) ==
    LET o == i.op
        same(T) == BothConst(a, b, T)
        ptrs == /\ IsConst(a) /\ IsConst(b) /\ a.type # b.type
                /\ {a.type, b.type} \subseteq C_Ptr /\ "ADDR" \in {a.type, b.type}
        exts == {"ZEXT", "SEXT"}
        cast == exts \cup {"TRUNC", "BITCAST"}
    IN CASE o \in {"EQ", "NE"} /\ same(Types) -> ConstEqual(i, a, b)
         [] o \in SignedCompare /\ same(Types) -> ConstOrdered(i, a, b)
         [] o \in UnsignedCompare /\ same(Types) -> ConstUnsigned(i, a, b)
         [] o \in {"ADD", "SUB"} /\ (same(Ints) \/ ptrs) -> ConstSum(i, a, b)
         [] o = "MUL" /\ (same(Ints) \/ ptrs) -> ConstProduct(i, a, b)
         [] o \in {"DIV", "MOD"} /\ same(Ints) -> ConstDivMod(i, a, b)
         [] o \in {"NEG", "ABS"} /\ ConstIn(a, C_I) -> ConstNegAbs(i, a)
         [] o \in {"ADD_OV", "SUB_OV", "MUL_OV"} /\ same(C_UI) -> ConstOverflow(i, a, b)
         [] o = "NOT" /\ ConstIn(a, C_UI \cup {"BOOL"}) -> ConstNot(i, a)
         [] o \in {"AND", "OR", "XOR"} /\ same(C_UI \cup {"BOOL"}) -> ConstBits(i, a, b)
         [] o \in {"SHL", "SHR", "SAR"} /\ same(C_UI) -> ConstShift(i, a, b)
         [] o \in {"ROL", "ROR"} /\ same(C_UI) -> ConstRotate(i, a, b)
         [] o \in {"MIN", "MAX"} /\ MinMaxPair(a, b) -> ConstMinMax(i, a, b)
         [] o \in exts /\ IsConst(a) /\ Size[a.type] < 8 -> ConstConvert(i, a)
         [] o = "TRUNC" /\ ConstIn(a, C_UI) /\ Size[a.type] > 1 -> ConstConvert(i, a)
         [] o = "BITCAST" /\ IsConst(a) -> ConstConvert(i, a)
         [] <<o, a.op>> \in {<<"ABS", "ABS">>, <<"ABS", "NEG">>, <<"NEG", "NEG">>,
                             <<"NOT", "NOT">>} -> UnaryChain(i, a)
         [] o = "NOT" /\ a.op \in Comparisons -> NotCompare(i, a)
         [] o \in {"EQ", "NE"} /\ a.op = "BITCAST" /\ ConstIn(b, Ints) -> CompareBitcast(i, a, b)
         [] /\ <<o, a.op>> \in {"EQ", "NE"} \X exts \cup UnsignedCompare \X {"ZEXT"}
                               \cup SignedCompare \X {"SEXT"}
            /\ ConstIn(b, C_Wide) -> CompareExt(i, a, b, uses)
         [] /\ <<o, a.op>> \in {"EQ", "NE"} \X exts \cup UnsignedCompare \X {"ZEXT"}
                               \cup SignedCompare \X exts
            /\ b.op = a.op -> CompareExtended(i, a, b, uses)
         [] o \in {"EQ", "NE"} /\ a.op = "SUB" /\ ConstIn(b, Ints) -> CompareSub(i, a, b, uses)
         [] o \in {"LT", "GE"} /\ a.op = "ABS" /\ ConstIn(b, C_I) -> CompareAbs(i, b)
         [] o = "SUB" /\ a.op = "ADD" /\ b.op = "ADD" -> CancelSums(i, a, b)
         [] o \in {"MUL", "DIV"} /\ a.op = "NEG" /\ ConstIn(b, C_I) -> MulDivNegConst(i, a, b)
         [] o \in {"MUL", "DIV"} /\ a.op = "NEG" /\ b.op = "NEG" -> MulDivNegNeg(i, a, b)
         [] o = "TRUNC" /\ a.op \in exts -> TruncExt(i, a)
         [] \/ o \in cast /\ a.op = "BITCAST"
            \/ o \in {"TRUNC", "ZEXT", "SEXT"} /\ a.op = o
            \/ o = "SEXT" /\ a.op = "ZEXT" -> ConvertChain(i, a)
         [] o = "SEXT" /\ a.op \in {"AND", "SHR"} -> SextPositive(i, a)
         [] o = "TRUNC" /\ a.op = "AND" -> TruncAnd(i, a)
         [] o = "AND" /\ a.op \in exts /\ ConstIn(b, C_Wide) -> AndExt(i, a, b)
         [] o = "AND" /\ a.op \in {"SHL", "SHR"} /\ ConstIn(b, C_UI) -> AndShift(i, a, b)
         [] o \in {"SHL", "SHR"} /\ a.op = "AND" /\ ConstIn(b, C_UI) -> ShiftAnd(i, a, b)
         [] o = "ADD" /\ a.op \in {"ADD", "SUB"} /\ ConstIn(b, Ints) -> ReassocAdd(i, a, b)
         [] o = "SUB" /\ a.op = "ADD" /\ ConstIn(b, Ints) -> SumMinus(i, a, b)
         [] o = "SUB" /\ a.op = "SUB" /\ ConstIn(b, Ints) -> DiffMinus(i, a, b)
         [] o = "SUB" /\ b.op = "ADD" /\ ConstIn(a, Ints) -> MinusSum(i, a, b)
         [] o = "SUB" /\ b.op = "SUB" /\ ConstIn(a, Ints) -> MinusDiff(i, a, b)
         [] o \in {"MUL", "AND", "OR", "XOR"} /\ a.op = o /\ ConstIn(b, Ints) ->
              ReassocSame(i, a, b)
         [] o \in {"OR", "ADD"} /\ {a.op, b.op} = {"SHL", "SHR"} -> Rotate(i, a, b)
         [] OTHER -> Next_

RightKey(i, a, b) ==
    LET o == i.op
    IN CASE o \in {"EQ", "NE"} /\ ConstIn(b, {"BOOL"}) -> CompareBool(i)
         [] o \in UnsignedCompare /\ ConstIn(b, Ints) -> CompareZero(i, b)
         [] o \in {"ADD", "SUB", "ADD_OV", "SUB_OV"} /\ ConstIn(b, Ints) -> AddZero(i, b)
         [] \/ o \in {"ADD", "SUB"} /\ b.op \in {"NEG", "SUB"}
            \/ o = "SUB" /\ b.op = "ADD" -> CancelRight(i, b)
         [] o = "MUL" /\ ConstIn(b, Ints) -> MulConst(i, b)
         [] o = "DIV" /\ ConstIn(b, C_UI) -> DivConst(i, a, b)
         [] o = "MOD" /\ ConstIn(b, C_UI) -> ModConst(i, a, b)
         [] o \in {"AND", "OR"} /\ ConstIn(b, C_UI \cup {"BOOL"}) -> AndOrConst(i, b)
         [] o = "XOR" /\ ConstIn(b, C_UI \cup {"BOOL"}) -> XorConst(i, b)
         [] o \in {"SHL", "SHR", "SAR", "ROL", "ROR"} /\ ConstIn(b, C_UI) -> ShiftByConst(i, b)
         [] OTHER -> Next_

LeftKey(i, a) ==
    LET o == i.op
    IN CASE o = "COND" /\ IsConst(a) -> FoldCondConst(i, a)
         [] o = "ADD" /\ ConstIn(a, Ints) -> ZeroAdd(i, a)
         [] o = "SUB" /\ ConstIn(a, C_I) -> ZeroSub(i, a)
         [] \/ o = "ADD" /\ a.op \in {"NEG", "SUB"}
            \/ o = "SUB" /\ a.op \in {"ADD", "SUB"} -> CancelLeft(i, a)
         [] o \in {"SHL", "SHR", "SAR", "ROL", "ROR"} /\ ConstIn(a, C_UI) -> ShiftOfConst(i, a)
         [] o \in {"AND", "OR", "MIN", "MAX"} /\ a.op = o -> Absorb(i, a)
         [] o = "XOR" /\ a.op = o -> XorTwice(i, a)
         [] OTHER -> Next_

OpKey(i, a) ==
    CASE i.op \in {"ADD", "MUL", "AND", "OR", "XOR", "MIN", "MAX", "EQ", "NE"} -> Commute(i)
      [] i.op \in SignedCompare \cup UnsignedCompare -> SwapCompare(i)
      [] i.op = "SUB" -> IF i.op1 = i.op2 THEN ConstU(0) ELSE Next_
      [] i.op \in {"ADD_OV", "SUB_OV", "MUL_OV"} -> CheckedAny(i)
      [] i.op = "BITCAST" -> IF i.type = a.type THEN Copy(i.op1) ELSE Next_
      [] i.op = "OVERFLOW" -> FoldOverflow(a)
      [] i.op = "COPY" -> FoldCopy(i)
      [] i.op = "PHI" -> FoldPhi(i)
      [] i.op = "COND" -> FoldCond(i, a)
      [] OTHER -> Next_

Otherwise(r, s) == IF r.k # "NEXT" THEN r ELSE s

\* the first rule that does not pass on, from the most to the least specific
ir_folding(i, uses) ==
    LET a == View(i.op1)
        b == View(i.op2)
    IN Otherwise(FullKey(i, a, b, uses),
         Otherwise(RightKey(i, a, b),
           Otherwise(LeftKey(i, a), OpKey(i, a))))

---------------------------------------------------------------------------
(* The caller's loop: one action per label ir_folding may end at.          *)

\* what the rule that is due ends with, where it ends in one of the labels K
Pending(K) == {r \in {ir_folding(insn, call.uses)} : out = NoResult /\ r.k \in K}

Init(c) == /\ call = c
           /\ insn = c.insn
           /\ out = NoResult

\* ir_fold_restart
Restart == \E r \in Pending({"RESTART"}) :
             /\ insn' = r.insn
             /\ UNCHANGED <<call, out>>

\* ir_fold_copy
DoCopy == \E r \in Pending({"COPY"}) :
            /\ out' = [k |-> "VALUE", to |-> r.to]
            /\ UNCHANGED <<call, insn>>

\* ir_fold_const
DoConst == \E r \in Pending({"CONST"}) :
             /\ out' = [k |-> "VALUE", to |-> Const(insn.type, r.val)]
             /\ UNCHANGED <<call, insn>>

\* ir_fold_emit, and ir_fold_cse when no equal instruction is found; one
\* that is found is the same operation on the same operands.  SCCP makes
\* the value BOTTOM and forgets the instruction.  A failed IR_ASSERT ends
\* here too.
DoEmit == \E r \in Pending({"EMIT", "NEXT", "ASSERT"}) :
            /\ out' = [k |-> IF r.k = "ASSERT" THEN "FAILED"
                             ELSE IF call.mode = "sccp" THEN "BOTTOM" ELSE "INSN"]
            /\ UNCHANGED <<call, insn>>

Next == Restart \/ DoCopy \/ DoConst \/ DoEmit

---------------------------------------------------------------------------
(* What an instruction computes.                                           *)

Checked == {"ADD_OV", "SUB_OV", "MUL_OV"}

\* the values that a source depends on: variables, and the edge by which
\* control reaches the block of a PHI
RECURSIVE Unknowns(_)
Unknowns(t) ==
    CASE t.op \in {"VAR", "MERGE"} -> {t}
      [] t.op \in {"C", "NOP", "START", "GUARD"} -> {}
      [] OTHER -> Unknowns(t.op1) \cup Unknowns(t.op2) \cup Unknowns(t.op3)

\* every narrow value, and the wide ones next to a limit of some width
Inputs(t) ==
    IF t.op = "MERGE" THEN {0, 1}
    ELSE IF t.known >= 0 THEN {t.known}
    ELSE IF t.type = "BOOL" \/ Size[t.type] < 8 THEN Values(t.type)
    ELSE {Ext(t.type, n) : n \in {0, 1, 2} \cup
             UNION {{2^k - 1, 2^k, -2^k} : k \in {Bits8, Bits32 - 1, Bits32, Bits64 - 1}}}

RECURSIVE Envs(_)
Envs(V) ==
    IF V = {} THEN {<<>>}
    ELSE LET v == CHOOSE x \in V : TRUE
         IN {(v.ref :> n) @@ e : n \in Inputs(v), e \in Envs(V \ {v})}

\* constants are read at the width of their type
RECURSIVE Eval(_, _)
Eval(t, env) ==
    CASE t.op = "C" -> Ext(t.type, t.val)
      [] t.op \in {"VAR", "MERGE"} -> env[t.ref]
      [] t.op \in {"NOP", "START", "GUARD"} -> 0
      [] t.op = "OVERFLOW" ->
           Truth(/\ t.op1.op \in Checked
                 /\ Overflows(t.op1.op, t.op1.type,
                              Eval(t.op1.op1, env), Eval(t.op1.op2, env)))
      [] OTHER -> Apply(t.op, t.type, t.op1.type,
                        Eval(t.op1, env), Eval(t.op2, env), Eval(t.op3, env))

\* what OVERFLOW answers about t
Overflowed(t, env) == Eval([op |-> "OVERFLOW", type |-> "BOOL", op1 |-> t], env)

\* t, or something it is computed from, has no defined result
RECURSIVE Undefined(_, _)
Undefined(t, env) ==
    /\ t.op \notin {"C", "VAR", "MERGE", "NOP", "START", "GUARD"}
    /\ \/ Traps(t.op, t.type, Eval(t.op1, env), Eval(t.op2, env))
       \/ Undefined(t.op1, env) \/ Undefined(t.op2, env) \/ Undefined(t.op3, env)

\* what the instruction has become; SCCP keeps the old one when it finds none
Result == CASE out.k = "VALUE" -> out.to
            [] out.k = "BOTTOM" -> call.insn
            [] OTHER -> insn

---------------------------------------------------------------------------
(* Properties.                                                             *)

Fits(t, s) == t = s \/ ({t, s} \subseteq C_Ptr /\ "ADDR" \in {t, s})

\* Each rewrite of ir_folding yields an instruction that ir_check accepts:
\* operands agree with the type of the result, or differ as far as pointers,
\* shift counts and conversions may.  No assertion of a rule fails, and the
\* value a fold returns has the type of the instruction it replaces.
WellTyped ==
    LET t == insn.type
        x == insn.op1.type
        y == insn.op2.type
        o == insn.op
    IN /\ out.k # "FAILED"
       /\ out.k = "VALUE" => Fits(call.insn.type, out.to.type)
       /\ CASE o \in Comparisons -> t = "BOOL" /\ Size[x] = Size[y]
            [] o \in {"SHL", "SHR", "SAR", "ROL", "ROR"} ->
                 Fits(t, x) /\ (Fits(t, y) \/ Size[y] < Size[t])
            [] o \in {"NEG", "ABS", "NOT", "COPY"} -> Fits(t, x)
            [] o \in {"SEXT", "ZEXT"} -> Size[t] > Size[x]
            [] o = "TRUNC" -> Size[t] < Size[x]
            [] o = "BITCAST" -> Size[t] = Size[x]
            [] o \in {"COND", "PHI"} -> Fits(t, y) /\ Fits(t, insn.op3.type)
            [] o = "OVERFLOW" -> t = "BOOL"
            [] OTHER -> Fits(t, x) /\ Fits(t, y)

\* Folding keeps the meaning of an instruction: for all values of its
\* operands for which it is defined, each rewritten form, and the value or
\* instruction ir_folding ends with, computes the same result, and OVERFLOW
\* answers the same about it.
ValuePreserved ==
    LET t == call.insn.type
    IN \/ Result = call.insn
       \/ \A env \in Envs(Unknowns(call.insn)) :
            ~Undefined(call.insn, env) =>
               /\ Low(t, Eval(Result, env)) = Low(t, Eval(call.insn, env))
               /\ call.insn.op \in Checked =>
                     Overflowed(Result, env) = Overflowed(call.insn, env)

\* The rules do not rewrite an instruction back and forth: ir_folding, with
\* the restarts of its caller, comes to an end.
Terminates == <>(out # NoResult)

=============================================================================
