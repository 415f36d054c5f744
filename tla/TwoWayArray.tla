---------------------------- MODULE TwoWayArray ---------------------------
(***************************************************************************)
(* What the code expects of ctx->ir_base: two lists, the constants under   *)
(* negative and the instructions under positive references.  A reference,  *)
(* once handed out, denotes the same entry until the entry is written.     *)
(***************************************************************************)
EXTENDS Naturals, Sequences

CONSTANT Insn      \* what an entry can hold

VARIABLES consts, insns      \* Seq(Insn)

Init == consts \in Seq(Insn) /\ insns = << >>

NewConst(x) == consts' = Append(consts, x) /\ UNCHANGED insns

NewInsns(n, x) ==
  /\ insns' = insns \o [i \in 1 .. n |-> x]
  /\ UNCHANGED consts

Set(i, x) ==
  /\ insns' = [insns EXCEPT ![i] = x]
  /\ UNCHANGED consts

Next ==
  \E x \in Insn :
    \/ NewConst(x)
    \/ \E n \in 1 .. Len(insns') : NewInsns(n, x)
    \/ \E i \in 1 .. Len(insns) : Set(i, x)

Spec == Init /\ [][Next]_<<consts, insns>>
===========================================================================
