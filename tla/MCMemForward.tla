---------------------------- MODULE MCMemForward ----------------------------
(* Addresses for MemForward: the variable, a global, a parameter with no,  *)
(* one and two indices and constants added, and a loaded pointer.          *)
EXTENDS MemForward

Plus(e, i, c) == [e EXCEPT !.terms = Append(@, [i |-> i, c |-> c])]
Plain(r) == [root |-> r, terms |-> <<>>]
MCExpr ==
    LET p == Plain("p")
        pi == Plus(p, "i", 0)
    IN  [px |-> Plain("x"), g0 |-> Plain("g"), q0 |-> Plain("q"),
         p0 |-> p, p1 |-> Plus(p, "none", 1), p2 |-> Plus(p, "none", 2),
         pi |-> pi,
         pi1 |-> Plus(p, "i", 1),                \* p + (i + 1)
         p1i |-> Plus(Plus(p, "none", 1), "i", 0),  \* (p + 1) + i
         pij |-> Plus(pi, "j", 0)]

(* What may happen between two addresses *)
MCAddrSets == {{"px", "q0"}, {"px", "p0"}, {"g0", "p0"}, {"g0", "q0"},
               {"p0", "p1"}, {"p0", "p2"}, {"p0", "pi"}, {"pi", "pi1"},
               {"pi1", "p1i"}, {"pi", "pij"}}

(* Two different values of one type, one of each of the others *)
MCConsts == {Const(-1, t) : t \in Type} \cup {Const(-2, "I2")}
=============================================================================
