-------------------------------- MODULE Sccp ------------------------------
(***************************************************************************)
(* Sparse conditional constant and copy propagation (ir_sccp.c): what the  *)
(* graphs of SccpAnalysis compute, and the transformation of the graph     *)
(* after the analysis, one action per instruction.                         *)
(***************************************************************************)
EXTENDS SccpAnalysis, SequencesExt

(* ir_build_def_use_lists: one use for every operand, by user *)
UseLists(in) ==
  LET edges == FlattenSeq([u \in DOMAIN in |-> [k \in DOMAIN in[u] |-> <<u, in[u][k]>>]])
  IN [n \in DOMAIN in |-> LET mine == SelectSeq(edges, LAMBDA e : e[2] = n)
                          IN [k \in DOMAIN mine |-> mine[k][1]]]

(* The graph of a program: a sequence of <<operation, operands>>. *)
Graph(p) ==
  LET in == [n \in DOMAIN p |-> p[n][2]]
  IN [op |-> [n \in DOMAIN p |-> p[n][1]],
      in |-> in,
      use |-> UseLists(in),
      terms |-> SelectSeq([n \in DOMAIN p |-> n], LAMBDA n : p[n][1] \in Terminator)]

---------------------------------------------------------------------------
(* What a graph computes.  env gives the values of parameters, loads and   *)
(* symbol addresses, and the current value of each PHI.  A removed         *)
(* instruction and a missing operand have the value -1.                    *)

ValueOf(h, env, r) ==
  LET val[x \in Refs(h)] ==
        LET Opnd(k) == IF h.in[x][k] <= 0 THEN ConstVal(h.in[x][k]) ELSE val[h.in[x][k]]
        IN CASE h.op[x] \in Binary -> Arith(h.op[x], Opnd(1), Opnd(2))
             [] h.op[x] \in Unary -> Arith1(h.op[x], Opnd(1))
             [] h.op[x] = "COND" -> IF Opnd(1) # 0 THEN Opnd(2) ELSE Opnd(3)
             [] h.op[x] = "COPY" -> Opnd(1)
             [] h.op[x] = "NOP" -> -1
             [] OTHER -> env[x]
  IN IF r <= 0 THEN ConstVal(r) ELSE val[r]

(* Where control goes from c: the users of its control output. *)
ControlUsers(h, c) ==
  {u \in Refs(h) : /\ h.op[u] \notin Data \cup {"NOP"}
                   /\ IF h.op[u] \in Merge THEN c \in ToSet(h.in[u])
                      ELSE h.in[u] # << >> /\ h.in[u][1] = c}

Target(h, c, env) ==
  LET out == ControlUsers(h, c)
      cond == ValueOf(h, env, h.in[c][2])
      case == {u \in out : h.op[u] = "CASE_VAL" /\ ConstVal(h.in[u][2]) = cond}
  IN CASE h.op[c] = "IF" -> {u \in out : h.op[u] = (IF cond # 0 THEN "IF_TRUE" ELSE "IF_FALSE")}
       [] h.op[c] = "SWITCH" -> IF case # {} THEN case
                                ELSE {u \in out : h.op[u] = "CASE_DEFAULT"}
       [] OTHER -> out

(* Entering a merge from its k-th input gives all its PHIs their new       *)
(* values at once.                                                         *)
Enter(h, m, c, env) ==
  IF h.op[m] \in Merge
    THEN LET k == CHOOSE k \in DOMAIN h.in[m] : h.in[m][k] = c
             phis == {x \in Refs(h) : h.op[x] = "PHI" /\ h.in[x][1] = m}
         IN FoldLeft(LAMBDA e, x : [e EXCEPT ![x] = ValueOf(h, env, h.in[x][k + 1])],
                     env, SetToSeq(phis))
    ELSE env

(* A guard that fails leaves the code for its exit address. *)
Guard == {"GUARD", "GUARD_NOT"}
Exits(h, c, env) ==
  h.op[c] \in Guard /\ (ValueOf(h, env, h.in[c][2]) # 0) # (h.op[c] = "GUARD")

(* The value returned, or the address of the exit and the values of the    *)
(* snapshot it belongs to, if the graph ends within "fuel" steps; at = 0   *)
(* when control has nowhere to go.                                         *)
Execute(h, env0, fuel) ==
  LET run[k \in 0 .. fuel] ==
        IF k = 0 THEN [at |-> 1, env |-> env0]
        ELSE LET s == run[k - 1]
             IN IF s.at = 0 \/ h.op[s.at] \in Terminator \/ Exits(h, s.at, s.env) THEN s
                ELSE LET to == Target(h, s.at, s.env)
                     IN IF Cardinality(to) # 1 THEN [s EXCEPT !.at = 0]
                        ELSE LET u == CHOOSE u \in to : TRUE
                             IN [at |-> u, env |-> Enter(h, u, s.at, s.env)]
      end == run[fuel]
      snap == h.in[end.at][1]
  IN IF end.at = 0 THEN "stuck"
     ELSE IF Exits(h, end.at, end.env)
       THEN <<"exit", ConstVal(h.in[end.at][3]),
              IF h.op[snap] = "SNAPSHOT"
                THEN [k \in 2 .. Len(h.in[snap]) |-> ValueOf(h, end.env, h.in[snap][k])]
                ELSE << >> >>
     ELSE IF h.op[end.at] \notin Terminator THEN "running"
     ELSE <<"returned", ValueOf(h, end.env, h.in[end.at][2])>>

---------------------------------------------------------------------------
(* Edits of the graph and the worklist t = [g |-> graph, w |-> worklist] *)

(* Instructions that the transformation does not replace or remove. *)
Stays(r) == values[r].op \in {"BOTTOM", "IF", "MERGE"}

Without(seq, x) == IF Contains(seq, x) THEN RemoveFirst(seq, x) ELSE seq

FirstAs(seq, x, y) == IF Contains(seq, x) THEN ReplaceFirstSubSeq(<<y>>, <<x>>, seq) ELSE seq

(* ir_is_dead *)
IsDead(h, r) ==
  IF h.use[r] = << >> THEN h.op[r] \in Foldable
  ELSE h.op[r] \in Load /\ Len(h.use[r]) = 1

Nop(h, r) ==
  [h EXCEPT !.op[r] = "NOP", !.in[r] = [k \in DOMAIN @ |-> 0], !.use[r] = << >>]

(* r no longer uses its operands. *)
DropInputs(t, r) ==
  FoldLeft(LAMBDA q, x : IF x > 0 /\ Stays(x)
                           THEN LET h == [q.g EXCEPT !.use[x] = Without(@, r)]
                                IN [g |-> h, w |-> IF IsDead(h, x) THEN q.w \cup {x} ELSE q.w]
                           ELSE q,
           t, t.g.in[r])

RemoveInsn(t, r) == LET q == DropInputs(t, r) IN [q EXCEPT !.g = Nop(q.g, r)]

(* The users of r that stay use "new" instead: a reference, a constant or  *)
(* nothing (0).                                                            *)
ReplaceInsn(t, r, new) ==
  LET Redirect(q, u) ==
        IF IF new > 0 THEN values[u].op = "BOTTOM" ELSE Stays(u) /\ Contains(q.g.in[u], r)
          THEN LET h == [q.g EXCEPT !.in[u] = FirstAs(@, r, new)]
               IN [g |-> IF new > 0 THEN [h EXCEPT !.use[new] = Append(@, u)] ELSE h,
                   w |-> q.w \cup {u}]
          ELSE q
      q1 == FoldLeft(Redirect, DropInputs(t, r), t.g.use[r])
  IN [q1 EXCEPT !.g = Nop(q1.g, r)]

(* ir_sccp_remove_if: control goes straight to dst. *)
RemoveIf(h, r, dst) ==
  LET next == h.use[dst][1]
      prev == h.in[r][1]
  IN IF Len(h.use[dst]) = 1
       THEN Nop(Nop([h EXCEPT !.in[next][1] = prev, !.use[prev] = FirstAs(@, r, next)], r), dst)
       ELSE [h EXCEPT !.op[r] = "END", !.in[r] = <<prev>>,
                      !.op[dst] = "BEGIN", !.in[dst] = <<r>>]

---------------------------------------------------------------------------
(* ir_sccp_transform *)

Transform ==
  LET t == [g |-> g, w |-> iter]
      val == values[i]
      Edit(q) == g' = q.g /\ iter' = q.w
  IN /\ pc = "transform" /\ i \in Refs(g)
     /\ i' = i + 1
     /\ work' = IF val.op = "MERGE" THEN work \cup {i} ELSE work
     /\ CASE val.op = "CONST" -> Edit(ReplaceInsn(t, i, Const(val.val)))
          [] val.op = "COPY" -> Edit(ReplaceInsn(t, i, Identity(values, val.word)))
          [] val.op = "TOP" /\ g.op[i] \in (Data \cup Load) \ {"PARAM"} -> Edit(RemoveInsn(t, i))
          [] val.op = "TOP" /\ g.op[i] \notin Data \cup Load \cup {"NOP"} ->
               Edit(ReplaceInsn([t EXCEPT !.g.terms = Without(@, i)], i, 0))
          [] val.op = "IF" -> Edit([t EXCEPT !.g = RemoveIf(g, i, val.word)])
          [] OTHER -> UNCHANGED <<g, iter>>
     /\ UNCHANGED <<source, values, mem2ssa, pc>>

Transformed ==
  /\ pc = "transform" /\ i \notin Refs(g)
  /\ pc' = "prune"
  /\ UNCHANGED <<source, g, values, work, iter, mem2ssa, i>>

Compress_uses(h, u, life) ==
  LET kept == SelectSeq([k \in 1 .. Len(h.in[u]) - 1 |-> k], LAMBDA k : k \in life)
      ins == [j \in DOMAIN kept |-> h.in[u][kept[j] + 1]]
  IN IF Len(ins) = 1
       THEN [h EXCEPT !.op[u] = "COPY", !.in[u] = ins, !.use[h.in[u][1]] = Without(@, u)]
       ELSE [h EXCEPT !.in[u] = <<@[1]>> \o ins]

(* The PHI u keeps the operands of the edges in "life". *)
Compress(h, u, life) ==
  LET kept == SelectSeq([k \in 1 .. Len(h.in[u]) - 1 |-> k], LAMBDA k : k \in life)
      ins == [j \in DOMAIN kept |-> h.in[u][kept[j] + 1]]
      gone == {k \in 1 .. Len(h.in[u]) - 1 : k \notin life /\ h.in[u][k + 1] > 0}
      h1 == FoldLeft(LAMBDA q, k : [q EXCEPT !.use[h.in[u][k + 1]] = Without(@, u)],
                     h, SetToSeq(gone))
  IN IF Len(ins) = 1
       THEN [h1 EXCEPT !.op[u] = "COPY", !.in[u] = ins, !.use[h.in[u][1]] = Without(@, u)]
       ELSE [h1 EXCEPT !.in[u] = <<@[1]>> \o ins]

(* ir_sccp_remove_unfeasible_merge_inputs *)
Prune ==
  LET r == Min(work)
      life == {k \in DOMAIN g.in[r] : g.in[r][k] # 0}
      ins == SelectSeq(g.in[r], LAMBDA x : x # 0)
      phis == SelectSeq(g.use[r], LAMBDA u : g.op[u] = "PHI")
      h == FoldLeft(LAMBDA q, u : Compress(q, u, life),
                    [g EXCEPT !.in[r] = ins, !.op[r] = IF Len(ins) <= 1 THEN "BEGIN" ELSE @],
                    phis)
  IN /\ pc = "prune" /\ work # {}
     /\ work' = work \ {r}
     /\ IF Len(ins) = Len(g.in[r]) THEN UNCHANGED <<g, iter>>
        ELSE /\ g' = h
             /\ iter' = IF Len(ins) <= 1 THEN iter \cup {r} \cup ToSet(phis) ELSE iter
     /\ UNCHANGED <<source, values, mem2ssa, pc, i>>

Pruned ==
  /\ pc = "prune" /\ work = {}
  /\ pc' = "done"
  /\ UNCHANGED <<source, g, values, work, iter, mem2ssa, i>>

---------------------------------------------------------------------------
SccpNext == Analyze \/ Analyzed \/ Transform \/ Transformed \/ Prune \/ Pruned

SccpSpec == SccpInit /\ [][SccpNext]_vars
===========================================================================
