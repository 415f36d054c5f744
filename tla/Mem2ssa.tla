------------------------------ MODULE Mem2ssa -----------------------------
(***************************************************************************)
(* ir_mem2ssa: variables in memory (VAR and ALLOCA) become SSA values.  An *)
(* ALLOCA that is accessed in parts is first split.  A variable only       *)
(* loaded and stored is converted along its use list: the blocks where it  *)
(* is alive are found backward from the loads, PHIs are placed where       *)
(* definitions meet, and the loads are replaced in dominance order.        *)
(*                                                                         *)
(* mem.chain[c] are the control nodes between the start and the end of     *)
(* block c (mem.chain[N + 1] those of unreachable blocks), mem.insn the    *)
(* nodes and mem.uses the nodes that use a value or an address, in the     *)
(* order of the use list; the control link of an ALLOCA, which the code    *)
(* skips, is left out.  OBSERVE stands for any other use of a value.  A    *)
(* type is known by its size and its kind.  Constants are negative         *)
(* references.  ir_iter_opt, which tidies up behind the pass, is a module  *)
(* of its own (IterOpt).                                                   *)
(***************************************************************************)
EXTENDS Dominators

CONSTANTS
  MemoryOf(_, _),      \* the memory accesses a graph may have, or NoMemory
  IR_MAX_SPLIT_SIZE    \* 256

VARIABLES
  program,      \* the code before the pass
  mem,
  phase,        \* wait, next, scan, live, phis, rename, operands, converted
  left,         \* the variables still to look at
  var, type,    \* the variable under conversion and its type
  ssa_vars,     \* per block: var where it is alive, or its value at the end
  defs,         \* the blocks that define it
  merges,       \* the merges where it is alive and has no PHI
  queue, renamed

m2s == <<program, mem, phase, left, var, type, ssa_vars, defs, merges, queue, renamed>>

NoMemory == [insn |-> << >>]

ConversionInit ==
  /\ phase = "wait" /\ left = << >> /\ var = 0 /\ type = "none"
  /\ ssa_vars = [c \in 1 .. N |-> 0]
  /\ defs = {} /\ merges = {} /\ queue = << >> /\ renamed = 0

Mem2ssaInit ==
  /\ program \in MemoryOf(preds, entry) /\ mem = program
  /\ ConversionInit

Mem2ssaNone == program = NoMemory /\ mem = NoMemory /\ ConversionInit

SizeOf == [i1 |-> 1, i2 |-> 2, f2 |-> 2, a2 |-> 2, i4 |-> 4]

(* ir_uninitialized: the constant 0 of a type *)
Zero == [i1 |-> -101, i2 |-> -102, f2 |-> -103, a2 |-> -104, i4 |-> -105]

TypeIn(m, x) ==
  IF x < 0 THEN IF \E t \in DOMAIN Zero : Zero[t] = x THEN CHOOSE t \in DOMAIN Zero : Zero[t] = x
                ELSE m.const[-x]
  ELSE IF m.insn[x].op = "ALLOCA" THEN "a2" ELSE m.insn[x].type

TypeOf(x) == TypeIn(mem, x)

Nop == [op |-> "NOP"]

(* The block of a control node: ctx->cfg_map, 0 where it is unreachable *)
BlockIn(r) ==
  LET home == {c \in 1 .. N : r \in ToSet(mem.chain[c])}
  IN IF home = {} THEN 0 ELSE CHOOSE c \in home : TRUE

Unlinked(chain, r) == [c \in DOMAIN chain |-> SelectSeq(chain[c], LAMBDA x : x # r)]

---------------------------------------------------------------------------
(* ir_mem2ssa: the VARs of each block, and its ALLOCAs from the last       *)

Candidates ==
  FlattenSeq([c \in 1 .. N |->
    (IF c = 1 THEN program.vars ELSE << >>) \o
    Reverse(SelectSeq(mem.chain[c], LAMBDA r : mem.insn[r].op = "ALLOCA"))])

Mem2ssa ==
  /\ phase = "wait" /\ at = "done" /\ mem # NoMemory
  /\ left' = Candidates /\ phase' = "next"
  /\ UNCHANGED <<program, mem, var, type, ssa_vars, defs, merges, queue, renamed>>

(* A load of v or a store to v, not of v *)
Accesses(u, v) ==
  LET i == mem.insn[u] IN i.op \in {"LOAD", "STORE"} /\ i.addr = v /\ (i.op = "STORE" => i.val # v)

TypeAt(u) == IF mem.insn[u].op = "LOAD" THEN mem.insn[u].type ELSE TypeOf(mem.insn[u].val)

(* The parts of v that are accessed, as pairs of offset and size *)
Parts(v) ==
  UNION {IF mem.insn[u].op = "ADD"
           THEN {<<mem.insn[u].offset, SizeOf[TypeAt(w)]>> : w \in ToSet(mem.uses[u])}
           ELSE {<<0, SizeOf[TypeAt(u)]>>} : u \in ToSet(mem.uses[v])}

(* ir_mem2ssa_add_split_var *)
Compatible(p, q) == p = q \/ p[1] + p[2] <= q[1] \/ q[1] + q[2] <= p[1]

(* ir_mem2ssa_may_split_alloca, ir_mem2ssa_may_promote *)
MaySplit(v) ==
  LET size == mem.insn[v].size
  IN /\ size <= IR_MAX_SPLIT_SIZE
     /\ \A u \in ToSet(mem.uses[v]) :
          \/ Accesses(u, v)
          \/ /\ mem.insn[u].op = "ADD" /\ mem.insn[u].offset < size
             /\ \A w \in ToSet(mem.uses[u]) : Accesses(w, u)
     /\ Parts(v) # {}
     /\ \A p \in Parts(v) : p[1] + p[2] <= size
     /\ \A p, q \in Parts(v) : Compatible(p, q)

(* ir_mem2ssa_may_convert_var, ir_mem2ssa_may_convert_alloca; size is 0    *)
(* for an ALLOCA of unknown size.                                          *)
MayPromote(v) ==
  LET i    == mem.insn[v]
      size == IF i.op = "VAR" THEN SizeOf[i.type] ELSE i.size
  IN /\ size \in {1, 2, 4, 8}
     /\ \A u \in ToSet(mem.uses[v]) : Accesses(u, v) /\ SizeOf[TypeAt(u)] = size

(* ir_mem2ssa_split_alloca: the first part keeps the node; the others get  *)
(* new ones, linked in front of it.                                        *)
SplitAlloca(v) ==
  LET parts == SetToSortSeq(Parts(v), LAMBDA p, q : p[1] < q[1])
      k     == Len(mem.insn)
      node  == [p \in ToSet(parts) |-> IF p = parts[1] THEN v ELSE k + SelectInSeq(Tail(parts), LAMBDA q : q = p)]
      Of(o) == LET p == {q \in ToSet(parts) : q[1] = o} IN IF p = {} THEN v ELSE node[CHOOSE q \in p : TRUE]
      new   == [i \in DOMAIN Tail(parts) |-> k + i]
      adds  == SelectSeq(mem.uses[v], LAMBDA u : mem.insn[u].op = "ADD")
      Moved(a) == FlattenSeq([i \in DOMAIN adds |-> IF Of(mem.insn[adds[i]].offset) = a THEN mem.uses[adds[i]] ELSE << >>])
      insn  == [r \in DOMAIN mem.insn |->
                  LET i == mem.insn[r]
                  IN IF r = v THEN [i EXCEPT !.size = parts[1][2]]
                     ELSE IF r \in ToSet(adds) THEN Nop
                     ELSE IF i.op \in {"LOAD", "STORE"} /\ i.addr \in ToSet(adds)
                       THEN [i EXCEPT !.addr = Of(mem.insn[i.addr].offset)]
                     ELSE i]
      uses  == [r \in DOMAIN mem.uses |->
                  IF r = v THEN SelectSeq(mem.uses[v], LAMBDA u : u \notin ToSet(adds)) \o Moved(v)
                  ELSE IF r \in ToSet(adds) THEN << >> ELSE mem.uses[r]]
  IN [mem EXCEPT
        !.insn  = insn \o [i \in DOMAIN new |-> [op |-> "ALLOCA", size |-> parts[i + 1][2]]],
        !.uses  = uses \o [i \in DOMAIN new |-> Moved(new[i])],
        !.chain = [c \in DOMAIN mem.chain |->
                     LET j == SelectInSeq(mem.chain[c], LAMBDA x : x = v)
                     IN IF j = 0 THEN mem.chain[c]
                        ELSE SubSeq(mem.chain[c], 1, j - 1) \o new \o SubSeq(mem.chain[c], j, Len(mem.chain[c]))]]

Removed(v) == [mem EXCEPT !.insn[v] = Nop, !.uses[v] = << >>, !.chain = Unlinked(@, v)]

(* The next variable: it has no uses, may be converted, may be split (and  *)
(* is then looked at again, with the new ones), or stays.                  *)
NextVar ==
  LET v == Head(left)
  IN /\ phase = "next" /\ left # << >>
     /\ IF mem.uses[v] = << >>
          THEN mem' = Removed(v) /\ left' = Tail(left) /\ UNCHANGED <<phase, var, type>>
        ELSE IF MayPromote(v)
          THEN /\ phase' = "scan" /\ var' = v
               /\ type' = IF mem.insn[v].op = "VAR" THEN mem.insn[v].type ELSE TypeAt(mem.uses[v][1])
               /\ UNCHANGED <<mem, left>>
        ELSE IF mem.insn[v].op = "ALLOCA" /\ MaySplit(v)
          THEN /\ mem' = SplitAlloca(v)
               /\ left' = <<v>> \o Reverse([i \in 1 .. Len(mem'.insn) - Len(mem.insn) |-> Len(mem.insn) + i])
                          \o Tail(left)
               /\ UNCHANGED <<phase, var, type>>
        ELSE left' = Tail(left) /\ UNCHANGED <<mem, phase, var, type>>
     /\ UNCHANGED <<program, ssa_vars, defs, merges, queue, renamed>>

NoMoreVars ==
  /\ phase = "next" /\ left = << >>
  /\ phase' = "converted"
  /\ UNCHANGED <<program, mem, left, var, type, ssa_vars, defs, merges, queue, renamed>>

---------------------------------------------------------------------------
(* ir_mem2ssa_order: the control nodes in pre-order of the dominator tree *)
DominanceOrder ==
  LET Children(c) == SetToSortSeq({d \in 1 .. N : idom[d] = c}, <)
      pre[c \in 1 .. N] == FoldLeft(LAMBDA s, d : s \o pre[d], <<c>>, Children(c))
  IN FoldLeft(LAMBDA s, c : s \o program.chain[c], << >>, pre[1])

(* ir_mem2ssa_sort, if the reachable uses are not in order *)
SortedUses(s) ==
  LET live == SelectSeq(s, LAMBDA u : BlockIn(u) # 0)
      dead == SelectSeq(s, LAMBDA u : BlockIn(u) = 0)
      ordered == SelectSeq(DominanceOrder, LAMBDA u : u \in ToSet(live))
  IN IF live = ordered THEN s ELSE ordered \o dead

(* "For each usage of VAR": blocks that store define it, blocks that load  *)
(* first need it.                                                          *)
Scan ==
  LET uses == SortedUses(mem.uses[var])
      live == SelectSeq(uses, LAMBDA u : BlockIn(u) # 0)
      needs == SelectSeq([i \in DOMAIN live |-> i],
                 LAMBDA i : /\ mem.insn[live[i]].op = "LOAD"
                            /\ \A j \in 1 .. i - 1 : BlockIn(live[j]) # BlockIn(live[i]))
  IN /\ phase = "scan"
     /\ mem' = [mem EXCEPT !.uses[var] = uses]
     /\ defs' = {BlockIn(u) : u \in {w \in ToSet(live) : mem.insn[w].op = "STORE"}}
     /\ merges' = {}
     /\ ssa_vars' = [c \in 1 .. N |-> IF \E u \in ToSet(live) : BlockIn(u) = c THEN var ELSE ssa_vars[c]]
     /\ queue' = [i \in DOMAIN needs |-> BlockIn(live[needs[i]])]
     /\ phase' = "live"
     /\ UNCHANGED <<program, left, var, type, renamed>>

(* "Find all MERGEs where VAR is alive, exploring paths backward" *)
Alive ==
  LET c   == Last(queue)
      new == SelectSeq(preds[c], LAMBDA p : ssa_vars[p] # var)
  IN /\ phase = "live" /\ queue # << >>
     /\ merges' = IF Len(preds[c]) > 1 THEN merges \cup {c} ELSE merges
     /\ ssa_vars' = [d \in 1 .. N |-> IF d \in ToSet(new) THEN var ELSE ssa_vars[d]]
     /\ queue' = Front(queue) \o new
     /\ UNCHANGED <<program, mem, phase, left, var, type, defs, renamed>>

AliveEnd ==
  /\ phase = "live" /\ queue = << >>
  /\ phase' = "phis"
  /\ UNCHANGED <<program, mem, left, var, type, ssa_vars, defs, merges, queue, renamed>>

---------------------------------------------------------------------------
(* "Insert PHI nodes into Dominance Frontiers where VAR is alive." *)

(* Mutant: only definitions in the predecessors themselves count. *)
InFrontier_direct(c, D) == \E p \in ToSet(preds[c]) : p # idom[c] /\ p \in D

(* A definition comes in between the immediate dominator of c and c. *)
InFrontier(c, D) ==
  LET met[r \in 0 .. N] == r # idom[c] /\ (r \in D \/ met[idom[r]])
  IN \E p \in ToSet(preds[c]) : met[p]

(* One round over the merges *)
AddPhi(s, c) ==
  IF ~InFrontier(c, s.defs) THEN s
  ELSE LET phi == Len(s.insn) + 1
       IN [insn |-> Append(s.insn, [op |-> "PHI", block |-> c, vals |-> << >>, type |-> type]),
           queue |-> Append(s.queue, phi), merges |-> s.merges \ {c},
           ssa_vars |-> [s.ssa_vars EXCEPT ![c] = phi],
           defs |-> s.defs \cup {c}, changed |-> s.changed \/ c \notin s.defs]

InsertPhis ==
  LET s == FoldLeft(AddPhi, [insn |-> mem.insn, queue |-> queue, merges |-> merges,
                             ssa_vars |-> ssa_vars, defs |-> defs, changed |-> FALSE],
                    SetToSortSeq(merges, <))
      k == Len(s.insn) - Len(mem.insn)
  IN /\ phase = "phis"
     /\ mem' = [mem EXCEPT !.insn = s.insn, !.uses = @ \o [i \in 1 .. k |-> << >>]]
     /\ queue' = s.queue /\ merges' = s.merges /\ ssa_vars' = s.ssa_vars /\ defs' = s.defs
     /\ phase' = IF s.changed THEN "phis" ELSE "rename"
     /\ renamed' = 0
     /\ UNCHANGED <<program, left, var, type>>

---------------------------------------------------------------------------
(* "Renaming: remove STOREs and replace LOADs by last STOREed values or by *)
(* PHIs"                                                                   *)

(* The nearest value up the dominator tree, and the blocks on the way to   *)
(* it; the constant 0 if there is none.                                    *)
ValueAt(c) ==
  LET up[d \in 0 .. N] == IF d = 0 \/ ssa_vars[d] # var THEN <<d>> ELSE <<d>> \o up[idom[d]]
      d == Last(up[c])
  IN IF d = 0 THEN [val |-> Zero[type], path |-> << >>]
     ELSE [val |-> ssa_vars[d], path |-> up[c]]

Used(uses, x, us) == IF x < 0 THEN uses ELSE [uses EXCEPT ![x] = @ \o us]

Replaced(insn, r, x) ==
  [i \in DOMAIN insn |->
     CASE insn[i].op \in {"STORE", "BITCAST", "OBSERVE"} /\ insn[i].val = r -> [insn[i] EXCEPT !.val = x]
       [] insn[i].op = "PHI" -> [insn[i] EXCEPT !.vals = [k \in DOMAIN @ |-> IF @[k] = r THEN x ELSE @[k]]]
       [] OTHER -> insn[i]]

(* A value of another type, and the address of an ALLOCA, is kept behind a *)
(* BITCAST.                                                                *)
RenameStore ==
  LET u == mem.uses[var][renamed + 1]
      x == mem.insn[u].val
      c == BlockIn(u)
      plain == TypeOf(x) = type /\ (x > 0 => mem.insn[x].op # "ALLOCA")
  IN /\ phase = "rename" /\ renamed < Len(mem.uses[var]) /\ mem.insn[u].op = "STORE"
     /\ mem' = [mem EXCEPT !.insn[u] = IF plain THEN Nop ELSE [op |-> "BITCAST", val |-> x, type |-> type],
                           !.uses = IF plain /\ x > 0 THEN [@ EXCEPT ![x] = Remove(@, u)] ELSE @,
                           !.chain = Unlinked(@, u)]
     /\ ssa_vars' = IF c = 0 THEN ssa_vars ELSE [ssa_vars EXCEPT ![c] = IF plain THEN x ELSE u]
     /\ renamed' = renamed + 1
     /\ UNCHANGED <<program, phase, left, var, type, defs, merges, queue>>

RenameLoad ==
  LET u == mem.uses[var][renamed + 1]
      c == BlockIn(u)
      v == ValueAt(c)
      t == mem.insn[u].type
  IN /\ phase = "rename" /\ renamed < Len(mem.uses[var]) /\ mem.insn[u].op = "LOAD"
     /\ mem' = [mem EXCEPT
                  !.insn = IF t = type THEN Replaced([@ EXCEPT ![u] = Nop], u, v.val)
                           ELSE [@ EXCEPT ![u] = [op |-> "BITCAST", val |-> v.val, type |-> t]],
                  !.uses = IF t = type THEN [Used(@, v.val, @[u]) EXCEPT ![u] = << >>] ELSE Used(@, v.val, <<u>>),
                  !.chain = Unlinked(@, u)]
     /\ ssa_vars' = [d \in 1 .. N |-> IF d \in ToSet(v.path) THEN v.val ELSE ssa_vars[d]]
     /\ renamed' = renamed + 1
     /\ UNCHANGED <<program, phase, left, var, type, defs, merges, queue>>

(* "Renaming: set PHI operands" *)
SetPhi ==
  LET phi == Last(queue)
      ps  == preds[mem.insn[phi].block]
  IN /\ phase = "rename" /\ renamed = Len(mem.uses[var]) /\ queue # << >>
     /\ mem' = [mem EXCEPT !.insn[phi].vals = [k \in DOMAIN ps |-> ValueAt(ps[k]).val],
                           !.uses = FoldLeft(LAMBDA f, p : Used(f, ValueAt(p).val, <<phi>>), @, ps)]
     /\ queue' = Front(queue)
     /\ UNCHANGED <<program, phase, left, var, type, ssa_vars, defs, merges, renamed>>

Converted ==
  /\ phase = "rename" /\ renamed = Len(mem.uses[var]) /\ queue = << >>
  /\ mem' = Removed(var) /\ left' = Tail(left) /\ phase' = "next"
  /\ UNCHANGED <<program, var, type, ssa_vars, defs, merges, queue, renamed>>

Mem2ssaNext ==
  \/ Mem2ssa \/ NextVar \/ NoMoreVars
  \/ Scan \/ Alive \/ AliveEnd \/ InsertPhis
  \/ RenameStore \/ RenameLoad \/ SetPhi \/ Converted

---------------------------------------------------------------------------
(* What the code does.  A value is a sequence of bytes; a byte is a pair   *)
(* of its origin and its place in it, and Undef before anything is stored. *)
Undef == <<0, 0>>

Bytes(x, k) == [i \in 1 .. k |-> <<x, i>>]

(* e holds the bytes in memory and the values of the loads and PHIs. *)
RECURSIVE Value(_, _, _)
Value(m, e, x) ==
  IF x < 0 THEN Bytes(x, SizeOf[TypeIn(m, x)])
  ELSE CASE m.insn[x].op \in {"ALLOCA", "VAR", "ADD"} -> Bytes(x, 2)
         [] m.insn[x].op = "BITCAST" -> Value(m, e, m.insn[x].val)
         [] OTHER -> e.val[x]

Place(m, a) == IF m.insn[a].op = "ADD" THEN <<m.insn[a].base, m.insn[a].offset>> ELSE <<a, 0>>

ExecuteNode(m, e, r) ==
  LET i == m.insn[r]
      p == Place(m, i.addr)
      k == SizeOf[IF i.op = "LOAD" THEN i.type ELSE TypeIn(m, i.val)]
      At(j) == <<p[1], p[2] + j>>
      now   == [j \in 1 .. k |-> IF At(j) \in DOMAIN e.mem THEN e.mem[At(j)] ELSE Undef]
      x     == Value(m, e, i.val)
  IN CASE i.op = "LOAD"    -> [e EXCEPT !.val[r] = now]
       [] i.op = "STORE"   -> [e EXCEPT !.mem = [q \in DOMAIN @ \cup {At(j) : j \in 1 .. k} |->
                                                   IF \E j \in 1 .. k : q = At(j) THEN x[CHOOSE j \in 1 .. k : q = At(j)]
                                                   ELSE @[q]]]
       [] i.op = "OBSERVE" -> [e EXCEPT !.seen = Append(@, x)]
       [] OTHER -> e

ExecuteBlock(m, e, c) == FoldLeft(LAMBDA f, r : ExecuteNode(m, f, r), [e EXCEPT !.seen = << >>], m.chain[c])

(* Control goes from block c to block s. *)
Enter(m, e, c, s) ==
  LET k == SelectInSeq(preds[s], LAMBDA p : p = c)
  IN [e EXCEPT !.val = [y \in DOMAIN @ |->
        IF y \in DOMAIN m.insn /\ m.insn[y].op = "PHI" /\ m.insn[y].block = s
          THEN Value(m, e, m.insn[y].vals[k]) ELSE @[y]]]

Matches(x, y) == Len(x) = Len(y) /\ \A j \in DOMAIN x : x[j] = Undef \/ x[j] = y[j]

(* The states <<block, before, after>> that the two programs reach side by *)
(* side                                                                    *)
Sides(t) ==
  LET c == t[1]
      e == ExecuteBlock(program, t[2], c)
      f == ExecuteBlock(mem, t[3], c)
  IN [same |-> Len(e.seen) = Len(f.seen) /\ \A i \in DOMAIN e.seen : Matches(e.seen[i], f.seen[i]),
      next |-> {<<s, Enter(program, e, c, s), Enter(mem, f, c, s)>> : s \in SuccSet(preds, c)}]

RECURSIVE SameSeen(_, _)
SameSeen(done, new) ==
  new = {} \/ LET sides == {Sides(t) : t \in new}
              IN /\ \A x \in sides : x.same
                 /\ SameSeen(done \cup new, UNION {x.next : x \in sides} \ (done \cup new))

(* Whatever path control takes, the values that the program uses are those *)
(* it used before the variables were converted, except where it read what  *)
(* it had never written.                                                   *)
ConversionRight ==
  phase = "converted" =>
    LET none == [mem |-> << >>, val |-> [y \in DOMAIN mem.insn |-> << >>], seen |-> << >>]
    IN SameSeen({}, {<<1, none, none>>})
===========================================================================
