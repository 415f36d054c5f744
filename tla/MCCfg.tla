------------------------------- MODULE MCCfg ------------------------------
(* For the dominator tree and the loops: all graphs of at most MAX_BLOCKS  *)
(* blocks (MAX_ENTRY with an ENTRY) in every numbering and with every      *)
(* order of the predecessors, and those of at most MAX_SHAPE blocks        *)
(* numbered breadth-first, and two larger ones; MCGraphs are those that do *)
(* not run into IR_ASSERT(k != 0).  The graphs of at most MAX_CODE blocks  *)
(* also come with code, and those of at most MAX_MEMORY blocks with        *)
(* variables in memory.                                                    *)
EXTENDS CfgPasses

CONSTANTS MAX_BLOCKS, MAX_ENTRY, MAX_SHAPE, MAX_CODE, MAX_MEMORY

WithOrders(out, e) ==
  LET sets == PredSets(out)
      orders[k \in 0 .. Len(out)] ==
        IF k = 0 THEN {<< >>}
        ELSE {Append(p, o) : p \in orders[k - 1], o \in SetToSeqs(sets[k])}
  IN {[preds |-> p, entry |-> e] : p \in orders[Len(out)]}

Sorted(out, e) ==
  [preds |-> [c \in DOMAIN out |-> SetToSortSeq(PredSets(out)[c], <)], entry |-> e]

(* Three nested loops with an ENTRY in the innermost:                      *)
(* 1 -> 2 -> 3 -> 4 -> {5, 6}, 5 -> 4, 6 -> {7, 8}, 7 -> 3, 8 -> 2; the    *)
(* LOOP_END of 5 is followed by the ENTRY 9, which returns to 4.           *)
MCNested ==
  {[preds |-> << << >>, <<1, 8>>, <<2, 7>>, <<3, 5, 9>>, <<4>>, <<4>>, <<6>>, <<6>>, <<5>> >>,
    entry |-> {9}]}

(* A loop 2 .. 8 around the irreducible loop {5, 6, 8}, which control      *)
(* enters at 5, its header, and at 6.                                      *)
MCEntered ==
  {[preds |-> << << >>, <<1, 7>>, <<2>>, <<2>>, <<3, 6>>, <<4, 8>>, <<5>>, <<5>> >>,
    entry |-> {}]}

MCShapes(k, e) == {Sorted(out, e) : out \in Shapes(k, e, BreadthFirst)}

MCAllGraphs ==
  UNION {UNION {WithOrders(out, {}) : out \in Shapes(k, {}, AnyOrder)} : k \in 1 .. MAX_BLOCKS}
  \cup
  UNION {UNION {UNION {WithOrders(out, {e}) : out \in Shapes(k, {e}, AnyOrder)} : e \in 2 .. k}
           : k \in 2 .. MAX_ENTRY}
  \cup
  UNION {MCShapes(k, {}) : k \in MAX_BLOCKS + 1 .. MAX_SHAPE}
  \cup
  MCNested \cup MCEntered

MCGraphs == {g \in MCAllGraphs : ScanGivesUp(g.preds)}

---------------------------------------------------------------------------
(* The instructions of a graph.  nodes[i] is a node listed in block at;    *)
(* its operands are positions in nodes, or constants.  ends[c] are the     *)
(* data operands of the end of block c, and bound are nodes.               *)
Code(p, e, nodes, ends, bound) ==
  LET Bs == DOMAIN p
      In(c) == SelectSeq([i \in DOMAIN nodes |-> i], LAMBDA i : nodes[i].at = c)
      start[c \in Bs] == IF c = 1 THEN 1 ELSE start[c - 1] + Len(In(c - 1)) + 2
      End(c) == start[c] + Len(In(c)) + 1
      ref == [i \in DOMAIN nodes |-> start[nodes[i].at] + SelectInSeq(In(nodes[i].at), LAMBDA j : j = i)]
      Opnds(s) == [k \in DOMAIN s |-> IF s[k] > 0 THEN ref[s[k]] ELSE s[k]]
      Control(c, r) ==
        Max({start[c]} \cup {ref[i] : i \in {j \in ToSet(In(c)) : nodes[j].op = "LOAD" /\ ref[j] < r}})
      StartOp(c) == IF c = 1 THEN "START" ELSE IF c \in e THEN "ENTRY"
                    ELSE IF Len(p[c]) > 1 THEN "MERGE" ELSE "BEGIN"
      EndOp(c) == <<"RETURN", "END", "IF">>[1 + Cardinality(SuccSet(p, c) \ e)]
      Insn(i) ==
        LET d == nodes[i]
        IN [op |-> d.op, in |-> (CASE d.op \in Leading -> <<start[d.at]>>
                                   [] d.op = "LOAD" -> <<Control(d.at, ref[i])>>
                                   [] OTHER -> << >>) \o Opnds(d.in)]
      list == FlattenSeq([c \in Bs |->
                <<[op |-> StartOp(c), in |-> [k \in DOMAIN p[c] |-> End(p[c][k])]]>>
                \o [k \in DOMAIN In(c) |-> Insn(In(c)[k])]
                \o <<[op |-> EndOp(c), in |-> <<Control(c, End(c))>> \o Opnds(ends[c])]>>])
      in == [i \in DOMAIN list |-> list[i].in]
      links == FlattenSeq([u \in DOMAIN list |-> [k \in DOMAIN list[u].in |-> <<list[u].in[k], u>>]])
      Uses(i) == LET s == SelectSeq(links, LAMBDA l : l[1] = i) IN [k \in DOMAIN s |-> s[k][2]]
  IN [op |-> [i \in DOMAIN list |-> list[i].op], in |-> in,
      use |-> [i \in DOMAIN list |-> Uses(i)],
      start |-> [c \in Bs |-> start[c]], end |-> [c \in Bs |-> End(c)],
      bound |-> {ref[i] : i \in bound}, consts |-> Min({0} \cup UNION {ToSet(in[u]) : u \in DOMAIN in}) .. -1]

(* The ends of the blocks: RETURN and IF use a constant, or a node of S in *)
(* a block that dominates them.                                            *)
Ends(p, e, nodes, S) ==
  LET Given(c) == IF Cardinality(SuccSet(p, c) \ e) = 1 THEN {<< >>}
                    ELSE {<<-1>>} \cup {<<x>> : x \in {x \in S : Dominates(p, nodes[x].at, c)}}
      ends[c \in 0 .. Len(p)] ==
        IF c = 0 THEN {<< >>} ELSE {Append(f, x) : f \in ends[c - 1], x \in Given(c)}
  IN ends[Len(p)]

Node(o, c, in) == [op |-> o, at |-> c, in |-> in]

(* One parameter, and values computed from it in the first block, each     *)
(* from the one before; a comparison; a value nobody uses                  *)
Straight ==
  <<Node("PARAM", 1, << >>), Node("ADD", 1, <<1, -1>>), Node("ADD", 1, <<2, -3>>),
    Node("LT", 1, <<2, -2>>), Node("ADD", 1, <<4, 4>>)>>

(* Nothing to move *)
Plain == <<Node("PARAM", 1, << >>)>>

(* A load in block c, an addition with overflow and the overflow *)
Checked(c) ==
  <<Node("PARAM", 1, << >>), Node("LOAD", c, <<1>>), Node("ADD_OV", c, <<2, 1>>), Node("OVERFLOW", c, <<3>>)>>

(* A PHI at block m with operands x, and a value computed from it there    *)
Joined(m, x) ==
  <<Node("PARAM", 1, << >>), Node("ADD", 1, <<1, -1>>), Node("PHI", m, x), Node("ADD", m, <<3, 2>>)>>

MCJoined(p) ==
  UNION {{Joined(m, x) : x \in {x \in [DOMAIN p[m] -> {-1, 2, 4}] :
                                  \A k \in DOMAIN x : x[k] = 4 => Dominates(p, m, p[m][k])}}
           : m \in {m \in DOMAIN p : Len(p[m]) = 2}}

(* The one graph of its shape that is numbered breadth-first *)
FirstOfShape(p) ==
  LET out == [c \in DOMAIN p |-> SuccSet(p, c)]
  IN \A c \in DOMAIN p : /\ \A k \in 2 .. Len(p[c]) : p[c][k - 1] < p[c][k]
                         /\ BreadthFirst(SubSeq(out, 1, c - 1), out[c])

MCCodes(p, e) ==
  IF Len(p) = MAX_CODE + 1 /\ e = {} /\ FirstOfShape(p)
    THEN {NoCode} \cup {Code(p, e, Straight, f, {}) : f \in Ends(p, e, Straight, {4})}
  ELSE IF Len(p) > MAX_CODE \/ ~FirstOfShape(p) THEN {NoCode}
  ELSE {Code(p, e, Plain, f, {}) : f \in Ends(p, e, Plain, {1})} \cup
       {Code(p, e, Straight, f, kept) : f \in Ends(p, e, Straight, IF Len(p) < MAX_CODE THEN {3, 4} ELSE {4}), kept \in {{}} \cup {{3} : x \in e}}
       \cup UNION {{Code(p, e, Checked(c), f, {}) : f \in Ends(p, e, Checked(c), {4})}
                     : c \in {c \in DOMAIN p : Len(p) < MAX_CODE}}
       \cup UNION {{Code(p, e, d, f, {}) : f \in Ends(p, e, d, {4})} : d \in MCJoined(p)}

---------------------------------------------------------------------------
(* Variables in memory.  head are the ALLOCAs of the first block, VARs and *)
(* addresses; accesses[c] the control nodes of block c, where a value 0    *)
(* is that of the node before.  Order gives the order of a use list.       *)
Load(a, t)  == [op |-> "LOAD", addr |-> a, type |-> t]
Store(a, x) == [op |-> "STORE", addr |-> a, val |-> x]
Observe(x)  == [op |-> "OBSERVE", val |-> x]
Alloca(k)   == [op |-> "ALLOCA", size |-> k]
Var(t)      == [op |-> "VAR", type |-> t]
Add(a, o)   == [op |-> "ADD", base |-> a, offset |-> o, type |-> "a2"]

Memory(p, head, accesses, Order(_)) ==
  LET off[c \in 1 .. Len(p) + 1] == IF c = 1 THEN Len(head) ELSE off[c - 1] + Len(accesses[c - 1])
      Fix(i, k) == IF i.op \in {"OBSERVE", "STORE"} /\ i.val = 0 THEN [i EXCEPT !.val = k - 1] ELSE i
      insn == head \o FlattenSeq([c \in DOMAIN accesses |->
                [k \in DOMAIN accesses[c] |-> Fix(accesses[c][k], off[c] + k)]])
      Is(op) == SelectSeq([i \in DOMAIN head |-> i], LAMBDA i : head[i].op = op)
      Uses(i) == SelectSeq([u \in DOMAIN insn |-> u],
                   LAMBDA u : \/ insn[u].op \in {"LOAD", "STORE"} /\ insn[u].addr = i
                              \/ insn[u].op \in {"STORE", "OBSERVE"} /\ insn[u].val = i
                              \/ insn[u].op = "ADD" /\ insn[u].base = i)
  IN [insn |-> insn, vars |-> Is("VAR"), const |-> <<"i2", "i2", "i1", "f2">>,
      uses |-> [i \in DOMAIN insn |-> Order(Uses(i))],
      chain |-> [c \in DOMAIN accesses |->
                   (IF c = 1 THEN Is("ALLOCA") ELSE << >>) \o [k \in DOMAIN accesses[c] |-> off[c] + k]]]

InOrder(s) == s

(* One variable, in at most three blocks *)
Shared ==
  {<<Store(1, -1)>>, <<Load(1, "i2"), Observe(0)>>, <<Load(1, "i2"), Observe(0), Store(1, -2)>>}

Simple == Shared \cup {<<Store(1, -2), Load(1, "i2"), Observe(0)>>}

(* Two variables: one is copied to the other, or its address is. *)
Copied ==
  {<<Store(1, -1), Load(1, "i2"), Store(2, 0)>>, <<Load(2, "i2"), Observe(0)>>, <<Store(2, 1)>>,
   <<Load(1, "f2"), Observe(0)>>, <<Store(1, -4)>>}

(* The parts of a variable of four bytes: 2 and 3 are the addresses of the *)
(* byte 2 and of the byte 3.                                               *)
InParts ==
  {<<Store(1, -1), Store(2, -2)>>, <<Load(2, "i2"), Observe(0), Load(1, "i2"), Observe(0)>>,
   <<Store(3, -3)>>, <<Load(3, "i1"), Observe(0)>>, <<Store(2, -3), Load(2, "i1"), Observe(0)>>}

(* Address taken, or not a size of a type *)
Escaping == {<<Observe(1)>>, <<Store(1, 1)>>, <<Store(1, -3)>>, <<Load(1, "i2"), Observe(0)>>}

(* At most k blocks access memory; an unreachable one follows the others,  *)
(* and has accesses in the graphs of at most three blocks.                 *)
AccessesIn(p, S, k) ==
  {f \in [1 .. Len(p) + 1 -> S \cup {<< >>}] :
     /\ Cardinality({c \in DOMAIN f : f[c] # << >>}) <= k
     /\ Len(p) > 3 => f[Len(p) + 1] = << >>}

MCMemory(p, e) ==
  IF Len(p) > MAX_MEMORY \/ e # {} \/ ~FirstOfShape(p) THEN {}
  ELSE {Memory(p, <<Alloca(2)>>, f, InOrder) : f \in AccessesIn(p, IF Len(p) > 3 THEN Shared ELSE Simple, 3)}
       \cup (IF Len(p) > 3 THEN {} ELSE
         {Memory(p, <<Var("i2")>>, f, Reverse) : f \in AccessesIn(p, Simple, 2)}
         \cup {Memory(p, <<Alloca(2), Alloca(2)>>, f, InOrder) : f \in AccessesIn(p, Copied, IF Len(p) > 2 THEN 2 ELSE 3)}
         \cup {Memory(p, <<Alloca(4), Add(1, 2), Add(1, 3)>>, f, InOrder) : f \in AccessesIn(p, InParts, 2)}
         \cup {Memory(p, <<x>>, f, InOrder) : f \in AccessesIn(p, Escaping, 1), x \in {Alloca(2), Alloca(0), Var("i2")}})
===========================================================================
