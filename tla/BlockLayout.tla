---------------------------- MODULE BlockLayout ---------------------------
(***************************************************************************)
(* ir_schedule_blocks: the order in which the code of the blocks is        *)
(* emitted.  The bottom-up algorithm joins blocks to chains along the most *)
(* frequent edges; the top-down one follows traces.  Empty blocks go to    *)
(* the end, where no code is emitted for them.                             *)
(*                                                                         *)
(* Frequencies and probabilities are numbers with rounding that come from  *)
(* hints of the user; only comparisons of them matter, and the model lets  *)
(* every comparison come out either way.  A chain is the sequence of its   *)
(* blocks, and chains the set of them.                                     *)
(***************************************************************************)
EXTENDS Gcm

CONSTANTS
  BOTTOM_UP_LIMIT,           \* 256
  IR_MERGE_EMPTY_ENTRIES     \* whether the flag may be set: a set of Booleans

VARIABLES
  merge_entries,   \* ctx->flags & IR_MERGE_EMPTY_ENTRIES
  empty,           \* blocks with IR_BB_EMPTY
  chains,
  rear,            \* the blocks from schedule_end on
  todo,            \* the bit queue of blocks to visit
  cur,             \* the block to go on with, 0 for the next of the queue
  seen,            \* visited
  edges,           \* the edges still to join, as pairs
  loose,           \* those that did not connect two ends, in the order of their frequency
  schedule,        \* ctx->cfg_schedule
  last_non_empty

layout == <<merge_entries, empty, chains, rear, todo, cur, seen, edges, loose, schedule, last_non_empty>>

LayoutInit ==
  /\ merge_entries \in {m \in IR_MERGE_EMPTY_ENTRIES : m => "ENTRY" \in ToSet(ir.op)}
  /\ empty = {} /\ chains = {} /\ rear = << >> /\ todo = {} /\ cur = 0 /\ seen = {}
  /\ edges = {} /\ loose = << >> /\ schedule = << >> /\ last_non_empty = 0

IsEntry(c) == ir.op[ir.start[c]] = "ENTRY"

(* "move empty blocks to the end" *)
Skipped(c) == c \in empty /\ c # 1 /\ ~IsEntry(c)

(* _ir_skip_empty_blocks *)
SkipEmpty(c) ==
  LET to[d \in 1 .. N] == IF Skipped(d) THEN to[blocks[d].succs[1]] ELSE d IN to[c]

(* ir_match marks a block with nothing between its start and an END or     *)
(* LOOP_END that leads to another block.                                   *)
MayBeEmpty ==
  {c \in 1 .. N : /\ Len(blocks[c].succs) = 1 /\ blocks[c].succs[1] # c
                  /\ ir.op[ir.end[c]] = "END" /\ ir.end[c] = ir.start[c] + 1
                  /\ IsEntry(c) => merge_entries}

(* IR_BB_PREV_EMPTY_ENTRY, set where the block is found empty *)
PrevEmptyEntry(c) ==
  c > 1 /\ c - 1 \in MayBeEmpty /\ IsEntry(c - 1) /\ blocks[c - 1].succs[1] = c

(* No loop consists of empty blocks alone.  The register allocator clears  *)
(* the mark of blocks it puts moves into; without such a block             *)
(* _ir_skip_empty_blocks follows the loop for ever, so that what is said   *)
(* of the layout is said of these marks only.                              *)
Acyclic(E) ==
  LET ahead[k \in 0 .. N] ==
        IF k = 0 THEN E \ {1} ELSE LET a == ahead[k - 1] IN {c \in a : blocks[c].succs[1] \in a}
  IN ahead[N] = {}

ScheduleBlocks ==
  /\ pass = "linear"
  /\ \E E \in SUBSET MayBeEmpty : Acyclic(E) /\ empty' = E
  /\ IF N <= 2 THEN pass' = "laid_out" /\ UNCHANGED <<todo, chains>>
     ELSE IF irreducible # {} \/ N > BOTTOM_UP_LIMIT
       THEN pass' = "top_down" /\ todo' = 1 .. N /\ UNCHANGED chains
       ELSE pass' = "bottom_up" /\ todo' = {1} /\ chains' = {<<c>> : c \in 1 .. N}
  /\ UNCHANGED <<merge_entries, rear, cur, seen, edges, loose, schedule, last_non_empty>>

---------------------------------------------------------------------------
(* ir_schedule_blocks_bottom_up: the edges between the blocks *)

Active == cur # 0 \/ todo # {}

Visited == IF cur # 0 THEN cur ELSE Min(todo)

Unvisited(c) == SelectSeq(blocks[c].preds, LAMBDA p : p < c /\ p \notin seen)

JoinIn(cs, x, y) ==
  LET s == CHOOSE s \in cs : x \in ToSet(s)
      t == CHOOSE t \in cs : y \in ToSet(t)
  IN (cs \ {s, t}) \cup {s \o t}

(* A predecessor that comes earlier is visited first. *)
VisitPredecessor ==
  /\ pass = "bottom_up" /\ Active /\ Unvisited(Visited) # << >>
  /\ cur' = Unvisited(Visited)[1]
  /\ todo' = todo \ {Visited, cur'}
  /\ UNCHANGED <<merge_entries, empty, chains, rear, seen, edges, loose, schedule, last_non_empty, pass>>

Visit(c) ==
  /\ pass = "bottom_up" /\ Active /\ Unvisited(Visited) = << >>
  /\ c = Visited
  /\ seen' = seen \cup {c}
  /\ UNCHANGED <<merge_entries, empty, loose, schedule, last_non_empty, pass>>

VisitEmpty ==
  \E c \in 1 .. N :
    /\ Visit(c) /\ Skipped(c)
    /\ chains' = chains \ {<<c>>} /\ rear' = <<c>> \o rear
    /\ cur' = IF blocks[c].succs[1] > c THEN blocks[c].succs[1] ELSE 0
    /\ todo' = todo \ {c, cur'}
    /\ UNCHANGED edges

(* The more likely successor of an IF is joined at once, unless it is      *)
(* empty; an unlikely one from which control does not go on ("cold block   *)
(* without successors") goes to the end.                                   *)
VisitIf ==
  \E c \in 1 .. N :
    LET next == ToSet(blocks[c].succs)
    IN /\ Visit(c) /\ ~Skipped(c) /\ ir.op[ir.end[c]] = "IF" /\ Len(blocks[c].succs) = 2
       /\ \E cold \in SUBSET {s \in next : s > c /\ blocks[s].succs = << >>},
             likely \in SUBSET next :
            /\ Cardinality(likely) <= 1 /\ likely \cap cold = {}
            /\ LET joined == {s \in likely : ~Skipped(s)}
                   all    == chains \ {<<s>> : s \in cold}
               IN /\ chains' = IF joined = {} THEN all ELSE JoinIn(all, c, CHOOSE s \in joined : TRUE)
                  /\ edges' = edges \cup {<<c, SkipEmpty(s)>> : s \in next \ (cold \cup joined)}
            /\ rear' = SelectSeq(Reverse(blocks[c].succs), LAMBDA s : s \in cold) \o rear
            /\ todo' = (todo \ {c}) \cup {s \in next \ cold : s > c}
            /\ cur' = 0

VisitOther ==
  \E c \in 1 .. N :
    LET next == ToSet(blocks[c].succs)
    IN /\ Visit(c) /\ ~Skipped(c) /\ ir.op[ir.end[c]] # "IF"
       /\ edges' = edges \cup {<<c, SkipEmpty(s)>> : s \in next}
       /\ todo' = (todo \ {c}) \cup {s \in next : s > c}
       /\ cur' = 0
       /\ UNCHANGED <<chains, rear>>

VisitEnd ==
  /\ pass = "bottom_up" /\ ~Active
  /\ pass' = "join"
  /\ UNCHANGED <<merge_entries, empty, chains, rear, todo, cur, seen, edges, loose, schedule, last_non_empty>>

---------------------------------------------------------------------------
(* "Process EDGEs in the decreasing frequency order and join the connected *)
(* chains"; loose keeps the others, which no longer connect two ends.      *)

Rotated(s, k) == SubSeq(s, k, Len(s)) \o SubSeq(s, 1, k - 1)

(* "Try to rotate loop chain to finish it with a conditional branch": to   *)
(* the successor of the first inner loop header that ends with an IF, or   *)
(* else to the least frequent successor of an IF before it.                *)
Rotations(s) ==
  LET ifs   == {k \in 1 .. Len(s) - 1 : ir.op[ir.end[s[k]]] = "IF"}
      inner == {k \in ifs : /\ Len(blocks[s[k]].preds) > 1 /\ blocks[s[k]].header
                            /\ blocks[s[k]].loop_depth > 1}
  IN IF inner # {} THEN {Min(inner) + 1} ELSE IF ifs # {} THEN {k + 1 : k \in ifs} ELSE {1}

JoinEdge ==
  \E e \in edges :
    LET s == CHOOSE s \in chains : e[1] \in ToSet(s)
        ends == (\E t \in chains : Head(t) = e[2]) /\ Last(s) = e[1]
    IN /\ pass = "join"
       /\ IF ~ends THEN UNCHANGED chains
          ELSE IF Head(s) # e[2] THEN chains' = JoinIn(chains, e[1], e[2])
          ELSE IF Len(blocks[e[1]].succs) >= 2 THEN UNCHANGED chains
          ELSE \E k \in Rotations(s) : chains' = (chains \ {s}) \cup {Rotated(s, k)}
       /\ loose' = IF ends THEN loose ELSE Append(loose, e)
       /\ edges' = edges \ {e}
       /\ UNCHANGED <<merge_entries, empty, rear, todo, cur, seen, schedule, last_non_empty, pass>>

(* Mutant: an ENTRY that is already in a chain is inserted as well. *)
MergeEntry_again(cs, e) ==
  LET to == SkipEmpty(blocks[e].succs[1])
      s  == CHOOSE s \in cs : to \in ToSet(s)
      k  == SelectInSeq(s, LAMBDA c : c = to)
  IN (cs \ {<<e>>, s}) \cup {InsertAt(s, k, e)}

(* "Merge empty entry blocks": an empty ENTRY that is a chain by itself    *)
(* goes in front of the block it leads to.                                 *)
MergeEntry(cs, e) ==
  LET to == SkipEmpty(blocks[e].succs[1])
      s  == CHOOSE s \in cs : to \in ToSet(s)
      k  == SelectInSeq(s, LAMBDA c : c = to)
  IN IF <<e>> \in cs THEN (cs \ {<<e>>, s}) \cup {InsertAt(s, k, e)} ELSE cs

MergeEntries ==
  /\ pass = "join" /\ edges = {}
  /\ chains' = FoldLeft(MergeEntry, chains,
                        Reverse(SetToSortSeq({e \in empty : IsEntry(e)}, <)))
  /\ pass' = "group"
  /\ UNCHANGED <<merge_entries, empty, rear, todo, cur, seen, edges, loose, schedule, last_non_empty>>

(* "Group chains according to the most frequent edge between them" *)
GroupEdge(cs, e) ==
  LET s == CHOOSE s \in cs : e[1] \in ToSet(s)
      t == CHOOSE t \in cs : e[2] \in ToSet(t)
  IN IF s = t THEN cs ELSE IF Head(t) = 1 THEN JoinIn(cs, e[2], e[1]) ELSE JoinIn(cs, e[1], e[2])

(* "Form a final BB order" *)
FinalOrder ==
  /\ pass = "group"
  /\ LET grouped == FoldLeft(GroupEdge, chains, loose)
     IN schedule' = FlattenSeq(SetToSortSeq(grouped, LAMBDA s, t : Head(s) < Head(t))) \o rear
  /\ pass' = "laid_out"
  /\ UNCHANGED <<merge_entries, empty, chains, rear, todo, cur, seen, edges, loose, last_non_empty>>

---------------------------------------------------------------------------
(* ir_schedule_blocks_top_down *)

(* The probability of each successor: that of a branch is a hint, or else  *)
(* depends on whether the successor is empty.                              *)
Probabilities(c) ==
  {P \in [ToSet(blocks[c].succs) -> {1, 50, 99}] :
     ir.op[ir.end[c]] # "IF" =>
       \A s \in DOMAIN P : P[s] = IF ~IsEntry(s) THEN 50 ELSE IF s \in empty THEN 99 ELSE 1}

BestOf(P, next) ==
  FoldLeft(LAMBDA best, s : IF \/ best = 0 \/ blocks[s].loop_depth > blocks[best].loop_depth
                               \/ P[s] > P[best]
                              THEN s ELSE best, 0, next)

(* One block of a trace, with the empty ENTRY in front of it *)
Trace ==
  LET c    == Visited
      lead == IF PrevEmptyEntry(c) /\ c - 1 \in todo THEN <<c - 1>> ELSE << >>
      left == todo \ ({c} \cup ToSet(lead))
      In(b0) == SelectSeq(blocks[b0].succs, LAMBDA s : s \in left)
      last == IF Skipped(c) THEN IF cur = 0 THEN 0 ELSE last_non_empty ELSE c
      other == IF /\ c \in empty /\ last # 0
                  /\ ir.op[ir.end[last]] = "IF" /\ Len(blocks[last].succs) = 2
                 THEN In(last) ELSE << >>
  IN /\ pass = "top_down" /\ Active
     /\ schedule' = schedule \o lead \o (IF Skipped(c) THEN << >> ELSE <<c>>)
     /\ rear' = (IF Skipped(c) THEN <<c>> ELSE << >>) \o rear
     /\ last_non_empty' = last
     /\ \E P \in Probabilities(c) :
          cur' = IF In(c) # << >> THEN BestOf(P, In(c)) ELSE IF other # << >> THEN other[1] ELSE 0
     /\ todo' = left \ {cur'}
     /\ UNCHANGED <<merge_entries, empty, chains, seen, edges, loose, pass>>

TraceEnd ==
  /\ pass = "top_down" /\ ~Active
  /\ schedule' = schedule \o rear /\ pass' = "laid_out"
  /\ UNCHANGED <<merge_entries, empty, chains, rear, todo, cur, seen, edges, loose, last_non_empty>>

BlocksNext ==
  \/ ScheduleBlocks
  \/ VisitPredecessor \/ VisitEmpty \/ VisitIf \/ VisitOther \/ VisitEnd
  \/ JoinEdge \/ MergeEntries \/ FinalOrder
  \/ Trace \/ TraceEnd

---------------------------------------------------------------------------
(* The order in which the code is emitted; without a schedule it is that   *)
(* of the blocks.                                                          *)
Layout == IF schedule = << >> THEN [i \in 1 .. N |-> i] ELSE schedule

(* The block after position i for which code is emitted (ir_next_block) *)
NextBlock(i) ==
  LET rest == SelectSeq(SubSeq(Layout, i + 1, N), LAMBDA c : c = 1 \/ c \notin empty)
  IN IF rest = << >> THEN 0 ELSE rest[1]

(* Every block is emitted once and START is the first. *)
BlocksOnce ==
  pass = "laid_out" => Len(Layout) = N /\ ToSet(Layout) = 1 .. N /\ Layout[1] = 1

(* An ENTRY that the code enters beside an END leads where the END leads.  *)
EntriesRejoin ==
  \A c \in 1 .. N : IsEntry(c) /\ c \in empty =>
    LET from == blocks[blocks[c].preds[1]].succs
    IN \A s \in ToSet(from) : ~IsEntry(s) => blocks[c].succs[1] = s

(* A block that omits its jump because it leads to the next block with     *)
(* code really gets there: the code of the empty ENTRY blocks in between,  *)
(* which ir_next_block skips, leads to the same place.  This is said of    *)
(* layouts with EntriesRejoin: otherwise the block may run into the code   *)
(* of an empty ENTRY that leads elsewhere.                                 *)
FallThroughRight ==
  pass = "laid_out" /\ EntriesRejoin =>
    \A i \in 1 .. N :
      (\E s \in ToSet(blocks[Layout[i]].succs) : SkipEmpty(s) = NextBlock(i)) /\ ~Skipped(Layout[i]) =>
        \A j \in i + 1 .. N :
          /\ Layout[j] \in empty /\ IsEntry(Layout[j])
          /\ \A k \in i + 1 .. j : Layout[k] \in empty
          => SkipEmpty(blocks[Layout[j]].succs[1]) = NextBlock(i)

(* The order that ir_schedule_blocks gives the blocks is one in which the  *)
(* code can be emitted: every block comes once, START first, and, given    *)
(* EntriesRejoin and marks with Acyclic, a jump is omitted only where the  *)
(* code that follows is the code jumped to.                                *)
LayoutRight == BlocksOnce /\ FallThroughRight
===========================================================================
