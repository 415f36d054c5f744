# A TLA+ verification of the IR framework

IR is a small JIT compilation framework.  A function is built (by an API, or from
text) as a sea-of-nodes graph in one array, optimised, scheduled into a
control-flow graph, allocated to registers and emitted as machine code.  All of it
runs on one thread over one `ir_ctx`; what makes it hard is not concurrency but
*aliasing inside the context*: packed arrays that move while they are being walked,
tables that are rehashed in the middle of a search, worklists whose entries are
changed by the treatment of other entries, orders of single moves that have to
amount to one simultaneous assignment, and passes that rely on what an earlier pass
has left behind.  These are the parts modelled here.

## 1. The parts of the system and how they interact

```
 builder / loaders --> folding, CSE, constants, memory forwarding     ir.c ir_fold.h
        |                   (ir_base, const_hash, prev_insn chains)
        v
 ir_build_def_use_lists --> use_lists, use_edges                      ir.c
        |
   mem2ssa, SCCP --> iterative optimisation (worklist)                ir_mem2ssa.c ir_sccp.c
        |
   ir_build_cfg --> dominators --> loops --> GCM --> schedule         ir_cfg.c ir_gcm.c
        |
   match, live ranges, coalescing, linear scan                        ir_ra.c, *.dasc
        |
   block schedule --> emit: PHI moves, argument moves, templates      ir_cfg.c ir_emit.c *.dasc
```

| Part | Source | Module | State of the model |
|---|---|---|---|
| Instruction/constant array | `ir.c` 290–490, `ir.h` | `InsnArray` (abstract: `TwoWayArray`) | modelled, proved |
| Constant pool | `ir.c` 493–706 | `ConstPool` | modelled, proved |
| Def-use lists | `ir.c` 1276–1471 | `UseListStore` (abstract: `UseLists`) | modelled, proved |
| Alias analysis, load forwarding, dead stores | `ir.c` 2009–2493, `ir_sccp.c` 3943–4019 | `MemForward` | without RLOAD/RSTORE; well-formedness proved |
| Folding engine | `ir_fold.h`, `ir.c` 706–1040, callers in `ir_sccp.c` | `IrValues`, `FoldRules`, `Fold` | integers and pointers |
| SCCP with copy propagation | `ir_sccp.c` 1–1186, rules of `ir_fold.h` | `SccpAnalysis`, `Sccp` | analysis and transformation; lattice and lists of copies proved |
| Iterative optimisation | `ir_sccp.c` 1189–1538, 2394–4096 | `IterOpt` | without promotion of types and loop variables |
| CFG construction | `ir_cfg.c` 17–615 | `BuildCfg` | without `ENTRY` |
| Dominators | `ir_cfg.c` 618–990 | `Dominators` | modelled |
| Loops | `ir_cfg.c` 997–1294 | `Loops` | modelled |
| Global code motion, scheduling | `ir_gcm.c` | `Gcm` | modelled |
| Memory to SSA | `ir_mem2ssa.c` | `Mem2ssa` | modelled |
| Order of the blocks | `ir_cfg.c` 1296–2159, `ir_match` of `ir_emit.c` | `BlockLayout` | without the alignment of loops |
| The passes over the CFG, in their order | `ir_jit_compile` of `ir.h` | `CfgPasses` | composition |
| Argument moves | `ir_emit.c` 430–590 | `ParallelCopy` | modelled, proved |
| PHI moves | `ir_emit.c` 590–1010 | `DessaCopy` | modelled, proved |
| Live ranges, register allocation | `ir_ra.c`, constraints and templates of `ir_x86.dasc` | `LiveInterval`, `LiveRanges`, `Coalesce`, `LinearScan`, `RegAlloc` | one register class |
| Instruction selection and templates of x86-64 | `ir_x86.dasc`, `ir_match` of `ir_emit.c` | `X86Machine`, `X86Match`, `X86Emit`, `X86Code` | integers of 1, 4 and 8 bytes |
| Everything else | see section 8 | | not modelled |

`PROJECT.json` maps each definition to the lines it stands for, and lists the
hazards of each part with the properties that watch them.

## 2. The modules and the code

**UseListStore.**  `use_lists[def] = [refs, count]` and one shared `use_edges[]`.
`Init` is the layout `ir_build_def_use_lists` produces (all lists packed, no holes).
The actions are `ir_use_list_remove_one`, `_remove_all`, `_replace_one`,
`_replace_all`, `_add` and `CLEAR_USES`; `_add` has the three cases of the code (take
the hole behind the list, extend the list that ends the array, move the list to the
end and leave holes).  `capacity` is the size of the allocation, `base` flips when it
may have moved.  `UseLists` is the promise: each definition has a sequence of its
own and an operation on one leaves the others alone.  `ImplementsUseLists` is the
refinement with `uses` mapped to the contents of the slots.

**InsnArray.**  One buffer, `ir_base` an index into it; constants below, instructions
above.  Growing the lower half slides the contents, growing the upper half extends
it and the table of use lists, `ir_truncate` copies the middle.  Fresh memory holds
`Junk`.  `RefsStable` is the refinement of `TwoWayArray`: a reference denotes the
same entry through every reallocation.

**ConstPool.**  `ir_const_ex` takes one step per link of the chain it follows and per
constant it relinks in a rehash, so a chain with a cycle or a missing constant shows
as a behaviour.  `chain` is auxiliary: the constants that are meant to be found.
`NoConstMadeTwice` is about constants that `ir_const_ex` makes; it does not say that two
calls return the same reference, since a rehash in between may link in a constant of
`ir_unique_const_addr` with that value (section 7).  `MCStores` holds the three tables
side by side; a behaviour works on one of them.

**Dominators, Loops.**  A graph is the sequence of the ordered predecessor
lists that `ir_build_cfg` leaves.  A step treats one block in one of the code's
loops.  `Dominators` has the single pass, its examination of the recorded
back-edges, and the two fall-backs with what they inherit from the aborted pass.
`Loops` extends it to the composition of the two passes: it takes the tree, its depths
and the flag `IR_NO_LOOPS` from whatever algorithm computed them, numbers the tree, and
has the bottom-up scan, the collection of members, the delayed irreducible loops and
the final top-down pass.
The reference definitions (dominance by paths, natural loops, strongly connected
parts) stand at the head of `Dominators` and know nothing of the algorithms.

**Gcm.**  A code is laid over a graph: nodes with operands and use lists, the block of
those that control pins, constants and bindings.  `ir_gcm` is one step for the pinned
nodes, one per queue entry of the early and of the late placement, with the recursion of
the code inside the step; late placement joins the uses in the dominator tree, climbs out of
loops, and splits a node that only some paths need into clones.  `ir_schedule` links the
blocks, repairs their order, sorts each block (PHIs and parameters first, the condition
next to its `IF`) and copies everything under new numbers.  `CodeMotionRight` and
`LinearRight` compare with the *expressions* of the source, not with its node numbers.

**BlockLayout.**  `ir_match` marks the empty blocks, the register allocator may take marks
away (any subset), and `ir_schedule_blocks` orders the blocks bottom-up by chains of
likely edges or top-down by traces.  Frequencies only matter through comparisons, and
every comparison may come out either way.  `LayoutRight`: every block comes once, START
first, and whoever omits a jump because of what `ir_next_block` answers falls through to
the right code.  It assumes that no loop consists of empty blocks alone (`Acyclic`) and
that an empty `ENTRY` leads where the code in front of its fake edge does
(`EntriesRejoin`); section 7 has the two cases.

**Mem2ssa.**  One step per candidate variable (promote, split or keep), per use in the scan,
per block in the liveness and frontier worklists, and per load or store in the renaming,
in the order the code sorts them.  `ConversionRight` runs the program before and after
along every path on a memory of bytes.

**CfgPasses.**  One state with the dominator tree, loops, code motion, block order and memory
conversion, composed in the order of `ir_jit_compile`: a program either has its
variables converted on the tree, or goes on through the loops to the layout.

**SccpAnalysis, Sccp, IterOpt, BuildCfg.**  `SccpAnalysis` begins with graphs of
instructions with operands and use lists.  `IrCheck` is what the pass may rely on: what
`ir_check` demands of operands and use lists, that the builder numbers an operand below
its user unless it is a PHI, and what `ir_sccp.c:732` and `:735` assert of the targets of a
branch.  It has one action per kind of instruction the analysis takes from its worklist.
`Sccp` adds an interpreter and one action per instruction of the transformation:
replacement by a constant or a copy, removal, one-way IF and SWITCH, unfeasible
inputs of merges.  `values[i].word` is the union of the C record; the doubly linked
rings of equal values are sets.  Which instruction is folded to what is the
evaluation of the comparisons, `ADD`, `SUB`, `NEG`, `ABS`, `NOT` and `COPY`, and of the
address of a symbol, which no rule folds.  `IterOpt` takes over the graph and the worklist
that SCCP leaves.  It has one action per kind of instruction taken from the worklist, lowest first
as from the bit queue of the code.  Each action is a whole rewrite with its edits of use
lists and what it queues again: folding with a
search for an equal instruction, blocks joined, empty diamonds removed, PHIs of a diamond
turned into MIN, MAX, ABS or COND, a branch on a PHI split over the incoming edges,
branches and guards decided by a dominating one.  `BuildCfg` finds the blocks backward
from the terminators and forward from START and from open branches, removes the inputs no block has, links and
marks the blocks, and removes those that cannot be reached.

**IrValues, FoldRules, Fold.**  `IrValues` says what every integer operation computes on
the 64-bit cell of a constant, at widths that are scaled down.  `FoldRules` has one
operator for each group of rules of `ir_fold.h`: the constant rules with the width and
signedness in which C computes them, identities, nested operands, reassociation,
conversions.  An instruction is a term (its operands are the terms below it), a rule
answers `COPY`, `CONST`, `RESTART`, `EMIT`, `NEXT` or fails an assertion, as the macros
of the file do.  `Fold` is `ir_folding`: the keys are looked up from the most to the least
specific, `Restart` is one round of it, and the other actions are what the three callers
(`ir_fold`, `ir_iter_fold`, `ir_sccp_fold`) do with the answer.  The promise is the
evaluation of terms: the result has the value of the instruction for every value of the
leaves for which the instruction is defined.

**MemForward.**  `prog` is what the caller asks for, `code` the control chain that is
left.  The actions are `_ir_LOAD`, `_ir_STORE`, `_ir_VLOAD`, `_ir_VSTORE`, the control
instructions that the walks distinguish (guards, branches, calls), and the visits of
the iterative pass, in any order.  The alias test is `ir_check_aliasing` with the
decomposition of addresses in base, index and offset.  Both programs are run on a
memory of bytes for every placement of the unknown pointers and every index.

**ParallelCopy, DessaCopy.**  Each emitted instruction is a step on a register file
(and spill slots).  A place holds the name of a value and how much of it is still
good: a narrow move keeps the low part only.  `pred`, `loc`, `todo`, `ready`,
`visited` are the arrays and bit sets of the code; a bit set is popped from its
lowest element, as in the code.  A failing `IR_ASSERT` is a state of its own.

**LiveInterval ... RegAlloc.**  The allocator, pass by pass, on one state.  `LiveRanges` begins with its
input: instructions in the order of their blocks with the rule that was selected, and what
`ir_get_target_constraints` demands for a rule.  It has `ir_compute_live_sets`
(one step per virtual register) and `ir_compute_live_ranges` (one per block, backwards);
`Coalesce` the joining of PHIs with their operands, the swap of operands that goes with
it, the hints and the renumbering; `LinearScan` one step per decision about an
interval (free register, first part free, blocked register, eviction, next candidate),
the reuse and cutting up of spill slots, and the registers, loads and
stores that every use is given.  `RegAlloc` then has what the templates of `ir_x86.dasc`
do with them, on a machine whose places hold *sets of instructions whose value they
hold*; it composes all of it and runs the code along every path.

**X86Machine ... X86Code.**  The x86-64 back-end for integer code.  `X86Match` is
`ir_match` with `ir_match_insn` and the fusions (addresses, loads, immediates, comparisons
into branches, read-modify-write of memory), one step per instruction, backwards, then
`ir_get_target_constraints` and the positions of uses that follow
from it.  `X86Emit` has one operator per template `ir_emit_*`, from the
selected rule and the registers of the operands to a sequence of instructions of
`X86Machine`: a processor with partial registers, undefined flags and faults.
`X86Code` composes them.  Between selection and emission it takes *any* assignment of
registers and spill slots that keeps the contract of the constraints, one value, operand
or temporary per step; `RegAlloc` shows that the linear scan keeps a contract of this
form.  Then the code and the IR run side by side, one IR instruction per step, on every
argument.  A failed assertion of the emitter is an instruction that faults.

## 3. What the runs check

| Run | Question | Properties |
|---|---|---|
| `stores` | The three tables that grow, one per behaviour. Do packed use lists behave as separate lists? Does a reference survive growth of the array at both ends? Does `ir_const_ex` make a constant at most once, whatever rehashes intervene, and does every call return? | `Disjoint`, `Fits`, `ImplementsUseLists`; `ArrayTypeOK`, `FreshRefsUnused`, `RefsStable`; `NoConstMadeTwice`, `CallReturns` |
| `cfg_loops` | Is the result the dominator tree, whichever algorithm ends up computing it; are the loops found from it the natural loops, is every cycle covered, are irreducible loops recognised? Is a moved or cloned node computed before every use and is the linear code the same code? Does every jump and fall-through survive the order of the blocks? Do loads turned into values give what memory held? | `TreeRight`, `LoopsRight`, `CodeMotionRight`, `LinearRight`, `LayoutRight`, `ConversionRight`, `Terminates` |
| `sccp` | Is the optimised graph well formed and does it return the same, after the propagation, after the iterative pass, and when the blocks are built? Are these the blocks and edges of the graph? | `RingsMatchIdentities`, `GraphWellFormed`, `SameResult`, `CfgMatchesGraph`, `OnlyWeakened`, `Terminates` |
| `fold` | Does folding keep the type and the value, and does it come to an end? | `WellTyped`, `ValuePreserved`, `Terminates` |
| `parallel_copy` | Does the sequence of moves amount to the simultaneous copy? | `RightValue`, `NothingLost`, `Terminates` |
| `dessa_copy` | The same for PHIs, spill slots and constants | `RightValue`, `NothingLost` (with the assertions), `Terminates` |
| `mem_forward` | Do loads still give, and do observers still see, what they did? | `WellFormed`, `MemoryLooksTheSame`, `AliasAnswers` |
| `reg_alloc` | Does the allocator find a register for everything, and is every operand of the emitted code read from a place that holds it? | `Solved` (no unsolvable conflict, no failed assertion), `OperandsRight`, `PlacesApart` (no register and no part of a slot has two values), `RangesExact`, `Terminates` |
| `x86` | Does the code selected and emitted for a function do what its IR does, whatever registers the operands are given? | `OutcomeRight` (no fault, no undefined flag, no failed assertion, and the outcome of the IR), `ValuesInPlace` |
| `fold_reassoc` | A place where the code does not do what its comment says (section 7) | `ValuePreserved` (violated) |
| `const_pool_unique` | Does a unique constant stay out of the chains, as a comment says? (section 7) | `UniqueOutsideChains` (violated) |
| `dominators_assert` | Does the assertion of the single pass hold for every order of the blocks? (section 7) | `AssertKNotZero` (violated) |

Every property of a passing run has a mutant: a plausible slip in the code (a
dropped guard, a missing reset, a wrong index) under which TLC refutes it.

## 4. Bounds, and why they are enough

- *Use lists*: three definitions, two users, pages of two cells, at most four
  edges (`MAX_EDGES`).  All three cases of `_add` and a take-over of a hole left by a
  neighbour occur with two lists; the third is a bystander.  The proofs have no
  bound on the sets, and any `MAX_EDGES`.
- *Instruction array*: `CHUNK` (4096 in the code) is 3, so both growth by doubling
  and linear growth happen; up to 6 entries a side, 2 at once.
- *Constants*: a table of 4 that grows to 16; two keys that share a bucket until
  the last growth, a third that does not; ten constants.
- *Graphs*: every graph up to 5 blocks in every numbering and every order of the
  predecessors (4 with an additional `ENTRY`), all breadth-first
  numbered ones up to `MAX_SHAPE`, and families of three nested loops and of irreducible
  loops inside others.  Out-degree and shape are those that
  `ir_build_cfg` can produce.  `cfg_loops` leaves out the graphs that run into
  `IR_ASSERT(k != 0)` (`ScanGivesUp`); `dominators_assert` has all of up to 4 blocks.
  The smallest irreducible graph has 3 blocks,
  the smallest nest of loops 3.
- *Codes over graphs*: on graphs of up to 4 blocks (`MAX_CODE`) chains of values that
  one another compute and PHIs, on those of up to 3 also loads and additions with
  overflow, on those of 5 a chain only, with every choice of
  which branch or return uses them; `BOTTOM_UP_LIMIT` is 4, so that both
  block schedulers run.  One value that two branches use in part, and one a loop uses, are
  the smallest cases of splitting and hoisting.
- *Variables in memory*: on graphs of up to 4 blocks (`MAX_MEMORY`) a variable,
  accessed in at most three blocks, on those of up to 3 (an unreachable block included) also
  one or two accessed as a whole or in parts of
  1, 2 and 4 bytes, one copied to the other, or with its address taken.
- *SCCP*: families of programs (diamonds, loops, switches, nested
  branches, several returns, PHIs that copy each other), each with all choices of
  operands from a few candidates, about 6,000 graphs; arithmetic modulo 3;
  every parameter value is run.  For the iterative pass: selections of two values in every
  order of the branches, branches on PHIs of constants, repeated and inverted conditions,
  guards, empty switches; for `BuildCfg` also graphs that no pass has seen, with dead
  blocks that enter merges and with endless loops.
- *Folding*: 8, 32 and 64 bits are 3, 4 and 6 bits, so each conversion loses or
  repeats bits and signed limits differ from unsigned ones; about 40,000 calls: every
  operation over variables and the constants at the edges (0, 1, -1, the least and the
  greatest, powers of two), one operand being any instruction that folding leaves as it
  is.  All leaves take all their values.  At most 8 restarts (`MaxRestarts`) are looked
  ahead for the disputed rewrites of section 7.
- *Copies*: every set of copies among 5 general and 3 floating-point registers, or
  3 + 1 registers, 2 spill slots and a constant.  That is a cycle of two, one of
  three with trees attached, several readers of one source, and a
  temporary that is a source or a destination.
- *Register allocation*: about 2,000 functions over four registers, of which a division
  takes two, a shift one and a call three: straight lines, diamonds and loops with up to five
  values alive, PHIs that exchange their values, one and several parameters on the stack,
  loads fused into their user across blocks, values of 1 to 8 bytes, constants that are
  no immediates.  Splitting, eviction
  of active and inactive intervals, every way to cut up a slot and every kind of operand
  occur; the state graph shows each action taken.
- *Memory*: every program of three accesses or control instructions (a store, what
  comes between, and what overwrites or reads it), followed by any visits of the
  iterative pass; ten pairs of addresses, one for each answer of the alias test;
  two integer sizes and a floating point type.

- *x86-64*: types of 8, 32 and 64 bits have 3, 5 and 7 bits, so a constant can be an
  immediate or not, extensions and truncations change the value, and every partial write
  of a register shows; four registers of which division takes two and shifts one; about
  1,400 functions (every operation over variables and over the constants at the edges,
  every shape that a fusion looks for and its near misses), at most one spilled value,
  three tuples of arguments.  One spilled value reaches every operand of every template
  as register, memory and reload; the templates do not look at how many others there are.

No symmetry is used: registers, blocks and references are numbers whose order the
code uses.

## 5. Fairness

The program is sequential: the loop that is running takes its next step.  Weak
fairness of the whole step relation says just that, and `Terminates` is checked
under it (`CfgPasses`, `BuildCfg`, `Fold`, `ParallelCopy`, `DessaCopy`, `RegAlloc`).  In `ConstPool` only the
steps inside a call are fair, the caller need not make calls.  Deadlock checking is
off where a caller may stop (`ConstPool`, `MemForward`) or where the last state of
an algorithm has no successor (`Fold`).  `CfgPasses`, `BuildCfg` and `RegAlloc` have a last step that changes nothing instead.

## 6. What is proved

TLAPS checks the following for every value of the constants that satisfies the
named assumptions (registers are finite disjoint sets of numbers; pages and tables
are not empty; hash values are naturals; stored constants are constants of a type; the
graphs SCCP is given satisfy `IrCheck`, over at least two values).

- **StoreProofs**, the use lists.  `ListsApart`: no two lists share a cell and no list has a
  hole.  `StoreImplementsUseLists`: the store implements `UseLists`.
  `EdgesFitBuffer`: the edges fit the allocation.  The inductive invariant is
  `TypeOK /\ Disjoint /\ Filled`: `Filled` (cells inside a list are not `IR_UNUSED`)
  is what makes it safe to take a cell because it *is* `IR_UNUSED`, and so carries
  `Disjoint`.  A lemma per operation describes its effect as a change of one list
  framed by the others; the refinement reuses these frames.  `Fits` rests on
  arithmetic of aligned sizes: the capacity is a whole number of pages that covers the
  aligned count, so comparing the aligned sizes before and after an addition suffices.
- **StoreProofs**, the constants.  `ConstantsMadeOnce`: of two constants with
  equal keys that `ir_const_ex` made, there is one.  `NoConstMadeTwice` is not inductive.  `CallInv` adds what a search knows half
  way: a constant with the wanted key, if it is on a chain, is at or behind the
  cursor; during a rehash the relinked constants are exactly those before the
  cursor and none has the wanted key.  `ChainsComplete` says that chains descend,
  which is also why a walk ends.
- **ParallelCopyProofs.**  `ParallelCopyCorrect` (`RightValue`) and `NoSourceOverwritten`
  (`NothingLost`).  The invariant follows the phases.  While trees are resolved, a
  register that is neither ready nor written holds its own value and has a reader
  left.  When nothing is ready, `pred` maps the finite set `todo` onto itself, so it is
  one to one (from the library's theorems on surjections of finite sets) and what is
  left are cycles.  In a cycle the only lost value is that of its head, and the
  temporary has it.  The theorem is about which value arrives; how
  much of it arrives is the subject of `FullWidth` (section 7).

- **InsnArrayProofs.**  `CountsWithinLimits` (`ArrayTypeOK`), `FreshRefsHaveNoUses`
  (`FreshRefsUnused`) and `ReferencesStayValid` (`RefsStable`, the refinement of
  `TwoWayArray`).  The invariant adds that the table of use lists covers exactly the
  upper half of the buffer and that no emitted entry is `Junk`.  One lemma per
  operation says what it does to the two halves seen through the references; sliding the
  lower half and copying in `ir_truncate` then are stutters of the abstract array.
- **DessaCopyProofs.**  `PhisGetTheirValues` (`RightValue`) and `NoPhiOperandLost`
  (`NothingLost`) for every set of registers, slots, constants and copies without a cycle
  that mixes integers and floating point values (`OneClassCycles`, section 7).
  The theorems cover the copies whose
  run ends at an assertion: until then no value is lost, the assertion that a temporary is
  left fails only without `NoLateNeed`, and the one that no constant is met only without
  `NoLateConst`, two conditions on the copies the function is given.  The invariant follows the three stages.  In the first
  a place is ready when no copy that is left reads it.  Once nothing is ready, `pred`
  restricted to what is left is one to one, so the walk of the second stage, which
  marks what it has visited, returns to where it started: the set it has visited is
  closed under `pred`.  The third stage has only copies that touch a temporary; a
  move between slots among them contradicts `NoLateNeed`, since what waits for a temporary
  is the set of `BehindTemps`.
- **MemForwardProofs.**  `ChainStaysWellFormed` (`WellFormed`): loads that are replaced and
  stores that are removed, by the builder or by the iterative pass in any order, never
  leave a use without its load, for programs of every length over any addresses and
  whatever the alias test answers.  The invariant adds that an instruction bears the
  number of its request, so that the chain is sorted and a value found *before* a load is
  not that load.  `Subst` is a recursive function; that it is defined, keeps the type and
  moves the root is proved by induction over the conversions.
- **SccpCopies, SccpLemmas, SccpProofs.**  `RingsTheorem` (`RingsMatchIdentities`) and
  `OnlyWeakenedTheorem` (`OnlyWeakened`) for `SccpSpec`, the pass from its first worklist
  to the last pruned merge, on graphs of any size that satisfy `IrCheck`
  (`ProgramsAssumption`) and values of any width but the empty one and `{0}`
  (`WidthAssumption`; comparisons give 0 and 1).  Neither is inductive.  `IInv` says
  that the cells fit the operations; that the copies form a forest, whose roots are
  BOTTOM and carry the list of all their copies once they have one; that before that
  `word`, which is a union in the code, is 0 or the visited flag; that an
  instruction that can be folded has left TOP only when none of its operands is TOP; that a merge counts
  at least the inputs it still misses; and that the worklist has nothing BOTTOM on it, the
  targets of a branch excepted.  The exception is the code's: `ir_sccp.c:590` asserts that
  what is taken is not BOTTOM, and `:740` and `:781` queue a target without looking.
  Reading an identity is a recursive function; that it is defined comes from the heights of
  the forest.  `SccpCopies` has the effects of `ir_sccp_add_identity` and
  `ir_sccp_split_partition` on the forest and the lists, `SccpLemmas` those of the meets,
  of the folding of an instruction and of a PHI (by induction over its operands, and over
  the users of a merge when they are evaluated at once), `SccpProofs` one lemma per
  action.  TLC checked `IInv` on the programs of the run `sccp` before it was proved.

Induction over numbers is available as the lemma `SetInduction` (a set that holds 0 and is
closed under successor up to a bound), from the well-foundedness of `<` on the naturals.

*Only model-checked*, and why:

- all liveness (`Terminates`, `CallReturns`): fairness and `ENABLED` are outside the prover;
- `Fold`, `RegAlloc` and `X86Code`: their interpreters and passes are `RECURSIVE`
  operators or use `Bitwise`, about which nothing can be proved here;
- the dominator tree and the loops: the reference definitions quantify over paths, and the
  invariant of the single pass is about depth-first orders of arbitrary graphs;
- code motion, block order and memory to SSA: `Late`, `TopSort` and the values of memory
  are recursive over data, and the promises are about dominance;
- `GraphWellFormed`, `SameResult` and `CfgMatchesGraph` of SCCP, the iterative pass and
  `BuildCfg`: the first speaks of the transformed graph, whose operands have values only
  because the analysis has reached a fixed point (and fails for the programs of
  `ir_sccp.c:449` in section 7), the second compares runs of an interpreter, and the
  rewrites of `IterOpt` are `RECURSIVE` operators.  The run `sccp` checks
  `RingsMatchIdentities` and `OnlyWeakened` over all three passes; the theorems are about
  the propagation, the only pass that has these values;
- `MemoryLooksTheSame` and `AliasAnswers`: they compare folds over two
  programs on a memory of bytes, for all placements of the pointers.

## 7. Where code and comments disagree

Three runs end in a violation and are listed as findings:

- `fold_reassoc`: the comment `c1 - (c2 - x) => x + (c1 - c2)` stands above a rule that
  leaves the operation `SUB` or makes it `MUL` (`ir_fold.h:3423`, `:3448`).  Seen with a
  debug build at `-O1`.
- `const_pool_unique`: *"don't insert into constants chain"* (`ir.c:500`), but the next
  rehash links every constant (`ir.c:519–528`), those of `ir_unique_const_addr` included,
  so that a later `ir_const_addr` shares them.
- `dominators_assert`: the scan for a forward predecessor reads one entry behind the last
  one before it tests the count (`ir_cfg.c:803`), and then fails `IR_ASSERT(k != 0)`
  (`ir_cfg.c:816`) instead of falling back to the slow algorithm.

The passing runs leave out the first and the last of these situations, and the following ones.  For each of them the
modules keep a predicate; where it is a formula to check, the table says how the
configuration of the passing run has to change for TLC to show the case (for the folding
rules: `MCFoldReassoc.cfg` with another value of `Wanted`):

| Where | What happens | Kept as |
|---|---|---|
| `ir_cfg.c:1272–1282` | "for all the enclosing loops": the loop re-reads `loop->loop_header`, so it stops after one level | `EntryFlagsEnclosingLoops`; `MCCfg.cfg`, `Graphs <- MCNested` |
| `ir_cfg.c:1209–1230` | a loop around an irreducible loop is collected through its header only; predecessors of the other entries are not visited | `ReducibleLoopsCollectMembers`; `MCCfg.cfg`, `Graphs <- MCEntered` |
| `ir_sccp.c:449` | a PHI that became BOTTOM early leaves a later operand TOP when nothing else visits it (a symbol address); the operand is removed | `GraphWellFormed`; `MCSccp.cfg`, `Programs <- MCLateOperand` |
| `ir_sccp.c:2609–2653` | `ir_fix_min_max_const` edits the comparison in place even when it has other users, and the neighbouring constant wraps at the limits of the type | `Wraps` and the condition in `Selections` of `MCSccp` |
| `ir_gcm.c:588–606` | *"OVERFLOW … must be scheduled into the same block"* as its addition, but it is only moved along when the addition leaves its early block; when the sum is also used there, the `OVERFLOW` stays with its own uses, further down | `OverflowStays`; `MCCfg.cfg`, with `{3, 4}` as the nodes that ends of blocks may use over `Checked` in `MCCodes` |
| `ir_emit.c:1308–1324` | an empty `ENTRY` that is entered by a fake edge from an `END` that leads elsewhere: the block in front of it would fall through into its code | `EntriesRejoin` in `BlockLayout` |
| `ir_cfg.c:1296–1308` | `_ir_skip_empty_blocks` does not end on a loop all of whose blocks are empty | `Acyclic` in `BlockLayout` |
| `ir_emit.c:861`, `:869` | the last stage of the PHI moves gives a temporary its final value and may then need it for a move between memory slots; a debug build stops at `ir_emit.c:660` | `TemporaryLeft`; `MCDessaCopy.cfg` (the copies are in the run; `NothingLost` says that only those without `NoLateNeed` get there) |
| `ir_emit.c:849` | the search for a cycle meets a constant behind a put-off temporary | `NoConstantInCycle`; `MCDessaCopy.cfg` (the same, for those without `NoLateConst`) |
| `ir_emit.c:699–726` | the root of a cycle is saved in a temporary of the class of the copy into its source, while the moves of the cycle free and restore the temporary of their own class; a cycle through spill slots may mix integers and floating point values | `OneClassCycles`; `MCDessaCopy.cfg`, `NothingLost` under `Spec` |
| `ir_emit.c:530`, `:546` | the head of a cycle of arguments is saved with the type of the value that *replaces* it: a 64-bit argument that a 32-bit one replaces in a cycle of three is truncated | `FullWidth`; `MCParallelCopy.cfg`, `Width = {1, 2}` |
| `ir_emit.c:679–700` | the same for PHIs of different width in one cycle | `FullWidth`; `MCDessaCopy.cfg`, `MEM = {4}`, `Width = {1, 2}` |
| `ir.c:2425` | a VSTORE kills an earlier wider VSTORE of the variable; STORE compares the types (`ir.c:2318`), VSTORE does not | `DeadStoresOverwritten`; `MCMemForward.cfg`, `VarTypes = {"I1", "I2"}` |
| `ir_fold.h:3553–3561` | `(x & y) & y` and the like copy the second operand instead of the inner instruction | `Absorbs`; `Wanted <- AbsorbTwice` |
| `ir_fold.h:1724–1885` | a comparison of extended values is made before they are extended although the constant or the signedness is another one there | `Narrows`; `Wanted <- Narrow` |
| `ir_fold.h:3092–3188` | the mask under a shift is compared at the width of a narrower count | `Unmasks`; `Wanted <- Unmask` |
| `ir_fold.h:1646–1666` | in SCCP, the *reference* of an operand known to be true is compared with `IR_TRUE` | `ComparesKnown`; `Wanted <- KnownTrue` |
| `ir_fold.h:2106–2233` | `NEG` of a pointer's offset has the type of the pointer; `ir_fold.h:741` asserts otherwise | `NegatesOffset`; `Wanted <- Pointer` |
| `ir_fold.h` `ADD_OV(ADD_OV(x, y), 0)` | the check of an addition of nothing becomes the check of its operand | `Unchecks`; `Wanted <- Uncheck` |
| `ir.c:2316` | the walk of a STORE does not look at VLOAD and VSTORE of a variable whose address it has | `NamedBetween` in `MemForward` |

In the x86-64 back-end the following were met, the first five confirmed with a debug
build.  `MCX86` has no functions of these shapes; adding one to `Progs` makes `x86` fail:

| Where | What happens | Fails |
|---|---|---|
| `ir_x86.dasc:8546` | a zero extension from 4 to 8 bytes in the same register emits nothing (*"may be not always safe ???"*); for `AND(x, 0xffffffff)` of a 64-bit `x` the upper half stays | `ValuesInPlace` |
| `ir_x86.dasc:3627–3648` | a guard takes the flags of an operation that precedes the *comparison*; `IF` also asks that the comparison precedes the branch (`:3403`), a guard does not | `OutcomeRight` |
| `ir_x86.dasc:7527–7537` | the comparison of the previous branch is not repeated although instructions of the block in between set flags | `OutcomeRight` |
| `ir_x86.dasc:2193` | *"a naive check if there is a STORE or CALL between"*: a comparison that is moved to the store of its result takes the load fused into it along, past a store to the same address | `OutcomeRight` |
| `ir_x86.dasc:5663–5693` | a mask of 32 bits is accepted as an immediate for an 8-byte location, but the processor extends it by its sign | `OutcomeRight` |
| `ir_x86.dasc:6323–6351` | a spilled `BOOL` result of a logical negation is stored with the width of the operand | `OutcomeRight` |
| `ir_x86.dasc:5196` | `MIN(x, x)` and `MAX(x, x)` return before a spilled result is stored (folding removes them) | `ValuesInPlace` |
| `ir_x86.dasc:12004` | `GUARD_NOT` of an unsigned comparison with 0 is treated as `GUARD` (folding removes it) | `OutcomeRight` |

## 8. What is not modelled

- *Control-flow builder*: what it leaves is the initial state of the other models.
- In `IterOpt`: the promotion of types and of loop variables (`ir_sccp.c` 1540–2392,
  3481–3541), conditions made of casts and bit tests (3547–3553, 3581–3691), the rules that
  make AND, OR, NOT or a conversion of a COND, the RLOAD and OVERFLOW
  exceptions for COND (2872–2880) and `ir_iter_cleanup`.  All values have one type.
  Memory accesses are in `MemForward`.
- In `BuildCfg`: `ENTRY` blocks and block addresses.
- In `Gcm` and `BlockLayout`: `SWITCH`, the alignment of loops, exact
  frequencies, and the second order of blocks that a debugging flag prints.
- In `Mem2ssa`: the iterative pass that tidies up behind it, and the order that the last
  swap of `ir_mem2ssa_sort` leaves among dead uses.
- In `Fold`: the floating point rules, symbolic constants (addresses of functions and
  strings), `BSWAP`, `CTPOP` and the other bit counts, the 16-bit types (their rules are
  those of 8 bits), and the search for a common subexpression that follows `EMIT`.
  Constants of 8 bits that a rule leaves with bits above their width (`ir_fold.h:381`)
  are cut before the next rule sees them.
- In the x86-64 back-end: floating point, 2-byte types, symbols, `BSWAP`, bit counts
  without BMI, calls, `SWITCH`, `ALLOCA` of variable size, variable arguments, entry and
  exit of functions, the 32-bit target, and the encoding of instructions, which DynASM
  does.  Memory consists of cells; the fusion of a store with the spill slot it writes
  (`ir_is_same_spill_slot`) needs the layout of the frame and is left out.  The selection
  is the one under `IR_OPT_CODEGEN`; there are no PHIs, so that a guard at the end of a
  block need not look at `IR_BB_DESSA_MOVES` (`ir_x86.dasc:11621`).  The AArch64
  back-end is a second set of templates of the same kind.
- In the allocator: the second register class (a copy of the first), `RLOAD` and bound
  variables, calls with arguments on the stack, `SNAPSHOT` and its spill stores, entries
  from the interpreter (OSR), and the slots of `VAR` and `ALLOCA` with the
  rematerialisation of their addresses.
- *Text and LLVM front-ends, C and LLVM back-ends, dumps, GDB and perf interfaces,
  disassembler, driver, executable memory*: input and output, or system calls.
- In `MemForward`: RLOAD/RSTORE (whether a register is assigned again is not visible in
  the graph), the stop at `limit` (addresses are parameters there), VA lists,
  several variables; merges and loop headers stop the walks as a call does.
- In `Sccp`: the other operators and calls (they are `LOAD`-like: control with
  a value, never folded); `iter` records what is handed on to the next pass.
- The 16-bit `prev_insn_offset` of the CSE chains (`ir.c:1045`) and the shared bits of
  `flags2` (`ir_private.h:1033`).

## 9. What could follow

1. Graph edits (`ir_replace`, `ir_update_op`, `ir_bind`) over `UseListStore`; the search
   for common subexpressions through the 16-bit chains.
2. The builder's lists of open ENDs, MERGE and PHI inputs.
3. `ir_gen_dessa_moves`, the third algorithm for parallel moves.
4. The promotion of loop variables, against the interpreter of `Sccp`.
5. Containers: hash tables with resizing, the string table.
6. Proofs: that a fixed point of the dominator equations is reached from above; that the
   alias test is sound for every placement (a lemma about sums of terms); that a block order
   made by joining chains is a permutation.
