----------------------------- MODULE InsnArray ----------------------------
(***************************************************************************)
(* The two-way growable array behind ctx->ir_base, and the use_lists[]     *)
(* table that grows with it.                                               *)
(*                                                                         *)
(* One buffer holds both halves; ir_base points consts_limit entries into  *)
(* it.  Entry "ref" is buf[ir_base + ref], ref < 0 for constants.  Growing *)
(* the lower half slides everything up, growing the upper half extends the *)
(* buffer, truncating copies the used middle into a new buffer.            *)
(***************************************************************************)
EXTENDS Integers

CONSTANTS
  Insn,         \* what an entry can hold
  Junk,         \* what malloc and realloc leave in fresh memory
  CHUNK,        \* 1024 * 4: where doubling turns into linear growth
  MAX_COUNT,    \* bound: most entries in either half
  MAX_N         \* bound: most entries one ir_emit_N takes

ASSUME JunkAssumption  == Junk \notin Insn
ASSUME ChunkAssumption == CHUNK \in Nat \ {0}
ASSUME CountAssumption == MAX_COUNT \in Nat /\ MAX_N \in Nat

VARIABLES
  buf,            \* the allocated memory, indexed from 0
  consts_limit,   \* also the index of ir_base[0]
  insns_limit,
  consts_count,   \* the constants are the references -(consts_count - 1) .. -1
  insns_count,    \* the instructions are the references 1 .. insns_count - 1
  use_counts      \* the counts of use_lists[], << >> while not built

arrayVars == <<buf, consts_limit, insns_limit, consts_count, insns_count, use_counts>>

IR_TRUE == -3
IR_CONSTS_LIMIT_MIN == -(IR_TRUE - 1)
IR_INSNS_LIMIT_MIN == 1

(* ir_mem_realloc to a larger size *)
Realloc(mem, old, size, fill) == [i \in 0 .. size - 1 |-> IF i < old THEN mem[i] ELSE fill]

(* ir_init: NOP, NULL, FALSE and TRUE fill the entries IR_TRUE .. 0 *)
ArrayInit ==
  /\ consts_limit \in IR_CONSTS_LIMIT_MIN .. IR_CONSTS_LIMIT_MIN + 1
  /\ insns_limit \in IR_INSNS_LIMIT_MIN .. IR_INSNS_LIMIT_MIN + 1
  /\ consts_count = IR_CONSTS_LIMIT_MIN
  /\ insns_count = 1
  /\ \E reserved \in Insn :
       buf = [i \in 0 .. consts_limit + insns_limit - 1 |->
                IF i - consts_limit \in IR_TRUE .. 0 THEN reserved ELSE Junk]
  /\ use_counts = << >>

Grown(limit) ==
  IF limit < CHUNK THEN limit * 2
  ELSE IF limit < CHUNK * 2 THEN CHUNK * 2
  ELSE limit + CHUNK

(* Mutant: the memmove forgets the entry that ir_base[0] occupies. *)
Slid_short(new_limit) ==
  [i \in 0 .. new_limit + insns_limit - 1 |->
     LET j == i - (new_limit - consts_limit)
     IN IF j \in 0 .. consts_limit + insns_count - 2 THEN buf[j]
        ELSE IF i < consts_limit + insns_limit THEN buf[i] ELSE Junk]

(* ir_grow_bottom: realloc, then memmove consts_limit + insns_count entries *)
(* up by the difference; the vacated low part keeps what it held           *)
Slid(new_limit) ==
  [i \in 0 .. new_limit + insns_limit - 1 |->
     LET j == i - (new_limit - consts_limit)
     IN IF j \in 0 .. consts_limit + insns_count - 1 THEN buf[j]
        ELSE IF i < consts_limit + insns_limit THEN buf[i] ELSE Junk]

(* ir_next_const, and the entry its caller fills in *)
NextConst(x) ==
  LET grow      == consts_count >= consts_limit
      new_limit == IF grow THEN Grown(consts_limit) ELSE consts_limit
      moved     == IF grow THEN Slid(new_limit) ELSE buf
  IN /\ consts_count < MAX_COUNT
     /\ consts_limit' = new_limit
     /\ buf' = [moved EXCEPT ![new_limit - consts_count] = x]
     /\ consts_count' = consts_count + 1
     /\ UNCHANGED <<insns_limit, insns_count, use_counts>>

(* Mutant: the limit is taken for the last valid reference. *)
NeedsTop_late(ref, limit) == ref > limit

(* The test before ir_grow_top *)
NeedsTop(ref, limit) == ref >= limit

(* The limit after the calls of ir_grow_top that reference ref requires;   *)
(* ir_next_insn makes at most one, ir_emit_N loops                         *)
TopLimit(ref) ==
  LET tries[k \in 0 .. MAX_N] ==
        IF k = 0 THEN insns_limit
        ELSE IF NeedsTop(ref, tries[k - 1]) THEN Grown(tries[k - 1]) ELSE tries[k - 1]
  IN tries[MAX_N]

(* Mutant: the memset of the grown use_lists[] is forgotten. *)
GrownUses_dirty(new_limit) ==
  Realloc(use_counts, insns_limit, new_limit, 1)

(* ir_grow_top: use_lists[] is reallocated to the new limit and zeroed     *)
(* from the old limit on                                                   *)
GrownUses(new_limit) == Realloc(use_counts, insns_limit, new_limit, 0)

(* ir_emit and ir_emit_N: n consecutive entries, all filled in *)
Emit(n, x) ==
  LET new_limit == TopLimit(insns_count + n - 1)
      grow      == new_limit # insns_limit
      moved     == IF grow THEN Realloc(buf, consts_limit + insns_limit, consts_limit + new_limit, Junk)
                           ELSE buf
  IN /\ insns_count + n <= MAX_COUNT
     /\ insns_limit' = new_limit
     /\ buf' = [i \in DOMAIN moved |->
                  IF i - consts_limit \in insns_count .. insns_count + n - 1 THEN x ELSE moved[i]]
     /\ insns_count' = insns_count + n
     /\ use_counts' = IF use_counts # << >> /\ grow THEN GrownUses(new_limit) ELSE use_counts
     /\ UNCHANGED <<consts_limit, consts_count>>

(* A write through ir_base[ref], such as ir_set_op *)
Set(ref, x) ==
  /\ ref \in 1 .. insns_count - 1
  /\ buf' = [buf EXCEPT ![consts_limit + ref] = x]
  /\ UNCHANGED <<consts_limit, insns_limit, consts_count, insns_count, use_counts>>

(* ir_truncate *)
Truncate ==
  /\ buf' = [i \in 0 .. consts_count + insns_count - 1 |-> buf[consts_limit - consts_count + i]]
  /\ consts_limit' = consts_count
  /\ insns_limit' = insns_count
  /\ UNCHANGED <<consts_count, insns_count, use_counts>>

(* ir_build_def_use_lists allocates use_lists[] by insns_limit, zeroed; the *)
(* references that have uses get a length                                  *)
BuildUses ==
  /\ use_counts = << >>
  /\ \E used \in SUBSET (1 .. insns_count - 1) :
       use_counts' = [i \in 0 .. insns_limit - 1 |-> IF i \in used THEN 1 ELSE 0]
  /\ UNCHANGED <<buf, consts_limit, insns_limit, consts_count, insns_count>>

ArrayNext ==
  \/ \E x \in Insn :
       \/ NextConst(x)
       \/ \E n \in 1 .. MAX_N : Emit(n, x)
       \/ \E ref \in 1 .. MAX_COUNT : Set(ref, x)
  \/ Truncate
  \/ BuildUses

ArraySpec == ArrayInit /\ [][ArrayNext]_arrayVars

---------------------------------------------------------------------------
(* The limits describe the buffer, and both counts stay within them. *)
ArrayTypeOK ==
  /\ consts_limit \in Nat /\ insns_limit \in Nat
  /\ consts_count \in Nat /\ insns_count \in Nat
  /\ consts_count <= consts_limit /\ insns_count <= insns_limit
  /\ buf \in [0 .. consts_limit + insns_limit - 1 -> Insn \cup {Junk}]

(* Once use lists exist, every instruction that can be emitted without     *)
(* growing has a list, and an instruction not yet emitted starts without   *)
(* uses: ir_use_list_add is called on fresh references.                    *)
FreshRefsUnused ==
  use_counts # << >> =>
    /\ 0 .. insns_limit - 1 \subseteq DOMAIN use_counts
    /\ \A ref \in insns_count .. insns_limit - 1 : use_counts[ref] = 0

(* The entries behind the references. *)
Consts == [i \in 1 .. consts_count - 1 |-> buf[consts_limit - i]]
Insns  == [i \in 1 .. insns_count - 1 |-> buf[consts_limit + i]]

TwoWay == INSTANCE TwoWayArray WITH consts <- Consts, insns <- Insns

(* A reference keeps denoting the entry it was handed out for, through     *)
(* every growth of either half and every truncation.                       *)
RefsStable == TwoWay!Spec
===========================================================================
