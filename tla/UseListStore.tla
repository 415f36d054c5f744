--------------------------- MODULE UseListStore ---------------------------
(***************************************************************************)
(* Storage of the def->use lists of an ir_ctx.                             *)
(*                                                                         *)
(* All lists share one growing array use_edges[]; use_lists[def] holds the *)
(* index of the first element (refs) and the length (count).  Removing     *)
(* leaves IR_UNUSED holes behind the list, adding takes the slot behind    *)
(* the list when it is a hole - whoever left it there - and moves the list *)
(* to the end of the array otherwise.                                      *)
(***************************************************************************)
EXTENDS Integers

CONSTANTS
  Ref,        \* the instructions that have a use list
  Use,        \* the instructions that appear in use lists
  PAGE,       \* array elements per allocation unit (4096 / sizeof(ir_ref))
  MAX_EDGES   \* bound: largest use_edges_count explored

ASSUME RefAssumption  == Ref \subseteq Nat \ {0}
ASSUME UseAssumption  == Use \subseteq Nat \ {0}
ASSUME PageAssumption == PAGE \in Nat \ {0}
ASSUME MaxAssumption  == MAX_EDGES \in Nat

VARIABLES
  use_lists,        \* [Ref -> [refs, count]]
  use_edges,        \* the elements 0 .. use_edges_count - 1
  use_edges_count,
  capacity,         \* elements the allocated buffer can hold
  base              \* flips whenever the buffer may have moved

vars == <<use_lists, use_edges, use_edges_count, capacity, base>>

IR_UNUSED == 0
Cell == Use \cup {IR_UNUSED}

(* The array indexes that list def occupies. *)
Slots(def) ==
  use_lists[def].refs .. use_lists[def].refs + use_lists[def].count - 1

(* The index just behind list def. *)
Behind(def) == use_lists[def].refs + use_lists[def].count

(* IR_ALIGNED_SIZE(count * sizeof(ir_ref), 4096), in elements *)
Aligned(count) == ((count + PAGE - 1) \div PAGE) * PAGE

---------------------------------------------------------------------------
(* What ir_build_def_use_lists leaves: the lists packed in the order of    *)
(* the definitions, without holes; an unused definition keeps the zeroes   *)
(* of ir_mem_calloc.                                                       *)
Packed(lists, edges, count) ==
  /\ \A d \in Ref :
       IF lists[d].count = 0 THEN lists[d].refs = 0
       ELSE lists[d].refs + lists[d].count <= count
  /\ \A c, d \in Ref :
       c < d /\ lists[c].count > 0 /\ lists[d].count > 0
         => lists[c].refs + lists[c].count <= lists[d].refs
  /\ \A i \in 0 .. count - 1 :
       /\ edges[i] \in Use
       /\ \E d \in Ref : lists[d].refs <= i /\ i < lists[d].refs + lists[d].count

Init ==
  /\ use_edges_count \in 0 .. MAX_EDGES
  /\ use_lists \in [Ref -> [refs : 0 .. use_edges_count, count : 0 .. use_edges_count]]
  /\ use_edges \in [0 .. use_edges_count - 1 -> Use]
  /\ Packed(use_lists, use_edges, use_edges_count)
  /\ capacity = Aligned(use_edges_count)
  /\ base = 0

---------------------------------------------------------------------------
(* Mutant: the slot behind the list is taken without looking at it. *)
AddInHole_unchecked(to, use) ==
  /\ Behind(to) < use_edges_count
  /\ use_edges' = [use_edges EXCEPT ![Behind(to)] = use]
  /\ use_lists' = [use_lists EXCEPT ![to].count = @ + 1]
  /\ UNCHANGED <<use_edges_count, capacity, base>>

(* ir_use_list_add: the slot behind the list is a hole *)
AddInHole(to, use) ==
  /\ Behind(to) < use_edges_count
  /\ use_edges[Behind(to)] = IR_UNUSED
  /\ use_edges' = [use_edges EXCEPT ![Behind(to)] = use]
  /\ use_lists' = [use_lists EXCEPT ![to].count = @ + 1]
  /\ UNCHANGED <<use_edges_count, capacity, base>>

NoHole(to) ==
  ~(Behind(to) < use_edges_count /\ use_edges[Behind(to)] = IR_UNUSED)

(* Mutant: the projected size forgets the new element. *)
Grow_short(to) ==
  LET old_size == Aligned(use_edges_count)
      new_size == Aligned(use_edges_count + use_lists[to].count)
  IN IF old_size < new_size
       THEN capacity' = new_size /\ base' = 1 - base
       ELSE UNCHANGED <<capacity, base>>

(* The reallocation test made before anything is written: room for a moved *)
(* copy of the list, whether or not the list will have to move.            *)
Grow(to) ==
  LET old_size == Aligned(use_edges_count)
      new_size == Aligned(use_edges_count + use_lists[to].count + 1)
  IN IF old_size < new_size
       THEN capacity' = new_size /\ base' = 1 - base
       ELSE UNCHANGED <<capacity, base>>

(* ir_use_list_add: the list is the last one, extend it in place *)
AddAtEnd(to, use) ==
  /\ NoHole(to)
  /\ Behind(to) = use_edges_count
  /\ use_edges_count < MAX_EDGES
  /\ Grow(to)
  /\ use_edges' = [i \in 0 .. use_edges_count |->
                     IF i = use_edges_count THEN use ELSE use_edges[i]]
  /\ use_lists' = [use_lists EXCEPT ![to].count = @ + 1]
  /\ use_edges_count' = use_edges_count + 1

(* ir_use_list_add: move the list to the end; the old copy stays behind *)
AddMoved(to, use) ==
  LET old == use_lists[to]
      n   == use_edges_count
  IN /\ NoHole(to)
     /\ Behind(to) # n
     /\ n + old.count + 1 <= MAX_EDGES
     /\ Grow(to)
     /\ use_edges' = [i \in 0 .. n + old.count |->
                        IF i < n THEN use_edges[i]
                        ELSE IF i = n + old.count THEN use
                        ELSE use_edges[old.refs + (i - n)]]
     /\ use_lists' = [use_lists EXCEPT ![to] = [refs |-> n, count |-> old.count + 1]]
     /\ use_edges_count' = n + old.count + 1

(* Mutant: the last element fills the gap, as in ir_list_del. *)
RemoveOne_swapped(from, use) ==
  \E k \in Slots(from) :
    /\ use_edges[k] = use
    /\ \A i \in Slots(from) : i < k => use_edges[i] # use
    /\ use_edges' = [use_edges EXCEPT ![k] = use_edges[Behind(from) - 1],
                                      ![Behind(from) - 1] = IR_UNUSED]
    /\ use_lists' = [use_lists EXCEPT ![from].count = @ - 1]
    /\ UNCHANGED <<use_edges_count, capacity, base>>

(* ir_use_list_remove_one: close the gap of the first occurrence *)
RemoveOne(from, use) ==
  \E k \in Slots(from) :
    /\ use_edges[k] = use
    /\ \A i \in Slots(from) : i < k => use_edges[i] # use
    /\ use_edges' = [i \in 0 .. use_edges_count - 1 |->
                       IF i \notin Slots(from) \/ i < k THEN use_edges[i]
                       ELSE IF i = Behind(from) - 1 THEN IR_UNUSED
                       ELSE use_edges[i + 1]]
    /\ use_lists' = [use_lists EXCEPT ![from].count = @ - 1]
    /\ UNCHANGED <<use_edges_count, capacity, base>>

(* ir_use_list_remove_all: compact the elements to keep (pos enumerates    *)
(* their slots), then clear the rest                                       *)
RemoveAll(from, use) ==
  LET l == use_lists[from]
  IN \E m \in 0 .. l.count : \E pos \in [1 .. m -> Slots(from)] :
       /\ \A i, j \in 1 .. m : i < j => pos[i] < pos[j]
       /\ \A k \in Slots(from) : use_edges[k] # use <=> \E i \in 1 .. m : pos[i] = k
       /\ use_edges' = [i \in 0 .. use_edges_count - 1 |->
                          IF i \notin Slots(from) THEN use_edges[i]
                          ELSE IF i < l.refs + m THEN use_edges[pos[i - l.refs + 1]]
                          ELSE IR_UNUSED]
       /\ use_lists' = [use_lists EXCEPT ![from].count = m]
       /\ UNCHANGED <<use_edges_count, capacity, base>>

(* ir_use_list_replace_one: overwrite the first occurrence *)
ReplaceOne(ref, use, new_use) ==
  \E k \in Slots(ref) :
    /\ use_edges[k] = use
    /\ \A i \in Slots(ref) : i < k => use_edges[i] # use
    /\ use_edges' = [use_edges EXCEPT ![k] = new_use]
    /\ UNCHANGED <<use_lists, use_edges_count, capacity, base>>

(* ir_use_list_replace_all *)
ReplaceAll(ref, use, new_use) ==
  /\ use_edges' = [i \in 0 .. use_edges_count - 1 |->
                     IF i \in Slots(ref) /\ use_edges[i] = use
                     THEN new_use ELSE use_edges[i]]
  /\ UNCHANGED <<use_lists, use_edges_count, capacity, base>>

(* CLEAR_USES: forget the list, the slots keep what they held *)
ClearUses(ref) ==
  /\ use_lists' = [use_lists EXCEPT ![ref].count = 0]
  /\ UNCHANGED <<use_edges, use_edges_count, capacity, base>>

Next ==
  \E d \in Ref :
    \/ \E u \in Use : AddInHole(d, u) \/ AddAtEnd(d, u) \/ AddMoved(d, u)
    \/ \E u \in Use : RemoveOne(d, u) \/ RemoveAll(d, u)
    \/ \E u, v \in Use : ReplaceOne(d, u, v) \/ ReplaceAll(d, u, v)
    \/ ClearUses(d)

Spec == Init /\ [][Next]_vars

---------------------------------------------------------------------------
(* The shapes of use_lists[], use_edges[] and of the buffer's bookkeeping. *)
TypeOK ==
  /\ use_edges_count \in Nat
  /\ use_lists \in [Ref -> [refs : Nat, count : Nat]]
  /\ use_edges \in [0 .. use_edges_count - 1 -> Cell]
  /\ capacity \in Nat
  /\ base \in {0, 1}

(* No two lists share an element of use_edges[], although ir_use_list_add  *)
(* takes any hole behind a list, including one that another list left.     *)
Disjoint ==
  \A c, d \in Ref : c # d => Slots(c) \cap Slots(d) = {}

(* Every element of a list lies below use_edges_count and is a use, never  *)
(* IR_UNUSED: the test for a hole in ir_use_list_add cannot hit a live     *)
(* element.                                                                *)
Filled ==
  \A d \in Ref : \A i \in Slots(d) : i < use_edges_count /\ use_edges[i] \in Use

(* The elements in use fit the buffer that ir_use_list_add reallocates     *)
(* only when the page count of the projected size grows.                   *)
Fits == use_edges_count <= capacity

(* The lists as their readers see them. *)
Content ==
  [d \in Ref |-> [i \in 1 .. use_lists[d].count |-> use_edges[use_lists[d].refs + i - 1]]]

Abstract == INSTANCE UseLists WITH uses <- Content

(* The shared array behaves as independent sequences of uses: every        *)
(* ir_use_list_* operation changes the one list it is called for, as       *)
(* UseLists says, and no other.                                            *)
ImplementsUseLists == Abstract!Spec
===========================================================================
