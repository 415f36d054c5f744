----------------------------- MODULE ConstPool ----------------------------
(***************************************************************************)
(* Hash-consing of constants: ir_const_ex, ir_const_hash_rehash and        *)
(* ir_unique_const_addr.                                                   *)
(*                                                                         *)
(* Constant reference -i is the number i.  The walk along a chain and the  *)
(* rehash loop are one step per iteration, so that a chain which does not  *)
(* end, or which misses a constant, shows as a behaviour.                  *)
(***************************************************************************)
EXTENDS Integers

CONSTANTS
  Key,          \* pairs of a value and an optx that do not denote TRUE, FALSE or NULL
  AddrKey,      \* the keys ir_unique_const_addr can make
  Hash,         \* [Key -> Nat], ir_const_hash before masking
  HASH_SIZE,    \* IR_CONST_HASH_SIZE
  MAX_CONSTS    \* bound: largest const_count explored

ASSUME AddrAssumption      == AddrKey \subseteq Key
ASSUME HashAssumption      == Hash \in [Key -> Nat]
ASSUME SizeAssumption      == HASH_SIZE \in Nat \ {0}
ASSUME MaxConstsAssumption == MAX_CONSTS \in Nat

VARIABLES
  consts,           \* the constants made so far: [key, prev_const]
  const_count,      \* ctx->consts_count
  const_hash,       \* newest constant of each chain, 0 if none
  const_hash_mask,
  call,             \* the running ir_const_ex: [at, key, ref]
  unique,           \* the constants made by ir_unique_const_addr
  chain             \* auxiliary: the constants a chain was made to hold

poolVars == <<consts, const_count, const_hash, const_hash_mask, call, unique, chain>>

NoConst == 0        \* IR_UNUSED
First == 4          \* -(IR_TRUE - 1)
Made == First .. const_count - 1

Bucket(key) == Hash[key] % (const_hash_mask + 1)

PoolInit ==
  /\ consts = [i \in First .. First - 1 |-> 0]
  /\ const_count = First
  /\ const_hash_mask = HASH_SIZE - 1
  /\ const_hash = [b \in 0 .. HASH_SIZE - 1 |-> NoConst]
  /\ call = [at |-> "idle", ref |-> NoConst]
  /\ unique = {}
  /\ chain = {}

(* ir_next_const and the entry filled in by its caller *)
Added(entry) ==
  [i \in First .. const_count |-> IF i = const_count THEN entry ELSE consts[i]]

---------------------------------------------------------------------------
(* ir_unique_const_addr *)
UniqueConstAddr(key) ==
  /\ call.at = "idle"
  /\ const_count < MAX_CONSTS
  /\ consts' = Added([key |-> key, prev_const |-> NoConst])
  /\ const_count' = const_count + 1
  /\ unique' = unique \cup {const_count}
  /\ UNCHANGED <<const_hash, const_hash_mask, call, chain>>

(* ir_const_ex is called, past the special cases *)
Call(key) ==
  /\ call.at = "idle"
  /\ const_count < MAX_CONSTS
  /\ call' = [at |-> "walk", key |-> key, ref |-> const_hash[Bucket(key)]]
  /\ UNCHANGED <<consts, const_count, const_hash, const_hash_mask, unique, chain>>

(* Mutant: the walk starts over at the head of the chain. *)
Follow_restart ==
  /\ call.at = "walk"
  /\ call.ref # NoConst
  /\ consts[call.ref].key # call.key
  /\ call' = [call EXCEPT !.ref = const_hash[Bucket(call.key)]]
  /\ UNCHANGED <<consts, const_count, const_hash, const_hash_mask, unique, chain>>

(* the constant at hand is another one: follow prev_const *)
Follow ==
  /\ call.at = "walk"
  /\ call.ref # NoConst
  /\ consts[call.ref].key # call.key
  /\ call' = [call EXCEPT !.ref = consts[call.ref].prev_const]
  /\ UNCHANGED <<consts, const_count, const_hash, const_hash_mask, unique, chain>>

(* the constant exists: return it *)
Hit ==
  /\ call.at = "walk"
  /\ call.ref # NoConst
  /\ consts[call.ref].key = call.key
  /\ call' = [at |-> "idle", ref |-> call.ref]
  /\ UNCHANGED <<consts, const_count, const_hash, const_hash_mask, unique, chain>>

(* the end of ir_const_ex: a new constant becomes the head of its chain *)
Insert ==
  LET b == Bucket(call.key)
  IN /\ consts' = Added([key |-> call.key, prev_const |-> const_hash[b]])
     /\ const_hash' = [const_hash EXCEPT ![b] = const_count]
     /\ const_count' = const_count + 1
     /\ chain' = chain \cup {const_count}
     /\ call' = [at |-> "idle", ref |-> const_count]
     /\ UNCHANGED <<const_hash_mask, unique>>

(* Mutant: the walk gives up after the first constant of the chain. *)
Miss_early ==
  /\ call.at = "walk"
  /\ IF call.ref = NoConst THEN TRUE ELSE consts[call.ref].key # call.key
  /\ const_count <= const_hash_mask
  /\ Insert

(* the chain ended, and the table need not grow *)
Miss ==
  /\ call.at = "walk"
  /\ call.ref = NoConst
  /\ const_count <= const_hash_mask
  /\ Insert

(* ir_const_hash_rehash starts: an empty table of twice the size *)
Rehash ==
  /\ call.at = "walk"
  /\ call.ref = NoConst
  /\ const_count > const_hash_mask
  /\ const_hash_mask' = (const_hash_mask + 1) * 2 - 1
  /\ const_hash' = [b \in 0 .. const_hash_mask' |-> NoConst]
  /\ chain' = {}
  /\ call' = [call EXCEPT !.at = "rehash", !.ref = First]
  /\ UNCHANGED <<consts, const_count, unique>>

(* one iteration of the rehash loop *)
Relink ==
  LET ref == call.ref
      b   == Bucket(consts[ref].key)
  IN /\ call.at = "rehash"
     /\ ref < const_count
     /\ consts' = [consts EXCEPT ![ref].prev_const = const_hash[b]]
     /\ const_hash' = [const_hash EXCEPT ![b] = ref]
     /\ chain' = chain \cup {ref}
     /\ call' = [call EXCEPT !.ref = ref + 1]
     /\ UNCHANGED <<const_count, const_hash_mask, unique>>

(* the loop is over: insert into the new table *)
Rehashed ==
  /\ call.at = "rehash"
  /\ call.ref = const_count
  /\ Insert

Step == Follow \/ Hit \/ Miss \/ Rehash \/ Relink \/ Rehashed

PoolNext ==
  \/ \E key \in Key : Call(key)
  \/ \E key \in AddrKey : UniqueConstAddr(key)
  \/ Step

PoolSpec == PoolInit /\ [][PoolNext]_poolVars

(* A call runs to its end: the code is sequential. *)
FairPoolSpec == PoolSpec /\ WF_poolVars(Step)

---------------------------------------------------------------------------
(* The shapes of the table, of the constants and of the running call. *)
PoolTypeOK ==
  /\ const_count \in Nat /\ First <= const_count
  /\ consts \in [Made -> [key : Key, prev_const : Nat]]
  /\ const_hash_mask \in Nat
  /\ const_hash \in [0 .. const_hash_mask -> Nat]
  /\ call \in [at : {"idle"}, ref : Nat] \cup [at : {"walk", "rehash"}, key : Key, ref : Nat]
  /\ unique \subseteq Made
  /\ chain \subseteq Made

(* ir_const_ex never makes a constant that it has made before, across any  *)
(* number of rehashes: no two constants made by it are equal.  Folding and *)
(* CSE compare constants by reference.  It says nothing of the constants   *)
(* of ir_unique_const_addr, and so not that two calls return the same      *)
(* reference: a rehash links unique constants into the chains, and a call  *)
(* behind it returns the newest equal one (see UniqueOutsideChains).       *)
NoConstMadeTwice ==
  \A i, j \in Made \ unique : consts[i].key = consts[j].key => i = j

(* A chain holds constants of one bucket, newest first, and all of them:   *)
(* the head is the newest and prev_const the next older one.               *)
ChainsComplete ==
  /\ \A b \in 0 .. const_hash_mask :
       /\ const_hash[b] # NoConst =>
            const_hash[b] \in chain /\ Bucket(consts[const_hash[b]].key) = b
       /\ \A i \in chain : Bucket(consts[i].key) = b => i <= const_hash[b]
  /\ \A i \in chain :
       LET p == consts[i].prev_const
       IN /\ p # NoConst =>
               p \in chain /\ p < i /\ Bucket(consts[p].key) = Bucket(consts[i].key)
          /\ \A j \in chain :
               j < i /\ Bucket(consts[j].key) = Bucket(consts[i].key) => j <= p

(* Every call of ir_const_ex returns: no chain loops, and rehashing ends. *)
CallReturns == (call.at # "idle") ~> (call.at = "idle")

(* The comment in ir_unique_const_addr, "don't insert into constants       *)
(* chain": no chain leads to a unique constant.                            *)
UniqueOutsideChains ==
  \A u \in unique :
    /\ \A b \in 0 .. const_hash_mask : const_hash[b] # u
    /\ \A i \in Made : consts[i].prev_const # u
===========================================================================
