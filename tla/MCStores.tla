------------------------------ MODULE MCStores ----------------------------
(* The three stores of an ir_ctx: the use lists, the array of constants    *)
(* and instructions, and the hash table of the constants.  The modules     *)
(* share no variable, so a behaviour works on one of them while the others *)
(* rest as ir_init may leave them; each property speaks of one store.      *)
(*                                                                         *)
(* Three constants, two of which share their bucket in the tables of 4 and *)
(* 8 entries and part in the table of 16.                                  *)
EXTENDS UseListStore, InsnArray, ConstPool

CONSTANTS k1, k2, k3

MCKey == {k1, k2, k3}
MCAddrKey == {k1, k2}
MCHash == [k \in {k1, k2, k3} |-> IF k = k1 THEN 1 ELSE IF k = k2 THEN 9 ELSE 2]

VARIABLE store      \* the one the behaviour works on

storeVars == <<store, vars, arrayVars, poolVars>>

UsesRest == use_edges_count = 0
ArrayRest ==
  /\ consts_limit = IR_CONSTS_LIMIT_MIN /\ insns_limit = IR_INSNS_LIMIT_MIN
  /\ buf[consts_limit] = CHOOSE x \in Insn : TRUE

StoresInit ==
  /\ store \in {"uses", "array", "pool"}
  /\ Init /\ ArrayInit /\ PoolInit
  /\ store # "uses" => UsesRest
  /\ store # "array" => ArrayRest

UsesStep  == store = "uses" /\ Next /\ UNCHANGED <<store, arrayVars, poolVars>>
ArrayStep == store = "array" /\ ArrayNext /\ UNCHANGED <<store, vars, poolVars>>
PoolStep  == store = "pool" /\ PoolNext /\ UNCHANGED <<store, vars, arrayVars>>

(* The bound on the number of constants is reached. *)
PoolFull ==
  store = "pool" /\ call.at = "idle" /\ const_count = MAX_CONSTS /\ UNCHANGED storeVars

StoresNext == UsesStep \/ ArrayStep \/ PoolStep \/ PoolFull

(* A call of ir_const_ex runs to its end: the code is sequential. *)
StoresSpec ==
  /\ StoresInit /\ [][StoresNext]_storeVars
  /\ WF_storeVars(store = "pool" /\ Step /\ UNCHANGED <<store, vars, arrayVars>>)
===========================================================================
