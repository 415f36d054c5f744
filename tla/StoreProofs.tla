---------------------------- MODULE StoreProofs ---------------------------
(***************************************************************************)
(* The two linked stores of an ir_ctx, the use lists packed into use_edges *)
(* and the hash chains of the constants.                                   *)
(*                                                                         *)
(* For any set of instructions and any bound: the lists of UseListStore    *)
(* never overlap, never hold IR_UNUSED, and implement independent          *)
(* sequences.                                                              *)
(*                                                                         *)
(* For any constants, any hash function and any initial table size:        *)
(* ir_const_ex never makes the same constant twice.                        *)
(***************************************************************************)
EXTENDS UseListStore, ConstPool, Sequences, TLAPS

---------------------------------------------------------------------------
(* The constant pool *)

(* What the running call has established.  A walk has passed no constant   *)
(* equal to its key; a rehash runs only when there is none, and has        *)
(* relinked exactly the constants before its position.  Between rehashes   *)
(* every constant that is not unique is in its chain.                      *)
CallInv ==
  /\ call.at # "rehash" => Made \ unique \subseteq chain
  /\ call.at = "walk" =>
       /\ call.ref # NoConst =>
            call.ref \in chain /\ Bucket(consts[call.ref].key) = Bucket(call.key)
       /\ \A i \in chain : consts[i].key = call.key => i <= call.ref
  /\ call.at = "rehash" =>
       /\ First <= call.ref /\ call.ref <= const_count
       /\ chain = First .. call.ref - 1
       /\ \A i \in Made \ unique : consts[i].key # call.key

PoolInv == PoolTypeOK /\ ChainsComplete /\ CallInv /\ NoConstMadeTwice

LEMMA ModRange ==
  ASSUME NEW a \in Nat, NEW m \in Nat
  PROVE  a % (m + 1) \in 0 .. m
OBVIOUS

LEMMA BucketRange ==
  ASSUME PoolTypeOK, NEW key \in Key
  PROVE  Bucket(key) \in 0 .. const_hash_mask
BY Zenon, HashAssumption, ModRange DEF PoolTypeOK, Bucket

LEMMA InitPoolInv == PoolInit => PoolInv
<1> SUFFICES ASSUME PoolInit PROVE PoolInv
  OBVIOUS
<1> USE SizeAssumption DEF PoolInit, Made, First, NoConst
<1>1. PoolTypeOK
  BY DEF PoolTypeOK
<1>2. ChainsComplete
  BY DEF ChainsComplete
<1>3. CallInv /\ NoConstMadeTwice
  BY DEF CallInv, NoConstMadeTwice
<1> QED BY <1>1, <1>2, <1>3 DEF PoolInv

(* A new entry leaves the older ones alone. *)
LEMMA AddedEntries ==
  ASSUME PoolTypeOK, NEW key \in Key, NEW p \in Nat,
         consts' = Added([key |-> key, prev_const |-> p]), const_count' = const_count + 1
  PROVE  /\ consts' \in [Made' -> [key : Key, prev_const : Nat]]
         /\ \A i \in Made : consts'[i] = consts[i]
         /\ consts'[const_count].key = key /\ consts'[const_count].prev_const = p
         /\ Made' = Made \cup {const_count} /\ const_count \notin Made
         /\ const_count' \in Nat /\ First <= const_count'
BY DEF PoolTypeOK, Added, Made, First

LEMMA UniqueKeepsPoolInv ==
  ASSUME PoolInv, NEW key \in AddrKey, UniqueConstAddr(key)
  PROVE  PoolInv'
<1> USE DEF PoolInv
<1>0. key \in Key
  BY AddrAssumption
<1>1. /\ consts' \in [Made' -> [key : Key, prev_const : Nat]]
      /\ \A i \in Made : consts'[i] = consts[i]
      /\ consts'[const_count].key = key
      /\ Made' = Made \cup {const_count} /\ const_count \notin Made
      /\ const_count' \in Nat /\ First <= const_count'
  BY <1>0, AddedEntries DEF UniqueConstAddr, NoConst
<1>2. UNCHANGED <<const_hash, const_hash_mask, call, chain>> /\ unique' = unique \cup {const_count}
      /\ call.at = "idle"
  BY DEF UniqueConstAddr
<1>3. PoolTypeOK'
  BY <1>1, <1>2 DEF PoolTypeOK
<1>4. chain \subseteq Made /\ \A i \in chain : consts'[i] = consts[i]
  BY <1>1 DEF PoolTypeOK
<1>5. ChainsComplete'
  BY ZenonT(60), <1>2, <1>4 DEF ChainsComplete, Bucket
<1>6. CallInv'
  BY <1>1, <1>2 DEF CallInv
<1>7. NoConstMadeTwice'
  BY <1>1, <1>2 DEF NoConstMadeTwice
<1> QED BY <1>3, <1>5, <1>6, <1>7

LEMMA CallKeepsPoolInv ==
  ASSUME PoolInv, NEW key \in Key, Call(key)
  PROVE  PoolInv'
<1> USE DEF PoolInv
<1>1. UNCHANGED <<consts, const_count, const_hash, const_hash_mask, unique, chain>>
      /\ call' = [at |-> "walk", key |-> key, ref |-> const_hash[Bucket(key)]]
      /\ call.at = "idle"
  BY DEF Call
<1>2. Bucket(key) \in 0 .. const_hash_mask
  BY BucketRange
<1>3. const_hash[Bucket(key)] \in Nat
  BY <1>2 DEF PoolTypeOK
<1>4. PoolTypeOK'
  BY <1>1, <1>3 DEF PoolTypeOK, Made
<1>5. ChainsComplete' /\ NoConstMadeTwice'
  BY Zenon, <1>1 DEF ChainsComplete, NoConstMadeTwice, Made, Bucket
<1>6. CallInv'
  BY Zenon, <1>1, <1>2 DEF CallInv, ChainsComplete, Made, Bucket
<1> QED BY <1>4, <1>5, <1>6

LEMMA FollowKeepsPoolInv ==
  ASSUME PoolInv, Follow
  PROVE  PoolInv'
<1> USE DEF PoolInv
<1> DEFINE p == consts[call.ref].prev_const
<1>1. /\ UNCHANGED <<consts, const_count, const_hash, const_hash_mask, unique, chain>>
      /\ call' = [call EXCEPT !.ref = p]
      /\ call.at = "walk" /\ call.ref # NoConst /\ consts[call.ref].key # call.key
  BY DEF Follow
<1>2. /\ call \in [at : {"walk", "rehash"}, key : Key, ref : Nat]
      /\ call.ref \in chain /\ call.ref \in Made
      /\ Bucket(consts[call.ref].key) = Bucket(call.key)
      /\ \A i \in chain : consts[i].key = call.key => i <= call.ref
  BY <1>1 DEF PoolTypeOK, CallInv
<1>3. p \in Nat
  BY <1>2 DEF PoolTypeOK
<1>4. call'.at = "walk" /\ call'.key = call.key /\ call'.ref = p
      /\ call' \in [at : {"walk", "rehash"}, key : Key, ref : Nat]
  BY <1>1, <1>2, <1>3
<1>5. PoolTypeOK'
  BY <1>1, <1>4 DEF PoolTypeOK, Made
<1>6. ChainsComplete' /\ NoConstMadeTwice'
  BY Zenon, <1>1 DEF ChainsComplete, NoConstMadeTwice, Made, Bucket
<1>7. p # NoConst => p \in chain /\ Bucket(consts[p].key) = Bucket(call.key)
  BY <1>2 DEF ChainsComplete
<1>8. ASSUME NEW i \in chain, consts[i].key = call.key PROVE i <= p
  <2>1. i <= call.ref /\ i # call.ref
    BY <1>1, <1>2, <1>8
  <2>2. i < call.ref
    BY <2>1, <1>2 DEF PoolTypeOK, Made
  <2> QED BY <1>2, <1>8, <2>2 DEF ChainsComplete
<1>9. CallInv'
  BY Zenon, <1>1, <1>4, <1>7, <1>8 DEF CallInv, Made, Bucket
<1> QED BY <1>5, <1>6, <1>9

LEMMA HitKeepsPoolInv ==
  ASSUME PoolInv, Hit
  PROVE  PoolInv'
<1> USE DEF PoolInv
<1>1. UNCHANGED <<consts, const_count, const_hash, const_hash_mask, unique, chain>>
      /\ call' = [at |-> "idle", ref |-> call.ref] /\ call.at = "walk"
  BY DEF Hit
<1>2. PoolTypeOK'
  BY <1>1 DEF PoolTypeOK, Made
<1>3. ChainsComplete' /\ NoConstMadeTwice'
  BY Zenon, <1>1 DEF ChainsComplete, NoConstMadeTwice, Made, Bucket
<1>4. CallInv'
  BY <1>1 DEF CallInv, Made
<1> QED BY <1>2, <1>3, <1>4

(* Insert is reached when no constant of the table equals the key. *)
LEMMA InsertKeepsPoolInv ==
  ASSUME PoolInv, Insert, call.at # "idle",
         Made \ unique \subseteq chain,
         \A i \in Made \ unique : consts[i].key # call.key
  PROVE  PoolInv'
<1> USE DEF PoolInv
<1> DEFINE b == Bucket(call.key)
           h == const_hash[b]
           n == const_count
<1>1. /\ consts' = Added([key |-> call.key, prev_const |-> h])
      /\ const_hash' = [const_hash EXCEPT ![b] = n]
      /\ const_count' = n + 1
      /\ chain' = chain \cup {n}
      /\ call' = [at |-> "idle", ref |-> n]
      /\ const_hash_mask' = const_hash_mask /\ unique' = unique
  BY DEF Insert
<1>2. call.key \in Key
  BY DEF PoolTypeOK
<1>3. b \in 0 .. const_hash_mask
  BY <1>2, BucketRange
<1>4. h \in Nat /\ n \in Nat
  BY <1>3 DEF PoolTypeOK
<1>5. /\ consts' \in [Made' -> [key : Key, prev_const : Nat]]
      /\ \A i \in Made : consts'[i] = consts[i]
      /\ consts'[n].key = call.key /\ consts'[n].prev_const = h
      /\ Made' = Made \cup {n} /\ n \notin Made
      /\ const_count' \in Nat /\ First <= const_count'
  BY <1>1, <1>2, <1>4, AddedEntries
<1>6. const_hash' \in [0 .. const_hash_mask -> Nat]
  BY Zenon, <1>1, <1>4 DEF PoolTypeOK
<1>7. PoolTypeOK'
  BY Zenon, <1>1, <1>4, <1>5, <1>6 DEF PoolTypeOK
<1>8. \A i \in chain : i \in Made /\ i < n /\ i \in Nat /\ consts'[i] = consts[i]
  BY SMTT(60), <1>1, <1>5 DEF PoolTypeOK, Made, First
<1>9. ChainsComplete'
  <2>1. ASSUME NEW c \in 0 .. const_hash_mask
        PROVE  /\ const_hash'[c] # NoConst =>
                    /\ const_hash'[c] \in chain'
                    /\ Bucket(consts'[const_hash'[c]].key) = c
               /\ \A i \in chain' : Bucket(consts'[i].key) = c => i <= const_hash'[c]
    <3>1. CASE c = b
      <4>1. const_hash'[c] = n
        BY <1>1, <1>3, <3>1 DEF PoolTypeOK
      <4> QED BY <1>1, <1>5, <1>8, <1>4, <3>1, <4>1
    <3>2. CASE c # b
      <4>1. const_hash'[c] = const_hash[c]
        BY <1>1, <3>2 DEF PoolTypeOK
      <4>2. /\ const_hash[c] # NoConst =>
                 /\ const_hash[c] \in chain
                 /\ Bucket(consts[const_hash[c]].key) = c
            /\ \A i \in chain : Bucket(consts[i].key) = c => i <= const_hash[c]
        BY DEF ChainsComplete
      <4> QED BY <1>1, <1>5, <1>8, <3>2, <4>1, <4>2
    <3> QED BY <3>1, <3>2
  <2>2. ASSUME NEW i \in chain'
        PROVE  LET p == consts'[i].prev_const
               IN /\ p # NoConst =>
                       /\ p \in chain' /\ p < i
                       /\ Bucket(consts'[p].key) = Bucket(consts'[i].key)
                  /\ \A j \in chain' :
                       j < i /\ Bucket(consts'[j].key) = Bucket(consts'[i].key) => j <= p
    <3>1. CASE i = n
      <4>1. /\ h # NoConst => h \in chain /\ Bucket(consts[h].key) = b
            /\ \A j \in chain : Bucket(consts[j].key) = b => j <= h
        BY <1>3 DEF ChainsComplete
      <4>2. consts'[i].prev_const = h /\ consts'[i].key = call.key
        BY <1>5, <3>1
      <4>3. h # NoConst => h \in chain' /\ h < i /\ consts'[h] = consts[h]
        BY <1>1, <1>8, <3>1, <4>1
      <4>4. ASSUME NEW j \in chain', j < i, Bucket(consts'[j].key) = b PROVE j <= h
        <5>1. j \in chain
          BY <1>1, <1>4, <3>1, <4>4
        <5> QED BY <1>8, <4>1, <4>4, <5>1
      <4> HIDE DEF h, b
      <4> QED BY <4>1, <4>2, <4>3, <4>4 DEF b
    <3>2. CASE i \in chain
      <4> DEFINE p == consts[i].prev_const
      <4>1. /\ p # NoConst => /\ p \in chain /\ p < i
                                /\ Bucket(consts[p].key) = Bucket(consts[i].key)
            /\ \A j \in chain : j < i /\ Bucket(consts[j].key) = Bucket(consts[i].key) => j <= p
        BY <3>2 DEF ChainsComplete
      <4>2. consts'[i] = consts[i]
        BY <1>8, <3>2
      <4>3. ~(n < i)
        BY <1>4, <1>8, <3>2
      <4> QED BY <1>1, <1>8, <4>1, <4>2, <4>3
    <3> QED BY Zenon, <1>1, <3>1, <3>2
  <2> QED BY ZenonT(60), <1>1, <2>1, <2>2 DEF ChainsComplete, Bucket
<1>10. CallInv'
  BY <1>1, <1>5 DEF CallInv
<1>11. NoConstMadeTwice'
  BY <1>1, <1>5 DEF NoConstMadeTwice
<1> QED BY <1>7, <1>9, <1>10, <1>11

LEMMA RehashKeepsPoolInv ==
  ASSUME PoolInv, Rehash
  PROVE  PoolInv'
<1> USE DEF PoolInv
<1>1. /\ call.at = "walk" /\ call.ref = NoConst
      /\ const_hash_mask' = (const_hash_mask + 1) * 2 - 1
      /\ const_hash' = [b \in 0 .. const_hash_mask' |-> NoConst]
      /\ chain' = {}
      /\ call' = [call EXCEPT !.at = "rehash", !.ref = First]
      /\ UNCHANGED <<consts, const_count, unique>>
  BY DEF Rehash
<1>2. call \in [at : {"walk", "rehash"}, key : Key, ref : Nat]
  BY <1>1 DEF PoolTypeOK
<1>3. call'.at = "rehash" /\ call'.key = call.key /\ call'.ref = First
      /\ call' \in [at : {"walk", "rehash"}, key : Key, ref : Nat]
  BY Zenon, <1>1, <1>2 DEF First
<1>4. const_hash_mask' \in Nat
  BY <1>1 DEF PoolTypeOK
<1>5. const_hash' \in [0 .. const_hash_mask' -> Nat]
  BY <1>1 DEF NoConst
<1>6. PoolTypeOK'
  BY <1>1, <1>3, <1>4, <1>5 DEF PoolTypeOK, Made
<1>7. ChainsComplete'
  BY <1>1 DEF ChainsComplete
<1>8. \A i \in Made \ unique : consts[i].key # call.key
  <2> SUFFICES ASSUME NEW i \in Made \ unique, consts[i].key = call.key PROVE FALSE
    OBVIOUS
  <2>1. i <= 0
    BY <1>1 DEF CallInv, NoConst
  <2> QED BY <2>1 DEF Made, First, PoolTypeOK
<1>9. CallInv'
  BY <1>1, <1>3, <1>8 DEF CallInv, Made, First, PoolTypeOK
<1>10. NoConstMadeTwice'
  BY <1>1 DEF NoConstMadeTwice, Made
<1> QED BY <1>6, <1>7, <1>9, <1>10

LEMMA RelinkKeepsPoolInv ==
  ASSUME PoolInv, Relink
  PROVE  PoolInv'
<1> USE DEF PoolInv
<1> DEFINE ref == call.ref
           key == consts[ref].key
           b == Bucket(key)
           h == const_hash[b]
<1>1. /\ call.at = "rehash" /\ ref < const_count
      /\ consts' = [consts EXCEPT ![ref].prev_const = h]
      /\ const_hash' = [const_hash EXCEPT ![b] = ref]
      /\ chain' = chain \cup {ref}
      /\ call' = [call EXCEPT !.ref = ref + 1]
      /\ UNCHANGED <<const_count, const_hash_mask, unique>>
  BY DEF Relink
<1>2. /\ call \in [at : {"walk", "rehash"}, key : Key, ref : Nat]
      /\ First <= ref /\ chain = First .. ref - 1
      /\ ref \in Made /\ ref \in Nat
  BY <1>1 DEF PoolTypeOK, CallInv, Made, First
<1>3. key \in Key /\ b \in 0 .. const_hash_mask /\ h \in Nat
  <2>1. key \in Key
    BY <1>2 DEF PoolTypeOK
  <2> QED BY Zenon, <2>1, BucketRange DEF PoolTypeOK
<1>4. /\ consts' \in [Made -> [key : Key, prev_const : Nat]]
      /\ \A i \in Made : consts'[i].key = consts[i].key
      /\ \A i \in Made \ {ref} : consts'[i].prev_const = consts[i].prev_const
      /\ consts'[ref].prev_const = h
  BY Zenon, <1>1, <1>2, <1>3 DEF PoolTypeOK
<1>5. call'.at = "rehash" /\ call'.key = call.key /\ call'.ref = ref + 1
      /\ call' \in [at : {"walk", "rehash"}, key : Key, ref : Nat]
  BY <1>1, <1>2
<1>6. const_hash' \in [0 .. const_hash_mask -> Nat] /\ const_hash'[b] = ref
      /\ \A c \in 0 .. const_hash_mask : c # b => const_hash'[c] = const_hash[c]
  BY <1>1, <1>2, <1>3 DEF PoolTypeOK
<1>7. PoolTypeOK'
  BY Zenon, <1>1, <1>2, <1>4, <1>5, <1>6 DEF PoolTypeOK, Made
<1>8. \A i \in chain : i \in Made /\ i < ref /\ i \in Nat /\ i # ref
  BY <1>2 DEF PoolTypeOK, First
<1> HIDE DEF ref, h, b, key
<1>9. ChainsComplete'
  <2>1. ASSUME NEW c \in 0 .. const_hash_mask
        PROVE  /\ const_hash'[c] # NoConst =>
                    /\ const_hash'[c] \in chain'
                    /\ Bucket(consts'[const_hash'[c]].key) = c
               /\ \A i \in chain' : Bucket(consts'[i].key) = c => i <= const_hash'[c]
    <3>1. CASE c = b
      BY <1>1, <1>2, <1>4, <1>6, <1>8, <3>1 DEF b, key
    <3>2. CASE c # b
      <4>1. /\ const_hash[c] # NoConst =>
                 /\ const_hash[c] \in chain
                 /\ Bucket(consts[const_hash[c]].key) = c
            /\ \A i \in chain : Bucket(consts[i].key) = c => i <= const_hash[c]
        BY DEF ChainsComplete
      <4>2. Bucket(consts'[ref].key) = b
        BY <1>2, <1>4 DEF b, key
      <4> QED BY <1>1, <1>4, <1>6, <1>8, <3>2, <4>1, <4>2
    <3> QED BY <3>1, <3>2
  <2>2. ASSUME NEW i \in chain'
        PROVE  LET p == consts'[i].prev_const
               IN /\ p # NoConst =>
                       /\ p \in chain' /\ p < i
                       /\ Bucket(consts'[p].key) = Bucket(consts'[i].key)
                  /\ \A j \in chain' :
                       j < i /\ Bucket(consts'[j].key) = Bucket(consts'[i].key) => j <= p
    <3>1. CASE i = ref
      <4>1. /\ h # NoConst => h \in chain /\ Bucket(consts[h].key) = b
            /\ \A j \in chain : Bucket(consts[j].key) = b => j <= h
        BY <1>3 DEF ChainsComplete, h
      <4>2. consts'[i].prev_const = h /\ Bucket(consts'[i].key) = b
        BY <1>2, <1>4, <3>1 DEF b, key
      <4>3. h # NoConst => h \in chain' /\ h < i /\ consts'[h].key = consts[h].key
        BY <1>1, <1>4, <1>8, <3>1, <4>1
      <4>4. ASSUME NEW j \in chain', j < i, Bucket(consts'[j].key) = b PROVE j <= h
        <5>1. j \in chain
          BY <1>1, <1>2, <3>1, <4>4
        <5> QED BY <1>4, <1>8, <4>1, <4>4, <5>1
      <4> QED BY <4>1, <4>2, <4>3, <4>4
    <3>2. CASE i \in chain
      <4> DEFINE p == consts[i].prev_const
      <4>1. /\ p # NoConst => /\ p \in chain /\ p < i
                                /\ Bucket(consts[p].key) = Bucket(consts[i].key)
            /\ \A j \in chain : j < i /\ Bucket(consts[j].key) = Bucket(consts[i].key) => j <= p
        BY <3>2 DEF ChainsComplete
      <4>2. consts'[i].prev_const = p /\ consts'[i].key = consts[i].key
        BY <1>4, <1>8, <3>2
      <4>3. ~(ref < i)
        BY <1>2, <1>8, <3>2
      <4> QED BY <1>1, <1>4, <1>8, <4>1, <4>2, <4>3
    <3> QED BY <1>1, <3>1, <3>2
  <2> QED BY ZenonT(60), <1>1, <2>1, <2>2 DEF ChainsComplete, Bucket
<1>10. CallInv'
  <2>1. chain' = First .. (ref + 1) - 1
    BY <1>1, <1>2 DEF First
  <2>2. First <= ref + 1 /\ ref + 1 <= const_count
    BY <1>1, <1>2 DEF First, PoolTypeOK
  <2>3. \A i \in Made \ unique : consts'[i].key # call.key
    BY <1>1, <1>4 DEF CallInv
  <2> QED BY <1>1, <1>5, <2>1, <2>2, <2>3 DEF CallInv, Made
<1>11. NoConstMadeTwice'
  BY <1>1, <1>4 DEF NoConstMadeTwice, Made
<1> QED BY <1>7, <1>9, <1>10, <1>11

LEMMA NextPoolInv == PoolInv /\ [PoolNext]_poolVars => PoolInv'
<1> SUFFICES ASSUME PoolInv, [PoolNext]_poolVars PROVE PoolInv'
  OBVIOUS
<1>1. CASE UNCHANGED poolVars
  BY Zenon, <1>1 DEF PoolInv, PoolTypeOK, ChainsComplete, CallInv, NoConstMadeTwice, Made, Bucket, poolVars
<1>2. CASE Miss
  <2>1. \A i \in Made \ unique : consts[i].key # call.key
    <3> SUFFICES ASSUME NEW i \in Made \ unique, consts[i].key = call.key PROVE FALSE
      OBVIOUS
    <3>1. i <= 0
      BY <1>2 DEF Miss, PoolInv, CallInv, NoConst
    <3> QED BY <3>1 DEF Made, First, PoolInv, PoolTypeOK
  <2>2. call.at = "walk" /\ Insert
    BY <1>2 DEF Miss
  <2>3. Made \ unique \subseteq chain
    BY <2>2 DEF PoolInv, CallInv
  <2> QED BY <2>1, <2>2, <2>3, InsertKeepsPoolInv
<1>3. CASE Rehashed
  <2>1. call.at = "rehash" /\ call.ref = const_count /\ Insert
    BY <1>3 DEF Rehashed
  <2>2. Made \ unique \subseteq chain /\ \A i \in Made \ unique : consts[i].key # call.key
    BY <2>1 DEF PoolInv, CallInv, Made
  <2> QED BY <2>1, <2>2, InsertKeepsPoolInv
<1> QED BY <1>1, <1>2, <1>3, UniqueKeepsPoolInv, CallKeepsPoolInv, FollowKeepsPoolInv,
           HitKeepsPoolInv, RehashKeepsPoolInv, RelinkKeepsPoolInv DEF PoolNext, Step

(* ir_const_ex never makes a constant that it has made before: the chain   *)
(* it walks holds every one of them, before and after each rehash.         *)
THEOREM ConstantsMadeOnce == PoolSpec => [](PoolTypeOK /\ ChainsComplete /\ NoConstMadeTwice)
<1>1. PoolSpec => []PoolInv
  BY InitPoolInv, NextPoolInv, PTL DEF PoolSpec
<1> QED BY <1>1, PTL DEF PoolInv

---------------------------------------------------------------------------
(* The use lists *)

(* The inductive invariant: ir_use_list_add tells a free slot by its       *)
(* contents, so that the lists stay apart only because they hold no        *)
(* IR_UNUSED, and they hold none only because they stay apart.             *)
IInv == TypeOK /\ Disjoint /\ Filled

LEMMA InitIInv == Init => IInv
<1> SUFFICES ASSUME Init PROVE IInv
  OBVIOUS
<1> USE RefAssumption, UseAssumption, PageAssumption, MaxAssumption
<1>1. TypeOK
  <2>1. use_edges_count \in Nat /\ base \in {0, 1}
    BY DEF Init
  <2>2. use_lists \in [Ref -> [refs : Nat, count : Nat]]
    BY DEF Init
  <2>3. use_edges \in [0 .. use_edges_count - 1 -> Cell]
    BY DEF Init, Cell
  <2>4. capacity \in Nat
    BY <2>1 DEF Init, Aligned
  <2> QED BY <2>1, <2>2, <2>3, <2>4 DEF TypeOK
<1>2. ASSUME NEW d \in Ref, NEW i \in Slots(d)
      PROVE  /\ use_lists[d].count > 0
             /\ use_lists[d].refs <= i
             /\ i < use_lists[d].refs + use_lists[d].count
             /\ use_lists[d].refs + use_lists[d].count <= use_edges_count
             /\ i \in 0 .. use_edges_count - 1
  <2>1. use_lists[d].refs \in Nat /\ use_lists[d].count \in Nat
    BY <1>1 DEF TypeOK
  <2>2. i \in Int /\ use_lists[d].refs <= i /\ i < use_lists[d].refs + use_lists[d].count
    BY <2>1 DEF Slots
  <2>3. use_lists[d].refs + use_lists[d].count <= use_edges_count
    BY <2>1, <2>2 DEF Init, Packed
  <2> QED BY <2>1, <2>2, <2>3, <1>1 DEF TypeOK
<1>3. Filled
  BY SMTT(60), <1>2, <1>1 DEF Init, Packed, Filled, TypeOK
<1>4. Disjoint
  <2> SUFFICES ASSUME NEW c \in Ref, NEW d \in Ref, c # d,
                      NEW i \in Slots(c), i \in Slots(d)
               PROVE  FALSE
    BY DEF Disjoint
  <2>1. c < d \/ d < c
    OBVIOUS
  <2>2. \/ use_lists[c].refs + use_lists[c].count <= use_lists[d].refs
        \/ use_lists[d].refs + use_lists[d].count <= use_lists[c].refs
    BY <1>2, <2>1 DEF Init, Packed
  <2> QED BY <1>1, <1>2, <2>2 DEF TypeOK
<1> QED BY <1>1, <1>3, <1>4 DEF IInv

(* The slots of a list, spelled out. *)
LEMMA SlotsOf ==
  ASSUME TypeOK, NEW d \in Ref
  PROVE  /\ use_lists[d].refs \in Nat /\ use_lists[d].count \in Nat
         /\ \A i : i \in Slots(d) <=> /\ i \in Nat
                                      /\ use_lists[d].refs <= i
                                      /\ i < use_lists[d].refs + use_lists[d].count
BY DEF TypeOK, Slots

LEMMA SlotsOfPrime ==
  ASSUME TypeOK', NEW d \in Ref
  PROVE  /\ use_lists'[d].refs \in Nat /\ use_lists'[d].count \in Nat
         /\ \A i : i \in Slots(d)' <=> /\ i \in Nat
                                       /\ use_lists'[d].refs <= i
                                       /\ i < use_lists'[d].refs + use_lists'[d].count
BY DEF TypeOK, Slots

(* A slot of a list lies below use_edges_count and holds a use. *)
LEMMA SlotFilled ==
  ASSUME IInv, NEW d \in Ref, NEW i \in Slots(d)
  PROVE  /\ i \in 0 .. use_edges_count - 1
         /\ use_edges_count \in Nat
         /\ use_edges[i] \in Use
         /\ use_edges[i] # IR_UNUSED
<1>1. i \in Nat /\ i < use_edges_count /\ use_edges[i] \in Use
  BY SlotsOf DEF IInv, Filled
<1>2. use_edges_count \in Nat
  BY DEF IInv, TypeOK
<1> QED BY <1>1, <1>2, UseAssumption DEF IR_UNUSED

(* An operation on list "to" that leaves the other lists where they are    *)
(* with the elements they hold, and whose own elements end up in slots of  *)
(* nobody else, keeps the invariant.                                       *)
Framed(to) ==
  /\ use_edges_count <= use_edges_count'
  /\ \A d \in Ref \ {to} :
       use_lists'[d] = use_lists[d] /\ \A i \in Slots(d) : use_edges'[i] = use_edges[i]
  /\ \A i \in Slots(to)' :
       /\ i < use_edges_count' /\ use_edges'[i] \in Use
       /\ \A d \in Ref \ {to} : i \notin Slots(d)

LEMMA FramedIInv ==
  ASSUME IInv, TypeOK', NEW to \in Ref, Framed(to)
  PROVE  IInv'
<1> USE DEF IInv
<1>1. \A d \in Ref \ {to} : Slots(d)' = Slots(d)
  BY DEF Slots, Framed
<1>2. Disjoint'
  BY <1>1 DEF Disjoint, Framed
<1>3. Filled'
  <2> SUFFICES ASSUME NEW d \in Ref, NEW i \in Slots(d)'
               PROVE  i < use_edges_count' /\ use_edges'[i] \in Use
    BY DEF Filled
  <2>1. CASE d = to
    BY <2>1 DEF Framed
  <2>2. CASE d # to
    <3>1. i \in Slots(d) /\ use_edges'[i] = use_edges[i]
      BY <1>1, <2>2 DEF Framed
    <3>2. i < use_edges_count /\ use_edges[i] \in Use
      BY <3>1 DEF Filled
    <3> QED BY SMTT(60), <3>1, <3>2, SlotsOf DEF Framed, TypeOK
  <2> QED BY <2>1, <2>2
<1> QED BY <1>2, <1>3

LEMMA AddInHoleFramed ==
  ASSUME IInv, NEW to \in Ref, NEW use \in Use, AddInHole(to, use)
  PROVE  TypeOK' /\ Framed(to)
<1> USE RefAssumption, UseAssumption DEF IInv
<1>1. TypeOK'
  <2>1. use_lists' \in [Ref -> [refs : Nat, count : Nat]]
    <3>1. use_lists \in [Ref -> [refs : Nat, count : Nat]]
      BY DEF TypeOK
    <3>2. [use_lists[to] EXCEPT !.count = @ + 1] \in [refs : Nat, count : Nat]
      BY <3>1
    <3>3. use_lists' = [use_lists EXCEPT ![to].count = @ + 1]
      BY DEF AddInHole
    <3> QED BY <3>1, <3>2, <3>3
  <2>2. use_edges' \in [0 .. use_edges_count - 1 -> Cell]
    BY Zenon DEF AddInHole, TypeOK, Cell
  <2> QED BY <2>1, <2>2 DEF AddInHole, TypeOK
<1>2. \A d \in Ref : Behind(to) \notin Slots(d)
  BY DEF AddInHole, Filled, IR_UNUSED
<1>3. \A d \in Ref \ {to} : use_lists'[d] = use_lists[d]
  BY DEF AddInHole, TypeOK
<1>4. use_lists'[to].refs = use_lists[to].refs /\ use_lists'[to].count = use_lists[to].count + 1
  BY DEF AddInHole, TypeOK
<1>5. \A i \in Slots(to)' : i \in Slots(to) \/ i = Behind(to)
  BY <1>1, <1>4, SlotsOf, SlotsOfPrime DEF Behind
<1>6. use_edges'[Behind(to)] = use /\ Behind(to) < use_edges_count
  BY SMTT(60), SlotsOf DEF AddInHole, Behind, TypeOK
<1>7. \A d \in Ref : \A i \in Slots(d) : use_edges'[i] = use_edges[i]
  BY <1>2, SlotsOf DEF AddInHole, TypeOK, Filled
<1>8. use_edges_count' = use_edges_count
  BY DEF AddInHole
<1>9. \A i \in Slots(to)' : i < use_edges_count' /\ use_edges'[i] \in Use
  BY <1>5, <1>6, <1>7, <1>8, SlotFilled
<1>10. \A i \in Slots(to)' : \A d \in Ref \ {to} : i \notin Slots(d)
  BY <1>2, <1>5 DEF Disjoint
<1>11. use_edges_count <= use_edges_count'
  BY <1>8 DEF TypeOK
<1>12. Framed(to)
  BY <1>3, <1>7, <1>9, <1>10, <1>11, Zenon DEF Framed
<1> QED BY <1>1, <1>12

LEMMA AlignedNat == ASSUME NEW n \in Nat PROVE Aligned(n) \in Nat
BY PageAssumption DEF Aligned

LEMMA GrowType ==
  ASSUME TypeOK, NEW to \in Ref, Grow(to)
  PROVE  capacity' \in Nat /\ base' \in {0, 1}
<1>1. Aligned(use_edges_count + use_lists[to].count + 1) \in Nat
  <2>1. use_edges_count + use_lists[to].count + 1 \in Nat
    BY DEF TypeOK
  <2> QED BY <2>1, AlignedNat
<1>2. capacity \in Nat /\ base \in {0, 1} /\ 1 - base \in {0, 1}
  BY DEF TypeOK
<1> QED BY <1>1, <1>2 DEF Grow

LEMMA AddAtEndFramed ==
  ASSUME IInv, NEW to \in Ref, NEW use \in Use, AddAtEnd(to, use)
  PROVE  TypeOK' /\ Framed(to)
<1> USE RefAssumption, UseAssumption DEF IInv
<1>0. use_lists' = [use_lists EXCEPT ![to].count = @ + 1]
  BY DEF AddAtEnd
<1>3. \A d \in Ref \ {to} : use_lists'[d] = use_lists[d]
  BY <1>0 DEF TypeOK
<1>4. use_lists'[to].refs = use_lists[to].refs /\ use_lists'[to].count = use_lists[to].count + 1
  BY <1>0 DEF TypeOK
<1>1. TypeOK'
  <2>1. Grow(to)
    BY DEF AddAtEnd
  <2>2. use_edges' \in [0 .. use_edges_count' - 1 -> Cell]
    BY DEF AddAtEnd, TypeOK, Cell
  <2>3. use_lists' \in [Ref -> [refs : Nat, count : Nat]]
    <3>1. use_lists \in [Ref -> [refs : Nat, count : Nat]]
      BY DEF TypeOK
    <3>2. use_lists[to] \in [refs : Nat, count : Nat]
      BY <3>1
    <3>3. [use_lists[to] EXCEPT !.count = @ + 1] \in [refs : Nat, count : Nat]
      BY <3>2
    <3> QED BY <1>0, <3>1, <3>3
  <2>4. use_edges_count' \in Nat
    BY DEF AddAtEnd, TypeOK
  <2> QED BY Zenon, <2>1, <2>2, <2>3, <2>4, GrowType DEF TypeOK
<1>2. \A d \in Ref : use_edges_count \notin Slots(d)
  <2> SUFFICES ASSUME NEW d \in Ref, use_edges_count \in Slots(d) PROVE FALSE
    OBVIOUS
  <2> QED BY SlotFilled
<1>5. \A i \in Slots(to)' : i \in Slots(to) \/ i = use_edges_count
  <2>1. Behind(to) = use_edges_count
    BY DEF AddAtEnd
  <2> QED BY <1>1, <1>4, <2>1, SlotsOf, SlotsOfPrime DEF Behind
<1>6. use_edges'[use_edges_count] = use
  BY DEF AddAtEnd, TypeOK
<1>7. \A d \in Ref : \A i \in Slots(d) : use_edges'[i] = use_edges[i]
  <2>1. \A i \in 0 .. use_edges_count - 1 : use_edges'[i] = use_edges[i]
    BY DEF AddAtEnd, TypeOK
  <2> QED BY <2>1, SlotFilled
<1>8. use_edges_count' = use_edges_count + 1
  BY DEF AddAtEnd
<1>9. \A i \in Slots(to)' : i < use_edges_count' /\ use_edges'[i] \in Use
  BY SMTT(60), <1>5, <1>6, <1>7, <1>8, SlotFilled DEF TypeOK
<1>10. \A i \in Slots(to)' : \A d \in Ref \ {to} : i \notin Slots(d)
  BY <1>2, <1>5 DEF Disjoint
<1>11. use_edges_count <= use_edges_count'
  BY <1>8 DEF TypeOK
<1>12. Framed(to)
  BY <1>3, <1>7, <1>9, <1>10, <1>11, Zenon DEF Framed
<1> QED BY <1>1, <1>12

LEMMA AddMovedFramed ==
  ASSUME IInv, NEW to \in Ref, NEW use \in Use, AddMoved(to, use)
  PROVE  TypeOK' /\ Framed(to)
<1> DEFINE old == use_lists[to]
           n   == use_edges_count
<1> USE DEF IInv
<1>0. old.refs \in Nat /\ old.count \in Nat /\ n \in Nat
  BY DEF TypeOK
<1>1. use_lists' = [use_lists EXCEPT ![to] = [refs |-> n, count |-> old.count + 1]]
  BY DEF AddMoved
<1>2. use_edges' = [i \in 0 .. n + old.count |->
                      IF i < n THEN use_edges[i]
                      ELSE IF i = n + old.count THEN use
                      ELSE use_edges[old.refs + (i - n)]]
  BY DEF AddMoved
<1>3. use_edges_count' = n + old.count + 1
  BY DEF AddMoved
<1>4. ASSUME NEW i \in n .. n + old.count - 1
      PROVE  old.refs + (i - n) \in Slots(to)
  BY <1>0, SlotsOf
<1>5. /\ \A i \in 0 .. n - 1 : use_edges'[i] = use_edges[i]
      /\ use_edges'[n + old.count] = use
      /\ \A i \in n .. n + old.count - 1 : use_edges'[i] = use_edges[old.refs + (i - n)]
  BY SMTT(60), <1>0, <1>2
<1>6. TypeOK'
  <2>1. capacity' \in Nat /\ base' \in {0, 1}
    BY GrowType DEF AddMoved
  <2>2. use_lists' \in [Ref -> [refs : Nat, count : Nat]]
    BY <1>0, <1>1 DEF TypeOK
  <2>3. \A i \in 0 .. n + old.count : use_edges'[i] \in Cell
    <3> SUFFICES ASSUME NEW i \in 0 .. n + old.count PROVE use_edges'[i] \in Cell
      OBVIOUS
    <3>1. CASE i < n
      BY <1>0, <1>5, <3>1 DEF TypeOK
    <3>2. CASE i = n + old.count
      BY <1>5, <3>2 DEF Cell
    <3>3. CASE n <= i /\ i < n + old.count
      BY <1>0, <1>4, <1>5, <3>3, SlotFilled DEF Cell
    <3> QED BY <1>0, <3>1, <3>2, <3>3
  <2>4. use_edges' \in [0 .. n + old.count -> Cell]
    BY <1>2, <2>3
  <2> QED BY SMTT(60), <1>0, <1>3, <2>1, <2>2, <2>4 DEF TypeOK
<1>7. \A d \in Ref \ {to} : use_lists'[d] = use_lists[d]
  BY <1>1 DEF TypeOK
<1>8. use_lists'[to].refs = n /\ use_lists'[to].count = old.count + 1
  BY <1>1 DEF TypeOK
<1>9. \A d \in Ref : \A i \in Slots(d) : use_edges'[i] = use_edges[i]
  BY <1>5, SlotFilled
<1>10. ASSUME NEW i \in Slots(to)'
       PROVE  i < use_edges_count' /\ use_edges'[i] \in Use /\ i \notin 0 .. n - 1
  <2>1. i \in n .. n + old.count
    BY <1>0, <1>6, <1>8, SlotsOfPrime
  <2>2. CASE i = n + old.count
    BY <1>0, <1>3, <1>5, <2>2
  <2>3. CASE i \in n .. n + old.count - 1
    BY <1>0, <1>3, <1>4, <1>5, <2>3, SlotFilled
  <2> QED BY <1>0, <2>1, <2>2, <2>3
<1>11. \A i \in Slots(to)' : \A d \in Ref : i \notin Slots(d)
  BY <1>10, SlotFilled
<1>12. Framed(to)
  BY <1>0, <1>3, <1>7, <1>9, <1>10, <1>11 DEF Framed
<1> QED BY <1>6, <1>12

LEMMA ClearUsesFramed ==
  ASSUME IInv, NEW ref \in Ref, ClearUses(ref)
  PROVE  TypeOK' /\ Framed(ref)
<1> USE DEF IInv
<1>1. TypeOK' /\ use_lists'[ref].count = 0
  BY Zenon DEF ClearUses, TypeOK
<1>2. \A d \in Ref \ {ref} : use_lists'[d] = use_lists[d]
  BY DEF ClearUses, TypeOK
<1>3. Slots(ref)' = {}
  BY <1>1, SlotsOfPrime
<1> QED BY <1>1, <1>2, <1>3 DEF ClearUses, Framed, TypeOK

LEMMA ReplaceOneFramed ==
  ASSUME IInv, NEW ref \in Ref, NEW use \in Use, NEW new_use \in Use,
         ReplaceOne(ref, use, new_use)
  PROVE  TypeOK' /\ Framed(ref)
<1> USE DEF IInv
<1>1. PICK k \in Slots(ref) : use_edges' = [use_edges EXCEPT ![k] = new_use]
  BY Zenon DEF ReplaceOne
<1>2. UNCHANGED <<use_lists, use_edges_count, capacity, base>>
  BY DEF ReplaceOne
<1>3. TypeOK'
  BY Zenon, <1>1, <1>2 DEF TypeOK, Cell
<1>4. \A d \in Ref : Slots(d)' = Slots(d)
  BY <1>2 DEF Slots
<1>5. \A d \in Ref : \A i \in Slots(d) :
        use_edges'[i] = IF i = k THEN new_use ELSE use_edges[i]
  BY <1>1, SlotFilled DEF TypeOK
<1>6. \A d \in Ref \ {ref} : k \notin Slots(d)
  BY DEF Disjoint
<1>7. \A i \in Slots(ref)' : i < use_edges_count' /\ use_edges'[i] \in Use
  BY <1>2, <1>4, <1>5, SlotFilled
<1>8. \A d \in Ref \ {ref} : Slots(d) \cap Slots(ref) = {}
  BY DEF Disjoint
<1>9. \A d \in Ref \ {ref} : \A i \in Slots(d) : use_edges'[i] = use_edges[i]
  BY <1>5, <1>6
<1> QED BY <1>2, <1>3, <1>4, <1>7, <1>8, <1>9 DEF Framed, TypeOK

LEMMA ReplaceAllFramed ==
  ASSUME IInv, NEW ref \in Ref, NEW use \in Use, NEW new_use \in Use,
         ReplaceAll(ref, use, new_use)
  PROVE  TypeOK' /\ Framed(ref)
<1> USE DEF IInv
<1>1. use_edges' = [i \in 0 .. use_edges_count - 1 |->
                      IF i \in Slots(ref) /\ use_edges[i] = use
                      THEN new_use ELSE use_edges[i]]
  BY DEF ReplaceAll
<1>2. UNCHANGED <<use_lists, use_edges_count, capacity, base>>
  BY DEF ReplaceAll
<1>3. TypeOK'
  BY <1>1, <1>2 DEF TypeOK, Cell
<1>4. \A d \in Ref : Slots(d)' = Slots(d)
  BY <1>2 DEF Slots
<1>5. \A d \in Ref : \A i \in Slots(d) :
        use_edges'[i] = IF i \in Slots(ref) /\ use_edges[i] = use
                        THEN new_use ELSE use_edges[i]
  BY <1>1, SlotFilled
<1>6. \A d \in Ref \ {ref} : Slots(d) \cap Slots(ref) = {}
  BY DEF Disjoint
<1>7. \A i \in Slots(ref)' : i < use_edges_count' /\ use_edges'[i] \in Use
  BY <1>2, <1>4, <1>5, SlotFilled
<1> QED BY <1>2, <1>3, <1>4, <1>5, <1>6, <1>7 DEF Framed, TypeOK

LEMMA RemoveOneFramed ==
  ASSUME IInv, NEW from \in Ref, NEW use \in Use, RemoveOne(from, use)
  PROVE  TypeOK' /\ Framed(from)
<1> DEFINE last == Behind(from) - 1
<1> USE DEF IInv
<1>1. PICK k \in Slots(from) :
        /\ use_edges' = [i \in 0 .. use_edges_count - 1 |->
                           IF i \notin Slots(from) \/ i < k THEN use_edges[i]
                           ELSE IF i = last THEN IR_UNUSED
                           ELSE use_edges[i + 1]]
        /\ use_lists' = [use_lists EXCEPT ![from].count = @ - 1]
        /\ UNCHANGED <<use_edges_count, capacity, base>>
  BY DEF RemoveOne
<1>2. last \in Slots(from) /\ use_lists[from].count - 1 \in Nat
  BY SlotsOf DEF Behind
<1>3. \A i \in Slots(from) : i # last => i + 1 \in Slots(from)
  BY SlotsOf DEF Behind
<1>4. \A i \in 0 .. use_edges_count - 1 :
        use_edges'[i] = IF i \notin Slots(from) \/ i < k THEN use_edges[i]
                        ELSE IF i = last THEN IR_UNUSED
                        ELSE use_edges[i + 1]
  BY <1>1
<1>5. TypeOK'
  <2>1. \A i \in 0 .. use_edges_count - 1 : use_edges'[i] \in Cell
    BY Zenon, <1>3, <1>4, SlotFilled DEF TypeOK, Cell
  <2>2. use_edges' \in [0 .. use_edges_count - 1 -> Cell]
    BY <1>1, <2>1
  <2>3. use_lists' \in [Ref -> [refs : Nat, count : Nat]]
    BY Zenon, <1>1, <1>2 DEF TypeOK
  <2> QED BY Zenon, <1>1, <2>2, <2>3 DEF TypeOK
<1>6. \A d \in Ref \ {from} : use_lists'[d] = use_lists[d]
  BY <1>1 DEF TypeOK
<1>7. use_lists'[from].refs = use_lists[from].refs /\ use_lists'[from].count = use_lists[from].count - 1
  BY <1>1 DEF TypeOK
<1>8. \A i \in Slots(from)' : i \in Slots(from) /\ i # last
  BY <1>5, <1>7, SlotsOf, SlotsOfPrime DEF Behind
<1>9. \A d \in Ref \ {from} : Slots(d) \cap Slots(from) = {}
  BY DEF Disjoint
<1>10. \A d \in Ref \ {from} : \A i \in Slots(d) : use_edges'[i] = use_edges[i]
  BY <1>4, <1>9, SlotFilled
<1>11. \A i \in Slots(from)' : i < use_edges_count /\ use_edges'[i] \in Use
  BY <1>3, <1>4, <1>8, SlotFilled
<1>12. Framed(from)
  <2>1. use_edges_count' = use_edges_count /\ use_edges_count \in Nat
    BY <1>1 DEF TypeOK
  <2>2. \A i \in Slots(from)' : \A d \in Ref \ {from} : i \notin Slots(d)
    BY <1>8, <1>9
  <2> QED BY <2>1, <2>2, <1>6, <1>10, <1>11 DEF Framed
<1> QED BY <1>5, <1>12

LEMMA RemoveAllFramed ==
  ASSUME IInv, NEW from \in Ref, NEW use \in Use, RemoveAll(from, use)
  PROVE  TypeOK' /\ Framed(from)
<1> DEFINE l == use_lists[from]
<1> USE DEF IInv
<1>0. l.refs \in Nat /\ l.count \in Nat
  BY SlotsOf
<1>a. PICK m \in 0 .. l.count : \E pos \in [1 .. m -> Slots(from)] :
        /\ use_edges' = [i \in 0 .. use_edges_count - 1 |->
                           IF i \notin Slots(from) THEN use_edges[i]
                           ELSE IF i < l.refs + m THEN use_edges[pos[i - l.refs + 1]]
                           ELSE IR_UNUSED]
        /\ use_lists' = [use_lists EXCEPT ![from].count = m]
        /\ UNCHANGED <<use_edges_count, capacity, base>>
  BY Zenon DEF RemoveAll
<1>1. PICK pos \in [1 .. m -> Slots(from)] :
        /\ use_edges' = [i \in 0 .. use_edges_count - 1 |->
                           IF i \notin Slots(from) THEN use_edges[i]
                           ELSE IF i < l.refs + m THEN use_edges[pos[i - l.refs + 1]]
                           ELSE IR_UNUSED]
        /\ use_lists' = [use_lists EXCEPT ![from].count = m]
        /\ UNCHANGED <<use_edges_count, capacity, base>>
  BY <1>a
<1>2. \A i \in Slots(from) : i < l.refs + m => pos[i - l.refs + 1] \in Slots(from)
  BY SMTT(60), <1>0, SlotsOf
<1>3. \A i \in 0 .. use_edges_count - 1 :
        use_edges'[i] = IF i \notin Slots(from) THEN use_edges[i]
                        ELSE IF i < l.refs + m THEN use_edges[pos[i - l.refs + 1]]
                        ELSE IR_UNUSED
  BY <1>1
<1>4. TypeOK'
  <2>1. \A i \in 0 .. use_edges_count - 1 : use_edges'[i] \in Cell
    BY Zenon, <1>2, <1>3, SlotFilled DEF TypeOK, Cell
  <2>2. use_edges' \in [0 .. use_edges_count - 1 -> Cell]
    BY <1>1, <2>1
  <2>3. use_lists' \in [Ref -> [refs : Nat, count : Nat]]
    BY <1>0, <1>1 DEF TypeOK
  <2> QED BY Zenon, <1>1, <2>2, <2>3 DEF TypeOK
<1>5. \A d \in Ref \ {from} : use_lists'[d] = use_lists[d]
  BY <1>1 DEF TypeOK
<1>6. use_lists'[from].refs = l.refs /\ use_lists'[from].count = m
  BY <1>1 DEF TypeOK
<1>7. \A i \in Slots(from)' : i \in Slots(from) /\ i < l.refs + m
  BY SMTT(60), <1>0, <1>4, <1>6, SlotsOf, SlotsOfPrime
<1>8. \A d \in Ref \ {from} : Slots(d) \cap Slots(from) = {}
  BY DEF Disjoint
<1>9. \A d \in Ref \ {from} : \A i \in Slots(d) : use_edges'[i] = use_edges[i]
  BY <1>3, <1>8, SlotFilled
<1>10. \A i \in Slots(from)' : i < use_edges_count /\ use_edges'[i] \in Use
  BY SMTT(60), <1>2, <1>3, <1>7, SlotFilled
<1>11. Framed(from)
  <2>1. use_edges_count' = use_edges_count /\ use_edges_count \in Nat
    BY <1>1 DEF TypeOK
  <2>2. \A i \in Slots(from)' : \A d \in Ref \ {from} : i \notin Slots(d)
    BY <1>7, <1>8
  <2> QED BY <2>1, <2>2, <1>5, <1>9, <1>10 DEF Framed
<1> QED BY <1>4, <1>11

LEMMA NextIInv == IInv /\ [Next]_vars => IInv'
<1> SUFFICES ASSUME IInv, [Next]_vars PROVE IInv'
  OBVIOUS
<1>1. CASE UNCHANGED vars
  BY <1>1 DEF IInv, TypeOK, Disjoint, Filled, Slots, vars
<1>2. CASE Next
  <2>1. PICK d \in Ref :
          \/ \E u \in Use : AddInHole(d, u) \/ AddAtEnd(d, u) \/ AddMoved(d, u)
          \/ \E u \in Use : RemoveOne(d, u) \/ RemoveAll(d, u)
          \/ \E u, v \in Use : ReplaceOne(d, u, v) \/ ReplaceAll(d, u, v)
          \/ ClearUses(d)
    BY <1>2 DEF Next
  <2>2. TypeOK' /\ Framed(d)
    BY <2>1, AddInHoleFramed, AddAtEndFramed, AddMovedFramed, RemoveOneFramed,
       RemoveAllFramed, ReplaceOneFramed, ReplaceAllFramed, ClearUsesFramed
  <2> QED BY <2>2, FramedIInv
<1> QED BY <1>1, <1>2

(* The lists never share an element of use_edges[] and never hold a hole,  *)
(* whatever sequence of ir_use_list_* calls is made.                       *)
THEOREM ListsApart == Spec => [](TypeOK /\ Disjoint /\ Filled)
<1>1. Spec => []IInv
  BY InitIInv, NextIInv, PTL DEF Spec
<1> QED BY <1>1, PTL DEF IInv

---------------------------------------------------------------------------
(* The implementation proof. *)
ListAt(lists, edges, d) ==
  [i \in 1 .. lists[d].count |-> edges[lists[d].refs + i - 1]]

LEMMA ContentSeq ==
  ASSUME IInv, NEW d \in Ref
  PROVE  /\ Content[d] = ListAt(use_lists, use_edges, d)
         /\ Content[d] \in Seq(Use)
         /\ Len(Content[d]) = use_lists[d].count
         /\ \A i \in 1 .. use_lists[d].count :
              /\ use_lists[d].refs + i - 1 \in Slots(d)
              /\ Content[d][i] = use_edges[use_lists[d].refs + i - 1]
<1>1. Content[d] = ListAt(use_lists, use_edges, d)
  BY DEF Content, ListAt
<1>2. use_lists[d].refs \in Nat /\ use_lists[d].count \in Nat
  BY SlotsOf DEF IInv
<1>3. \A i \in 1 .. use_lists[d].count : use_lists[d].refs + i - 1 \in Slots(d)
  BY <1>2, SlotsOf DEF IInv
<1>4. \A i \in 1 .. use_lists[d].count : use_edges[use_lists[d].refs + i - 1] \in Use
  BY <1>3, SlotFilled
<1>5. ListAt(use_lists, use_edges, d) \in [1 .. use_lists[d].count -> Use]
  BY <1>4 DEF ListAt
<1>6. Content[d] \in Seq(Use) /\ Len(Content[d]) = use_lists[d].count
  BY <1>1, <1>2, <1>5
<1> QED BY Zenon, <1>1, <1>3, <1>6 DEF ListAt

(* An operation framed to one list changes the content of that list only.  *)
LEMMA FramedContent ==
  ASSUME IInv, TypeOK', NEW to \in Ref, Framed(to), NEW s,
         ListAt(use_lists', use_edges', to) = s
  PROVE  Content' = [Content EXCEPT ![to] = s]
<1>1. ASSUME NEW d \in Ref, d # to
      PROVE  ListAt(use_lists', use_edges', d) = ListAt(use_lists, use_edges, d)
  <2>1. use_lists'[d] = use_lists[d]
    BY <1>1 DEF Framed
  <2>2. \A i \in 1 .. use_lists[d].count :
          use_edges'[use_lists[d].refs + i - 1] = use_edges[use_lists[d].refs + i - 1]
    BY <1>1, ContentSeq DEF Framed
  <2> QED BY <2>1, <2>2 DEF ListAt
<1>2. Content' = [d \in Ref |-> ListAt(use_lists', use_edges', d)]
  BY DEF Content, ListAt
<1>3. Content = [d \in Ref |-> ListAt(use_lists, use_edges, d)]
  BY DEF Content, ListAt
<1> QED BY <1>1, <1>2, <1>3

LEMMA AddInHoleAdds ==
  ASSUME IInv, NEW to \in Ref, NEW use \in Use, AddInHole(to, use)
  PROVE  Abstract!Add(to, use)
<1> DEFINE n == use_lists[to].count
           r == use_lists[to].refs
<1>0. TypeOK /\ TypeOK' /\ Framed(to)
  BY AddInHoleFramed DEF IInv
<1>1. n \in Nat /\ r \in Nat
  BY <1>0, SlotsOf
<1>2. use_lists'[to].refs = r /\ use_lists'[to].count = n + 1
  BY <1>0 DEF AddInHole, TypeOK
<1>3. use_edges'[r + (n + 1) - 1] = use
  BY SMTT(60), <1>0, <1>1 DEF AddInHole, TypeOK, Behind
<1>4. \A i \in 1 .. n : use_edges'[r + i - 1] = use_edges[r + i - 1]
  BY <1>0, <1>1, ContentSeq, SlotFilled DEF AddInHole, TypeOK, Behind
<1>5. ListAt(use_lists', use_edges', to)
        = [i \in 1 .. n + 1 |-> IF i = n + 1 THEN use ELSE use_edges[r + i - 1]]
  BY <1>1, <1>2, <1>3, <1>4 DEF ListAt
<1>6. Append(Content[to], use)
        = [i \in 1 .. n + 1 |-> IF i = n + 1 THEN use ELSE use_edges[r + i - 1]]
  BY SMTT(60), <1>1, ContentSeq
<1> QED BY <1>0, <1>5, <1>6, FramedContent DEF Abstract!Add

LEMMA AddAtEndAdds ==
  ASSUME IInv, NEW to \in Ref, NEW use \in Use, AddAtEnd(to, use)
  PROVE  Abstract!Add(to, use)
<1> DEFINE n == use_lists[to].count
           r == use_lists[to].refs
<1>0. TypeOK /\ TypeOK' /\ Framed(to)
  BY AddAtEndFramed DEF IInv
<1>1. n \in Nat /\ r \in Nat /\ r + n = use_edges_count
  BY <1>0, SlotsOf DEF AddAtEnd, Behind
<1>2. use_lists'[to].refs = r /\ use_lists'[to].count = n + 1
  <2>1. use_lists' = [use_lists EXCEPT ![to].count = @ + 1]
    BY DEF AddAtEnd
  <2> QED BY <1>0, <2>1 DEF TypeOK
<1>3. \A i \in 0 .. use_edges_count :
        use_edges'[i] = IF i = use_edges_count THEN use ELSE use_edges[i]
  BY DEF AddAtEnd
<1>4. \A i \in 1 .. n + 1 : use_edges'[r + i - 1] = IF i = n + 1 THEN use ELSE use_edges[r + i - 1]
  <2> SUFFICES ASSUME NEW i \in 1 .. n + 1
               PROVE  use_edges'[r + i - 1] = IF i = n + 1 THEN use ELSE use_edges[r + i - 1]
    OBVIOUS
  <2>1. r + i - 1 \in 0 .. r + n /\ (r + i - 1 = r + n <=> i = n + 1)
    BY <1>1
  <2> QED BY <1>1, <1>3, <2>1
<1>5. ListAt(use_lists', use_edges', to)
        = [i \in 1 .. n + 1 |-> IF i = n + 1 THEN use ELSE use_edges[r + i - 1]]
  BY <1>1, <1>2, <1>4 DEF ListAt
<1>6. Append(Content[to], use)
        = [i \in 1 .. n + 1 |-> IF i = n + 1 THEN use ELSE use_edges[r + i - 1]]
  BY SMTT(60), <1>1, ContentSeq
<1> QED BY <1>0, <1>5, <1>6, FramedContent DEF Abstract!Add

LEMMA AddMovedAdds ==
  ASSUME IInv, NEW to \in Ref, NEW use \in Use, AddMoved(to, use)
  PROVE  Abstract!Add(to, use)
<1> DEFINE n == use_lists[to].count
           r == use_lists[to].refs
           e == use_edges_count
<1>0. TypeOK /\ TypeOK' /\ Framed(to)
  BY AddMovedFramed DEF IInv
<1>1. n \in Nat /\ r \in Nat /\ e \in Nat
  BY <1>0, SlotsOf DEF TypeOK
<1>2. use_lists'[to].refs = e /\ use_lists'[to].count = n + 1
  <2>1. use_lists' = [use_lists EXCEPT ![to] = [refs |-> e, count |-> n + 1]]
    BY DEF AddMoved
  <2> QED BY <1>0, <2>1 DEF TypeOK
<1>3. \A i \in 0 .. e + n : use_edges'[i] = IF i < e THEN use_edges[i]
                                            ELSE IF i = e + n THEN use
                                            ELSE use_edges[r + (i - e)]
  BY DEF AddMoved
<1>4. \A i \in 1 .. n + 1 : use_edges'[e + i - 1] = IF i = n + 1 THEN use ELSE use_edges[r + i - 1]
  <2> SUFFICES ASSUME NEW i \in 1 .. n + 1
               PROVE  use_edges'[e + i - 1] = IF i = n + 1 THEN use ELSE use_edges[r + i - 1]
    OBVIOUS
  <2>1. e \in Nat /\ n \in Nat /\ r \in Int /\ i \in Nat /\ 1 <= i /\ i <= n + 1
    BY <1>1
  <2>2. e + i - 1 \in 0 .. e + n /\ ~(e + i - 1 < e) /\ (e + i - 1 = e + n <=> i = n + 1)
    BY <2>1
  <2>3. r + ((e + i - 1) - e) = r + i - 1
    BY <2>1
  <2> QED BY <1>3, <2>2, <2>3
<1>5. ListAt(use_lists', use_edges', to)
        = [i \in 1 .. n + 1 |-> IF i = n + 1 THEN use ELSE use_edges[r + i - 1]]
  BY <1>1, <1>2, <1>4 DEF ListAt
<1>6. Append(Content[to], use)
        = [i \in 1 .. n + 1 |-> IF i = n + 1 THEN use ELSE use_edges[r + i - 1]]
  BY SMTT(60), <1>1, ContentSeq
<1> QED BY <1>0, <1>5, <1>6, FramedContent DEF Abstract!Add

LEMMA ClearUsesClears ==
  ASSUME IInv, NEW ref \in Ref, ClearUses(ref)
  PROVE  Abstract!Clear(ref)
<1>0. TypeOK /\ TypeOK' /\ Framed(ref)
  BY ClearUsesFramed DEF IInv
<1>1. use_lists'[ref].count = 0
  BY <1>0 DEF ClearUses, TypeOK
<1>2. ListAt(use_lists', use_edges', ref) = << >>
  BY <1>1 DEF ListAt
<1> QED BY <1>0, <1>2, FramedContent DEF Abstract!Clear

LEMMA ReplaceAllReplaces ==
  ASSUME IInv, NEW ref \in Ref, NEW use \in Use, NEW new_use \in Use,
         ReplaceAll(ref, use, new_use)
  PROVE  Abstract!ReplaceAll(ref, use, new_use)
<1> DEFINE n == use_lists[ref].count
           r == use_lists[ref].refs
           s == Content[ref]
<1>0. TypeOK /\ TypeOK' /\ Framed(ref)
  BY ReplaceAllFramed DEF IInv
<1>1. use_lists' = use_lists
  BY DEF ReplaceAll
<1>2. \A i \in 0 .. use_edges_count - 1 :
        use_edges'[i] = IF i \in Slots(ref) /\ use_edges[i] = use
                        THEN new_use ELSE use_edges[i]
  BY DEF ReplaceAll
<1>3. \A i \in 1 .. n : use_edges'[r + i - 1] = IF s[i] = use THEN new_use ELSE s[i]
  BY Zenon, <1>2, ContentSeq, SlotFilled
<1>4. ListAt(use_lists', use_edges', ref)
        = [i \in 1 .. Len(s) |-> IF s[i] = use THEN new_use ELSE s[i]]
  BY Zenon, <1>1, <1>3, ContentSeq DEF ListAt
<1>5. Content' = [Content EXCEPT ![ref] = [i \in 1 .. Len(s) |-> IF s[i] = use THEN new_use ELSE s[i]]]
  BY <1>0, <1>4, FramedContent
<1> QED BY Zenon, <1>5 DEF Abstract!ReplaceAll, Content

(* The first place of a use in the array and in the content. *)
LEMMA FirstPlace ==
  ASSUME IInv, NEW d \in Ref, NEW use \in Use, NEW k \in Slots(d), use_edges[k] = use,
         \A i \in Slots(d) : i < k => use_edges[i] # use
  PROVE  LET j == k - use_lists[d].refs + 1
         IN /\ j \in 1 .. use_lists[d].count
            /\ Abstract!IsFirst(Content[d], use, j)
            /\ k = use_lists[d].refs + j - 1
<1> DEFINE j == k - use_lists[d].refs + 1
<1>1. use_lists[d].refs \in Nat /\ use_lists[d].count \in Nat /\ k \in Nat
      /\ j \in 1 .. use_lists[d].count /\ k = use_lists[d].refs + j - 1
  <2>1. TypeOK /\ use_lists[d].refs \in Nat /\ use_lists[d].count \in Nat
    BY DEF IInv, TypeOK
  <2> QED BY <2>1, SlotsOf
<1>2. Content[d][j] = use
  <2>1. Content[d][j] = use_edges[use_lists[d].refs + j - 1]
    BY <1>1, ContentSeq, Zenon
  <2> QED BY <1>1, <2>1
<1>3. \A i \in 1 .. j - 1 : Content[d][i] # use
  <2> SUFFICES ASSUME NEW i \in 1 .. j - 1 PROVE Content[d][i] # use
    OBVIOUS
  <2>1. i \in 1 .. use_lists[d].count /\ use_lists[d].refs + i - 1 < k
    BY <1>1
  <2> QED BY <2>1, ContentSeq
<1> QED BY <1>1, <1>2, <1>3 DEF Abstract!IsFirst

LEMMA ReplaceOneReplaces ==
  ASSUME IInv, NEW ref \in Ref, NEW use \in Use, NEW new_use \in Use,
         ReplaceOne(ref, use, new_use)
  PROVE  Abstract!ReplaceOne(ref, use, new_use)
<1> DEFINE n == use_lists[ref].count
           r == use_lists[ref].refs
           s == Content[ref]
<1>0. TypeOK /\ TypeOK' /\ Framed(ref)
  BY ReplaceOneFramed DEF IInv
<1>1. PICK k \in Slots(ref) :
        /\ use_edges[k] = use
        /\ \A i \in Slots(ref) : i < k => use_edges[i] # use
        /\ use_edges' = [use_edges EXCEPT ![k] = new_use]
        /\ use_lists' = use_lists
  BY Zenon DEF ReplaceOne
<1> DEFINE j == k - r + 1
<1>2. j \in 1 .. n /\ Abstract!IsFirst(s, use, j) /\ k = r + j - 1
  BY <1>1, FirstPlace
<1>3. n \in Nat /\ r \in Nat /\ k \in Nat
  BY <1>0, SlotsOf
<1>4. \A i \in 1 .. n : use_edges'[r + i - 1] = IF i = j THEN new_use ELSE s[i]
  <2> SUFFICES ASSUME NEW i \in 1 .. n
               PROVE  use_edges'[r + i - 1] = IF i = j THEN new_use ELSE s[i]
    OBVIOUS
  <2>1. r + i - 1 \in 0 .. use_edges_count - 1 /\ s[i] = use_edges[r + i - 1]
    BY ContentSeq, SlotFilled
  <2>2. r + i - 1 = k <=> i = j
    BY <1>2, <1>3
  <2> QED BY <1>0, <1>1, <2>1, <2>2 DEF TypeOK
<1>5. ListAt(use_lists', use_edges', ref) = [s EXCEPT ![j] = new_use]
  <2>1. ListAt(use_lists', use_edges', ref) = [i \in 1 .. n |-> IF i = j THEN new_use ELSE s[i]]
    BY <1>1, <1>4 DEF ListAt
  <2>2. s = [i \in 1 .. n |-> s[i]]
    BY Zenon, ContentSeq DEF ListAt
  <2> QED BY Zenon, <2>1, <2>2
<1>6. Content' = [Content EXCEPT ![ref][j] = new_use]
  BY <1>0, <1>5, FramedContent
<1>7. j \in 1 .. Len(s)
  BY <1>2, ContentSeq
<1> QED BY Zenon, <1>2, <1>6, <1>7 DEF Abstract!ReplaceOne

LEMMA RemoveOneRemoves ==
  ASSUME IInv, NEW from \in Ref, NEW use \in Use, RemoveOne(from, use)
  PROVE  Abstract!RemoveOne(from, use)
<1> DEFINE n == use_lists[from].count
           r == use_lists[from].refs
           s == Content[from]
<1>0. TypeOK /\ TypeOK' /\ Framed(from)
  BY RemoveOneFramed DEF IInv
<1>1. PICK k \in Slots(from) :
        /\ use_edges[k] = use
        /\ \A i \in Slots(from) : i < k => use_edges[i] # use
        /\ use_edges' = [i \in 0 .. use_edges_count - 1 |->
                           IF i \notin Slots(from) \/ i < k THEN use_edges[i]
                           ELSE IF i = Behind(from) - 1 THEN IR_UNUSED
                           ELSE use_edges[i + 1]]
        /\ use_lists' = [use_lists EXCEPT ![from].count = @ - 1]
  BY DEF RemoveOne
<1> DEFINE j == k - r + 1
<1>2. j \in 1 .. n /\ Abstract!IsFirst(s, use, j) /\ k = r + j - 1
  BY <1>1, FirstPlace
<1>3. n \in Nat /\ r \in Nat /\ k \in Nat
  BY <1>0, SlotsOf
<1>4. use_lists'[from].refs = r /\ use_lists'[from].count = n - 1
  BY <1>0, <1>1 DEF TypeOK
<1>5. \A i \in 1 .. n - 1 : use_edges'[r + i - 1] = IF i < j THEN s[i] ELSE s[i + 1]
  <2> SUFFICES ASSUME NEW i \in 1 .. n - 1
               PROVE  use_edges'[r + i - 1] = IF i < j THEN s[i] ELSE s[i + 1]
    OBVIOUS
  <2>1. i \in 1 .. n /\ i + 1 \in 1 .. n
    BY <1>3
  <2>2. /\ r + i - 1 \in Slots(from) /\ s[i] = use_edges[r + i - 1]
        /\ s[i + 1] = use_edges[r + (i + 1) - 1]
    BY <2>1, ContentSeq
  <2>3. /\ r + i - 1 \in 0 .. use_edges_count - 1
        /\ (r + i - 1 < k <=> i < j)
        /\ r + i - 1 # Behind(from) - 1
        /\ r + (i + 1) - 1 = (r + i - 1) + 1
    BY <1>2, <1>3, <2>1, <2>2, SlotFilled DEF Behind
  <2> QED BY <1>1, <2>2, <2>3
<1>6. ListAt(use_lists', use_edges', from)
        = [i \in 1 .. n - 1 |-> IF i < j THEN s[i] ELSE s[i + 1]]
  BY Zenon, <1>4, <1>5 DEF ListAt
<1>7. Len(s) = n
  BY ContentSeq
<1>8. Content' = [Content EXCEPT ![from] = Abstract!Without(s, j)]
  BY <1>0, <1>6, <1>7, FramedContent DEF Abstract!Without
<1> QED BY Zenon, <1>2, <1>7, <1>8 DEF Abstract!RemoveOne

LEMMA RemoveAllRemoves ==
  ASSUME IInv, NEW from \in Ref, NEW use \in Use, RemoveAll(from, use)
  PROVE  Abstract!RemoveAll(from, use)
<1> DEFINE n == use_lists[from].count
           r == use_lists[from].refs
           s == Content[from]
           New(m, pos) == [i \in 0 .. use_edges_count - 1 |->
                             IF i \notin Slots(from) THEN use_edges[i]
                             ELSE IF i < r + m THEN use_edges[pos[i - r + 1]]
                             ELSE IR_UNUSED]
<1>0. TypeOK /\ TypeOK' /\ Framed(from)
  BY RemoveAllFramed DEF IInv
<1>1. n \in Nat /\ r \in Nat /\ Len(s) = n
  BY <1>0, SlotsOf, ContentSeq
<1>a. PICK m \in 0 .. n : \E pos \in [1 .. m -> Slots(from)] :
        /\ \A i, j \in 1 .. m : i < j => pos[i] < pos[j]
        /\ \A k \in Slots(from) : use_edges[k] # use <=> \E i \in 1 .. m : pos[i] = k
        /\ use_edges' = New(m, pos)
        /\ use_lists' = [use_lists EXCEPT ![from].count = m]
  BY Zenon DEF RemoveAll
<1>2. PICK pos \in [1 .. m -> Slots(from)] :
        /\ \A i, j \in 1 .. m : i < j => pos[i] < pos[j]
        /\ \A k \in Slots(from) : use_edges[k] # use <=> \E i \in 1 .. m : pos[i] = k
        /\ use_edges' = New(m, pos)
        /\ use_lists' = [use_lists EXCEPT ![from].count = m]
  BY Zenon, <1>a
<1> DEFINE place == [i \in 1 .. m |-> pos[i] - r + 1]
<1>3. \A i \in 1 .. m : /\ pos[i] \in Slots(from) /\ pos[i] \in Nat
                        /\ place[i] = pos[i] - r + 1
                        /\ place[i] \in 1 .. n
                        /\ pos[i] = r + place[i] - 1
  <2> SUFFICES ASSUME NEW i \in 1 .. m
               PROVE  /\ pos[i] \in Slots(from) /\ pos[i] \in Nat
                      /\ place[i] = pos[i] - r + 1
                      /\ place[i] \in 1 .. n
                      /\ pos[i] = r + place[i] - 1
    OBVIOUS
  <2>1. pos[i] \in Slots(from) /\ place[i] = pos[i] - r + 1
    OBVIOUS
  <2>2. pos[i] \in Nat /\ r <= pos[i] /\ pos[i] < r + n
    BY <1>0, <2>1, SlotsOf
  <2>3. pos[i] - r + 1 \in 1 .. n /\ pos[i] = r + (pos[i] - r + 1) - 1
    <3> HIDE DEF r, n
    <3> QED BY SMTT(60), <1>1, <2>2
  <2> HIDE DEF place, r, n
  <2> QED BY <2>1, <2>2, <2>3
<1>4. place \in [1 .. m -> 1 .. Len(s)]
  BY <1>1, <1>3
<1>5. \A i, j \in 1 .. m : i < j => place[i] < place[j]
  <2> SUFFICES ASSUME NEW i \in 1 .. m, NEW j \in 1 .. m, i < j
               PROVE  place[i] < place[j]
    OBVIOUS
  <2>1. pos[i] < pos[j]
    BY <1>2
  <2>2. /\ pos[i] \in Nat /\ place[i] = pos[i] - r + 1
        /\ pos[j] \in Nat /\ place[j] = pos[j] - r + 1
    BY <1>3
  <2> HIDE DEF place, r
  <2> QED BY <1>1, <2>1, <2>2
<1>6. \A k \in 1 .. Len(s) : s[k] # use <=> \E i \in 1 .. m : place[i] = k
  <2> SUFFICES ASSUME NEW k \in 1 .. n
               PROVE  s[k] # use <=> \E i \in 1 .. m : place[i] = k
    BY <1>1
  <2>1. r + k - 1 \in Slots(from) /\ s[k] = use_edges[r + k - 1]
    BY ContentSeq
  <2>2. ASSUME NEW i \in 1 .. m PROVE pos[i] = r + k - 1 <=> place[i] = k
    <3>1. pos[i] \in Nat /\ place[i] \in 1 .. n /\ pos[i] = r + place[i] - 1
      BY <1>3
    <3> HIDE DEF place
    <3> QED BY SMTT(60), <1>1, <3>1
  <2> QED BY <1>2, <2>1, <2>2
<1>7. use_lists'[from].refs = r /\ use_lists'[from].count = m
  BY <1>0, <1>2 DEF TypeOK
<1>8. \A i \in 1 .. m : use_edges'[r + i - 1] = s[place[i]]
  <2> SUFFICES ASSUME NEW i \in 1 .. m PROVE use_edges'[r + i - 1] = s[place[i]]
    OBVIOUS
  <2>1. i \in 1 .. n /\ r + i - 1 < r + m /\ (r + i - 1) - r + 1 = i
    BY SMTT(60), <1>1
  <2>2. r + i - 1 \in Slots(from) /\ r + i - 1 \in 0 .. use_edges_count - 1
    BY Zenon, <2>1, ContentSeq, SlotFilled
  <2>3. use_edges'[r + i - 1] = use_edges[pos[i]]
    BY <1>2, <2>1, <2>2
  <2>4. s[place[i]] = use_edges[r + place[i] - 1]
    BY Zenon, <1>3, ContentSeq
  <2> QED BY <1>3, <2>3, <2>4
<1>9. ListAt(use_lists', use_edges', from) = [i \in 1 .. m |-> s[place[i]]]
  BY <1>7, <1>8 DEF ListAt
<1>10. Content' = [Content EXCEPT ![from] = [i \in 1 .. m |-> s[place[i]]]]
  BY <1>0, <1>9, FramedContent
<1>11. m \in 0 .. Len(s)
  BY <1>1
<1> HIDE DEF place
<1> QED BY Zenon, <1>4, <1>5, <1>6, <1>10, <1>11 DEF Abstract!RemoveAll

(* The shared array with its holes, moves and reallocations implements     *)
(* independent sequences: for any number of definitions and uses, each     *)
(* ir_use_list_* call does to its own list what UseLists says and nothing  *)
(* to the others.                                                          *)
THEOREM StoreImplementsUseLists == Spec => ImplementsUseLists
<1>1. Spec => []IInv
  BY InitIInv, NextIInv, PTL DEF Spec
<1>2. Init => Abstract!Init
  BY Zenon, InitIInv, ContentSeq DEF Abstract!Init, Content
<1>3. IInv /\ [Next]_vars => [Abstract!Next]_Content
  <2> SUFFICES ASSUME IInv, [Next]_vars PROVE [Abstract!Next]_Content
    OBVIOUS
  <2>1. CASE UNCHANGED vars
    BY <2>1 DEF vars, Content
  <2>2. CASE Next
    <3>1. PICK d \in Ref :
            \/ \E u \in Use : AddInHole(d, u) \/ AddAtEnd(d, u) \/ AddMoved(d, u)
            \/ \E u \in Use : RemoveOne(d, u) \/ RemoveAll(d, u)
            \/ \E u, v \in Use : ReplaceOne(d, u, v) \/ ReplaceAll(d, u, v)
            \/ ClearUses(d)
      BY <2>2 DEF Next
    <3>2. \/ \E u \in Use : \/ Abstract!Add(d, u)
                            \/ Abstract!RemoveOne(d, u) \/ Abstract!RemoveAll(d, u)
          \/ \E u, v \in Use : Abstract!ReplaceOne(d, u, v) \/ Abstract!ReplaceAll(d, u, v)
          \/ Abstract!Clear(d)
      BY <3>1, AddInHoleAdds, AddAtEndAdds, AddMovedAdds, RemoveOneRemoves,
         RemoveAllRemoves, ReplaceOneReplaces, ReplaceAllReplaces, ClearUsesClears
    <3> QED BY <3>2 DEF Abstract!Next
  <2> QED BY <2>1, <2>2
<1> QED BY <1>1, <1>2, <1>3, PTL DEF Spec, ImplementsUseLists, Abstract!Spec

---------------------------------------------------------------------------
(* The buffer.  Fits is not inductive: the reallocation test compares page *)
(* counts, so that the buffer must be known to hold all of its last page.  *)
WholePages == Aligned(use_edges_count) <= capacity

LEMMA DivBounds ==
  ASSUME NEW a \in Nat, NEW p \in Nat \ {0}
  PROVE  a \div p \in Nat /\ (a \div p) * p <= a /\ a < (a \div p) * p + p
BY Z3

LEMMA TimesMonotonic ==
  ASSUME NEW q \in Int, NEW r \in Int, NEW p \in Nat, q <= r
  PROVE  q * p <= r * p
OBVIOUS

LEMMA QuotientOrder ==
  ASSUME NEW q \in Int, NEW r \in Int, NEW p \in Nat \ {0}, q * p < r * p + p
  PROVE  q <= r
<1>1. CASE r + 1 <= q
  <2>1. (r + 1) * p <= q * p
    BY <1>1, TimesMonotonic
  <2>2. (r + 1) * p = r * p + p
    OBVIOUS
  <2> QED BY <2>1, <2>2
<1> QED BY <1>1

(* IR_ALIGNED_SIZE rounds up, and keeps the order. *)
LEMMA AlignedAbove ==
  ASSUME NEW n \in Nat
  PROVE  n <= Aligned(n)
<1>1. n + PAGE - 1 \in Nat
  BY PageAssumption
<1>2. n + PAGE - 1 < ((n + PAGE - 1) \div PAGE) * PAGE + PAGE
  BY <1>1, DivBounds, PageAssumption
<1>3. Aligned(n) \in Nat
  BY AlignedNat
<1> QED BY <1>2, <1>3, PageAssumption DEF Aligned

LEMMA AlignedMonotonic ==
  ASSUME NEW m \in Nat, NEW n \in Nat, m <= n
  PROVE  Aligned(m) <= Aligned(n)
<1> DEFINE q == (m + PAGE - 1) \div PAGE
           r == (n + PAGE - 1) \div PAGE
<1>1. m + PAGE - 1 \in Nat /\ n + PAGE - 1 \in Nat /\ m + PAGE - 1 <= n + PAGE - 1
  BY PageAssumption
<1>2. /\ q \in Nat /\ q * PAGE <= m + PAGE - 1
      /\ r \in Nat /\ n + PAGE - 1 < r * PAGE + PAGE
  BY <1>1, DivBounds, PageAssumption
<1>3. q * PAGE \in Int /\ r * PAGE \in Int
  BY <1>2, PageAssumption
<1> HIDE DEF q, r
<1>4. q * PAGE < r * PAGE + PAGE
  BY <1>1, <1>2, <1>3, PageAssumption
<1>5. q <= r
  BY <1>2, <1>4, QuotientOrder, PageAssumption
<1>6. q * PAGE <= r * PAGE
  BY <1>2, <1>5, TimesMonotonic, PageAssumption
<1> QED BY <1>6 DEF Aligned, q, r

LEMMA GrowWholePages ==
  ASSUME TypeOK, WholePages, NEW to \in Ref, Grow(to), use_edges_count' \in Nat,
         use_edges_count' <= use_edges_count + use_lists[to].count + 1
  PROVE  WholePages'
<1> DEFINE projected == use_edges_count + use_lists[to].count + 1
<1>1. projected \in Nat
  BY DEF TypeOK
<1>2. Aligned(use_edges_count') <= Aligned(projected)
  BY <1>1, AlignedMonotonic
<1>3. /\ Aligned(use_edges_count') \in Nat /\ Aligned(projected) \in Nat
      /\ Aligned(use_edges_count) \in Nat /\ capacity \in Nat
  BY Zenon, <1>1, AlignedNat DEF TypeOK
<1>4. Aligned(projected) <= capacity'
  BY <1>3 DEF Grow, WholePages
<1>5. capacity' \in Nat
  BY GrowType
<1>6. Aligned(use_edges_count') <= capacity'
  <2> HIDE DEF projected
  <2> QED BY <1>2, <1>3, <1>4, <1>5
<1>7. Aligned(use_edges_count)' = Aligned(use_edges_count')
  BY DEF Aligned
<1> QED BY <1>6, <1>7 DEF WholePages

(* The elements always fit the buffer, although ir_use_list_add calls      *)
(* ir_mem_realloc only when the projected size reaches a new page.         *)
THEOREM EdgesFitBuffer == Spec => []Fits
<1>1. Init => WholePages
  <2> SUFFICES ASSUME Init PROVE WholePages
    OBVIOUS
  <2>1. use_edges_count \in Nat
    BY InitIInv DEF IInv, TypeOK
  <2> QED BY <2>1, AlignedNat DEF Init, WholePages
<1>2. TypeOK /\ TypeOK' /\ WholePages /\ [Next]_vars => WholePages'
  <2> SUFFICES ASSUME TypeOK, TypeOK', WholePages, [Next]_vars PROVE WholePages'
    OBVIOUS
  <2>1. CASE UNCHANGED <<use_edges_count, capacity>>
    BY <2>1 DEF WholePages, Aligned
  <2>2. ASSUME NEW to \in Ref, NEW use \in Use, AddAtEnd(to, use) PROVE WholePages'
    <3>1. Grow(to) /\ use_edges_count' = use_edges_count + 1
      BY <2>2 DEF AddAtEnd
    <3> QED BY <3>1, GrowWholePages DEF TypeOK
  <2>3. ASSUME NEW to \in Ref, NEW use \in Use, AddMoved(to, use) PROVE WholePages'
    <3>1. Grow(to) /\ use_edges_count' = use_edges_count + use_lists[to].count + 1
      BY <2>3 DEF AddMoved
    <3> QED BY SMTT(60), <3>1, GrowWholePages DEF TypeOK
  <2> QED BY <2>1, <2>2, <2>3
          DEF Next, vars, AddInHole, RemoveOne, RemoveAll, ReplaceOne, ReplaceAll, ClearUses
<1>3. TypeOK /\ WholePages => Fits
  <2> SUFFICES ASSUME TypeOK, WholePages PROVE Fits
    OBVIOUS
  <2>1. use_edges_count \in Nat /\ capacity \in Nat /\ Aligned(use_edges_count) \in Nat
    BY AlignedNat DEF TypeOK
  <2> QED BY <2>1, AlignedAbove DEF WholePages, Fits
<1> QED BY <1>1, <1>2, <1>3, ListsApart, PTL DEF Spec
===========================================================================
