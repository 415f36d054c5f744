----------------------------- MODULE UseLists -----------------------------
(***************************************************************************)
(* What the def->use lists promise: every definition has a sequence of     *)
(* uses of its own, and an operation on one definition leaves the lists of *)
(* all the others alone.                                                   *)
(***************************************************************************)
EXTENDS Integers, Sequences

CONSTANTS Ref, Use

VARIABLE uses     \* [Ref -> Seq(Use)]

Init == uses \in [Ref -> Seq(Use)]

Add(def, use) == uses' = [uses EXCEPT ![def] = Append(@, use)]

(* k is the first place where s holds use *)
IsFirst(s, use, k) == s[k] = use /\ \A i \in 1 .. k - 1 : s[i] # use

Without(s, k) == [i \in 1 .. Len(s) - 1 |-> IF i < k THEN s[i] ELSE s[i + 1]]

RemoveOne(def, use) ==
  \E k \in 1 .. Len(uses[def]) :
    /\ IsFirst(uses[def], use, k)
    /\ uses' = [uses EXCEPT ![def] = Without(@, k)]

(* The elements of s different from use, in their order: pos enumerates    *)
(* their places in s.                                                      *)
RemoveAll(def, use) ==
  LET s == uses[def]
  IN \E m \in 0 .. Len(s) : \E pos \in [1 .. m -> 1 .. Len(s)] :
       /\ \A i, j \in 1 .. m : i < j => pos[i] < pos[j]
       /\ \A k \in 1 .. Len(s) : s[k] # use <=> \E i \in 1 .. m : pos[i] = k
       /\ uses' = [uses EXCEPT ![def] = [i \in 1 .. m |-> s[pos[i]]]]

ReplaceOne(def, use, new_use) ==
  \E k \in 1 .. Len(uses[def]) :
    /\ IsFirst(uses[def], use, k)
    /\ uses' = [uses EXCEPT ![def][k] = new_use]

ReplaceAll(def, use, new_use) ==
  uses' = [uses EXCEPT ![def] =
             [i \in 1 .. Len(@) |-> IF @[i] = use THEN new_use ELSE @[i]]]

Clear(def) == uses' = [uses EXCEPT ![def] = << >>]

Next ==
  \E d \in Ref :
    \/ \E u \in Use : Add(d, u) \/ RemoveOne(d, u) \/ RemoveAll(d, u)
    \/ \E u, v \in Use : ReplaceOne(d, u, v) \/ ReplaceAll(d, u, v)
    \/ Clear(d)

Spec == Init /\ [][Next]_uses
===========================================================================
