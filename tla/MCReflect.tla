----------------------------- MODULE MCReflect -----------------------------
(* Small instances of Reflect for TLC: two wordings of one kind, which the  *)
(* heuristics find in two events.                                           *)
EXTENDS Reflect, TLC

CONSTANTS a, b

AllAlike == {{a, b}}
NoneAlike == {}
Facts == [t \in Texts |-> "fact"]
Found == (1 :> a) @@ (2 :> b)
FoundA == 1 :> a

Perms == Permutations(Workers)
=============================================================================
