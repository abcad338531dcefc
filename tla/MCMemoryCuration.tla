-------------------------- MODULE MCMemoryCuration --------------------------
(* Small instances of MemoryCuration for TLC. *)
EXTENDS MemoryCuration, TLC

CONSTANTS m1, m2

\* One process merges over and over, the other does everything.
MergerAndAny == m1 :> {"merge"} @@ m2 :> Kinds

\* The older of two memories is the more confident one.
OlderIsBetter == 1 :> 3 @@ 2 :> 1

\* The younger one is, until the older one has absorbed something.
YoungerIsBetter == 1 :> 1 @@ 2 :> 2

\* All memories are created equally confident.
AsConfident == [m \in Memories |-> 1]

\* Nothing but new memories and merges.
RememberAndMerge == m1 :> {"merge", "remember"}

\* SomeoneStands without its premise that none is lifted over a better one: fails
\* when a merge works on copies read before Remember raised the keeper's confidence
\* (service.go:412-414).
StandsThoughLifted ==
  \/ down \/ Stored = {} \/ unborn # {}
  \/ Stored # With(mem, "superseded")
  \/ \E w \in Workers : pc[w] = "insert"
=============================================================================
