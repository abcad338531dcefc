----------------------- MODULE MCSessionConsolidation -----------------------
(* Small instances of SessionConsolidation for TLC. *)
EXTENDS SessionConsolidation, TLC

CONSTANTS s1, s2

\* Two sessions whose events interleave.
Interleaved == 1 :> s1 @@ 2 :> s2 @@ 3 :> s1

\* Two sessions of one event each.
Pair == 1 :> s1 @@ 2 :> s2

\* A session that resumes after a first burst, and an event without a session.
Resumed == 1 :> s1 @@ 2 :> NoSession @@ 3 :> s1
=============================================================================
