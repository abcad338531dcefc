----------------------------- MODULE EventLease -----------------------------
(***************************************************************************)
(* What Reflect promises about the raw events it draws memories from,      *)
(* with no mention of batches, retries or rows: an event waits, is leased  *)
(* to one run, and is then either settled for good, handed back to wait    *)
(* for a later pass, or lost with the run that held it.                    *)
(***************************************************************************)
CONSTANTS Events, Workers

VARIABLES
  waiting,   \* events a later pass will pick up
  leased,    \* leased[w]: the events run w is working on
  settled,   \* events no pass will ever look at again
  lost       \* events that died with the run that held them

vars == <<waiting, leased, settled, lost>>

Leased == UNION {leased[w] : w \in Workers}

Init ==
  /\ waiting = {}
  /\ leased = [w \in Workers |-> {}]
  /\ settled = {}
  /\ lost = {}

Arrive(e) ==
  /\ e \notin waiting \cup Leased \cup settled \cup lost
  /\ waiting' = waiting \cup {e}
  /\ UNCHANGED <<leased, settled, lost>>

Lease(w, S) ==
  /\ S \subseteq waiting
  /\ waiting' = waiting \ S
  /\ leased' = [leased EXCEPT ![w] = @ \cup S]
  /\ UNCHANGED <<settled, lost>>

Settle(w, S) ==
  /\ S \subseteq leased[w]
  /\ leased' = [leased EXCEPT ![w] = @ \ S]
  /\ settled' = settled \cup S
  /\ UNCHANGED <<waiting, lost>>

Return(w, S) ==
  /\ S \subseteq leased[w]
  /\ leased' = [leased EXCEPT ![w] = @ \ S]
  /\ waiting' = waiting \cup S
  /\ UNCHANGED <<settled, lost>>

Lose(w) ==
  /\ lost' = lost \cup leased[w]
  /\ leased' = [leased EXCEPT ![w] = {}]
  /\ UNCHANGED <<waiting, settled>>

Next ==
  \/ \E e \in Events : Arrive(e)
  \/ \E w \in Workers :
       \/ \E S \in SUBSET Events : Lease(w, S) \/ Settle(w, S) \/ Return(w, S)
       \/ Lose(w)

Spec == Init /\ [][Next]_vars
=============================================================================
