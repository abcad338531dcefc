------------------------- MODULE ReflectRefinement -------------------------
(***************************************************************************)
(* Reflect implements EventLease, for any events, runs, batch sizes and    *)
(* faults, as long as the derived data are not reset.                      *)
(***************************************************************************)
EXTENDS ReflectProofs

Safe == Exclusive /\ HeldIsReflected /\ LostIsNotHeld /\ LocalSets

\* A step of run w that unmarks no row and takes nothing new.
Shrinks(w) ==
  /\ \A v \in Workers : v # w => Held(v)' = Held(v)
  /\ Held(w)' \subseteq Held(w)
  /\ UNCHANGED <<stored, reflected, lost>>

\* All of a run's steps but the claim and the release only shrink what it holds.
LEMMA StepKinds ==
  ASSUME TypeOK, Safe, NEW w \in Workers, Step(w)
  PROVE  \/ Shrinks(w) \/ Claim(w)
         \/ \E e \in Events : Release(w, e)
<1> USE DEF TypeOK, Safe
<1>1. CASE Start(w) BY <1>1 DEF Start, Shrinks, Held, store
<1>2. CASE Claim(w) BY <1>2
<1>3. CASE ClaimNothing(w) BY <1>3 DEF ClaimNothing, Shrinks, Held, store
<1>4. CASE Filter(w)
  <2>1. PICK F \in SUBSET queue[w] : queue' = [queue EXCEPT ![w] = F]
    BY <1>4 DEF Filter, Passes
  <2> QED BY <1>4, <2>1 DEF Filter, Shrinks, Held, store
<1>5. CASE NoMoreBatches(w) BY <1>5 DEF NoMoreBatches, Shrinks, Held, store
<1>6. CASE Extract(w)
  <2>1. PICK B \in SUBSET queue[w] : /\ queue' = [queue EXCEPT ![w] = @ \ B]
                                     /\ batch' = [batch EXCEPT ![w] = B]
    BY <1>6 DEF Extract
  <2> QED BY <1>6, <2>1 DEF Extract, Shrinks, Held, store
<1>7. CASE Check(w)
  <2>1. \/ /\ again' = [again EXCEPT ![w] = @ \cup batch[w]]
           /\ batch' = [batch EXCEPT ![w] = {}]
        \/ UNCHANGED <<again, batch>>
    BY <1>7 DEF Check
  <2>2. UNCHANGED <<queue, lost, stored, reflected>> BY <1>7 DEF Check, store
  <2> QED BY <2>1, <2>2 DEF Shrinks, Held
<1>8. CASE EndRecord(w) BY <1>8 DEF EndRecord, Shrinks, Held, store
<1>9. CASE EndClear(w) BY <1>9 DEF EndClear, Shrinks, Held, store
<1>10. CASE Finish(w) BY <1>10 DEF Finish, Shrinks, Held, store
<1>11. ASSUME NEW e \in Events, Process(w, e) PROVE Shrinks(w)
  BY <1>11 DEF Process, Shrinks, Held
<1>12. ASSUME NEW e \in Events, Record(w, e) PROVE Shrinks(w)
  <2>1. e \in Held(w) BY <1>12 DEF Record, LocalSets, Held
  <2>2. reflected' = reflected /\ stored' = stored
    BY <1>12, <2>1, MarkedRow DEF Record
  <2>3. again' = again \/ again' = [again EXCEPT ![w] = @ \cup {e}]
    BY <1>12 DEF Record
  <2> QED BY <1>12, <2>1, <2>2, <2>3 DEF Record, Shrinks, Held
<1>13. ASSUME NEW e \in Events, Clear(w, e) PROVE Shrinks(w)
  <2>1. e \in Held(w) BY <1>13 DEF Clear, LocalSets, Held
  <2>2. reflected' = reflected /\ stored' = stored
    BY <1>13, <2>1, MarkedRow DEF Clear
  <2> QED BY <1>13, <2>2 DEF Clear, Shrinks, Held
<1> QED BY <1>1, <1>2, <1>3, <1>4, <1>5, <1>6, <1>7, <1>8, <1>9, <1>10, <1>11,
           <1>12, <1>13 DEF Step

\* Whatever a run lets go of without unmarking it is settled.
LEMMA ShrinkSettles ==
  ASSUME Safe, NEW w \in Workers, Shrinks(w)
  PROVE  Lease!Settle(w, Held(w) \ Held(w)')
<1> DEFINE S == Held(w) \ Held(w)'
<1>1. S \subseteq Held(w) /\ Held(w) \ S = Held(w)' BY DEF Shrinks
<1>2. [v \in Workers |-> Held(v)]' =
        [[v \in Workers |-> Held(v)] EXCEPT ![w] = @ \ S]
  BY <1>1 DEF Shrinks
<1>3. S \subseteq reflected /\ S \cap lost = {}
  BY <1>1, InAllHeld DEF Safe, HeldIsReflected, LostIsNotHeld
<1>4. AllHeld' = AllHeld \ S
  <2>1. S \cap AllHeld' = {}
    BY <1>1, InAllHeldNext DEF Safe, Exclusive, Shrinks
  <2>2. AllHeld' \subseteq AllHeld BY InAllHeld, InAllHeldNext DEF Shrinks
  <2>3. AllHeld \ S \subseteq AllHeld'
    BY <1>1, InAllHeld, InAllHeldNext DEF Shrinks
  <2> QED BY <2>1, <2>2, <2>3
<1>5. ((reflected \ lost) \ AllHeld)' = ((reflected \ lost) \ AllHeld) \cup S
  BY <1>3, <1>4 DEF Shrinks
<1> QED BY <1>1, <1>2, <1>5 DEF Lease!Settle, Unclaimed, Shrinks

\* A claim leases waiting events.
LEMMA ClaimLeases ==
  ASSUME TypeOK, Safe, NEW w \in Workers, Claim(w)
  PROVE  \E S \in SUBSET Events : Lease!Lease(w, S)
<1> USE DEF TypeOK
<1>1. PICK S \in SUBSET stored :
        /\ S \subseteq Unclaimed
        /\ reflected' = reflected \cup S
        /\ queue' = [queue EXCEPT ![w] = S]
  BY DEF Claim, Claimable
<1>2. UNCHANGED <<stored, batch, again, lost>> BY DEF Claim
<1>3. queue[w] = {} BY DEF Claim, Safe, LocalSets
<1>4. \A v \in Workers : v # w => Held(v)' = Held(v) BY <1>1, <1>2 DEF Held
<1>5. Held(w)' = Held(w) \cup S BY <1>1, <1>2, <1>3 DEF Held
<1>6. [v \in Workers |-> Held(v)]' =
        [[v \in Workers |-> Held(v)] EXCEPT ![w] = @ \cup S]
  BY <1>4, <1>5
<1>7. AllHeld' = AllHeld \cup S
  <2> HIDE DEF TypeOK
  <2>1. AllHeld' \subseteq AllHeld \cup S
    <3>1. \A v \in Workers : Held(v)' \subseteq Held(v) \cup S BY <1>4, <1>5
    <3> QED BY <3>1, InAllHeld, InAllHeldNext
  <2>2. AllHeld \subseteq AllHeld'
    <3>1. \A v \in Workers : Held(v) \subseteq Held(v)' BY <1>4, <1>5
    <3> QED BY <3>1, InAllHeld, InAllHeldNext
  <2>3. S \subseteq AllHeld' BY <1>5, InAllHeldNext
  <2> QED BY <2>1, <2>2, <2>3
<1>8. Unclaimed' = Unclaimed \ S BY <1>1, <1>2 DEF Unclaimed
<1>9. ((reflected \ lost) \ AllHeld)' = (reflected \ lost) \ AllHeld
  BY <1>1, <1>2, <1>7 DEF Unclaimed
<1>10. Lease!Lease(w, S)
  BY <1>1, <1>2, <1>6, <1>8, <1>9 DEF Lease!Lease
<1> QED BY <1>1, <1>10

\* A release hands its event back.
LEMMA ReleaseReturns ==
  ASSUME TypeOK, Safe, NEW w \in Workers, NEW e \in Events, Release(w, e)
  PROVE  Lease!Return(w, {e})
<1> USE DEF TypeOK
<1>1. /\ again' = [again EXCEPT ![w] = @ \ {e}]
      /\ reflected' = reflected \ {e}
      /\ UNCHANGED <<stored, queue, batch, lost>>
  BY DEF Release, WriteRow
<1>2. queue[w] = {} /\ batch[w] = {} /\ e \in again[w]
  BY DEF Release, Safe, LocalSets
<1>3. \A v \in Workers : v # w => Held(v)' = Held(v) BY <1>1 DEF Held
<1>4. Held(w)' = Held(w) \ {e} BY <1>1, <1>2 DEF Held
<1>5. e \in Held(w) BY <1>2 DEF Held
<1>6. [v \in Workers |-> Held(v)]' =
        [[v \in Workers |-> Held(v)] EXCEPT ![w] = @ \ {e}]
  BY <1>3, <1>4
<1>7. AllHeld' = AllHeld \ {e}
  <2>1. \A v \in Workers : Held(v)' = Held(v) \ {e}
    BY <1>3, <1>4, <1>5 DEF Safe, Exclusive
  <2> QED BY <2>1, InAllHeld, InAllHeldNext
<1>8. e \in stored /\ e \in AllHeld
  BY <1>5, InAllHeld DEF Safe, HeldIsReflected
<1>9. Unclaimed' = Unclaimed \cup {e} BY <1>1, <1>8 DEF Unclaimed
<1>10. ((reflected \ lost) \ AllHeld)' = (reflected \ lost) \ AllHeld
  BY <1>1, <1>7, <1>8
<1> QED BY <1>1, <1>5, <1>6, <1>9, <1>10 DEF Lease!Return

\* A failed run loses what it holds.
LEMMA FailLoses ==
  ASSUME TypeOK, Safe, NEW w \in Workers, Fail(w)
  PROVE  Lease!Lose(w)
<1> USE DEF TypeOK
<1>1. UNCHANGED <<stored, reflected>> /\ lost' = lost \cup Held(w)
  BY DEF Fail, store
<1>2. \A v \in Workers : v # w => Held(v)' = Held(v) BY DEF Fail, Held
<1>3. Held(w)' = {} BY DEF Fail, Held
<1>4. [v \in Workers |-> Held(v)]' =
        [[v \in Workers |-> Held(v)] EXCEPT ![w] = {}]
  BY <1>2, <1>3
<1>5. AllHeld' = AllHeld \ Held(w)
  <2>1. \A v \in Workers : Held(v)' = Held(v) \ Held(w)
    BY <1>2, <1>3 DEF Safe, Exclusive
  <2> QED BY <2>1, InAllHeld, InAllHeldNext
<1>6. Held(w) \subseteq AllHeld BY InAllHeld
<1>7. ((reflected \ lost) \ AllHeld)' = (reflected \ lost) \ AllHeld
  BY <1>1, <1>5, <1>6
<1> QED BY <1>1, <1>4, <1>7 DEF Lease!Lose, Unclaimed

\* A new event waits; changes to memories are not seen.
LEMMA WorldMaps ==
  ASSUME TypeOK, Safe,
         \/ \E e \in Events : Ingest(e)
         \/ \E t, u \in Texts : Remember(t) \/ Forget(t) \/ Reword(t, u)
  PROVE  (\E e \in Events : Lease!Arrive(e)) \/ UNCHANGED Lease!vars
<1> USE DEF TypeOK, UserChange
<1>1. \A v \in Workers : Held(v)' = Held(v)
  BY DEF Ingest, Remember, Forget, Reword, local, Held
<1>2. [v \in Workers |-> Held(v)]' = [v \in Workers |-> Held(v)] BY <1>1
<1>3. AllHeld' = AllHeld
  <2>1. \A x : x \in AllHeld' <=> x \in AllHeld
    BY <1>1, InAllHeld, InAllHeldNext
  <2> QED BY <2>1
<1>4. UNCHANGED <<reflected, lost>> BY DEF Ingest, Remember, Forget, Reword
<1>5. ASSUME NEW e \in Events, Ingest(e) PROVE Lease!Arrive(e)
  <2>1. e \notin stored /\ stored' = stored \cup {e} BY <1>5 DEF Ingest
  <2>2. e \notin reflected /\ e \notin AllHeld /\ e \notin lost
    BY <2>1 DEF Safe, HeldIsReflected
  <2>3. Unclaimed' = Unclaimed \cup {e}
    BY <1>4, <2>1, <2>2 DEF Unclaimed
  <2>4. e \notin Unclaimed BY <2>1 DEF Unclaimed
  <2>5. e \notin UNION {[v \in Workers |-> Held(v)][w] : w \in Workers}
    BY <2>2, InAllHeld
  <2> QED BY <1>2, <1>3, <1>4, <2>2, <2>3, <2>4, <2>5
             DEF Lease!Arrive, Lease!Leased
<1>6. CASE \E t, u \in Texts : Remember(t) \/ Forget(t) \/ Reword(t, u)
  <2>1. stored' = stored BY <1>6 DEF Remember, Forget, Reword
  <2> QED BY <1>2, <1>3, <1>4, <2>1 DEF Lease!vars, Unclaimed
<1> QED BY <1>5, <1>6

\* Without resets no reset ever hits a run.
LEMMA NeverRaced ==
  ASSUME MaxResets = 0, TypeOK, ~raced, [Next]_vars
  PROVE  ~raced' /\ ~ResetDerived
<1>1. ~ResetDerived BY DEF ResetDerived, TypeOK
<1>2. ASSUME NEW w \in Workers, Step(w) \/ Fail(w) PROVE raced' = raced
  BY <1>2 DEF Step, Start, Claim, ClaimNothing, Filter, NoMoreBatches, Extract,
     Check, EndRecord, EndClear, Finish, Process, Record, Clear, Release, Fail, budget
<1>3. CASE \/ \E e \in Events : Ingest(e)
           \/ \E t, u \in Texts : Remember(t) \/ Forget(t) \/ Reword(t, u)
  <2>1. raced' = raced
    BY <1>3 DEF Ingest, UserChange, Remember, Forget, Reword, budget
  <2> QED BY <2>1, <1>1
<1>4. CASE UNCHANGED vars BY <1>1, <1>4 DEF vars, budget
<1> QED BY <1>1, <1>2, <1>3, <1>4 DEF Next

\* Every step of Reflect is a step of EventLease, or changes nothing it shows.
LEMMA LeaseSteps ==
  ASSUME TypeOK, Safe, ~ResetDerived, [Next]_vars
  PROVE  [Lease!Next]_(Lease!vars)
<1>1. CASE UNCHANGED vars
  <2>1. \A v \in Workers : Held(v)' = Held(v) BY <1>1 DEF vars, local, Held
  <2>2. AllHeld' = AllHeld BY <2>1, InAllHeld, InAllHeldNext
  <2>3. UNCHANGED <<stored, reflected, lost>> BY <1>1 DEF vars, store
  <2> QED BY <2>1, <2>2, <2>3 DEF Lease!vars, Unclaimed
<1>2. CASE \/ \E e \in Events : Ingest(e)
           \/ \E t, u \in Texts : Remember(t) \/ Forget(t) \/ Reword(t, u)
  BY <1>2, WorldMaps DEF Lease!Next
<1>3. ASSUME NEW w \in Workers, Step(w) PROVE Lease!Next
  <2>1. CASE Shrinks(w)
    <3>1. Held(w) \ Held(w)' \in SUBSET Events BY DEF Held, TypeOK
    <3> QED BY <2>1, <3>1, ShrinkSettles DEF Lease!Next
  <2>2. CASE Claim(w) BY <2>2, ClaimLeases DEF Lease!Next
  <2>3. ASSUME NEW e \in Events, Release(w, e) PROVE Lease!Next
    <3>1. {e} \in SUBSET Events OBVIOUS
    <3> QED BY <2>3, <3>1, ReleaseReturns DEF Lease!Next
  <2> QED BY <1>3, <2>1, <2>2, <2>3, StepKinds
<1>4. ASSUME NEW w \in Workers, Fail(w) PROVE Lease!Next
  BY <1>4, FailLoses DEF Lease!Next
<1> QED BY <1>1, <1>2, <1>3, <1>4 DEF Next

\* Reflect keeps the promise of the abstract lease: however runs overlap and
\* fail, each event waits, is leased to one run, and is settled, handed back, or
\* lost with that run.  ResetDerived makes settled events wait again, which the
\* abstract specification does not know.
THEOREM LeaseImplemented ==
  ASSUME MaxResets = 0 PROVE Spec => ImplementsLease
<1>1. Init => ~raced BY DEF Init
<1>2. TypeOK /\ ~raced /\ [Next]_vars => ~raced' BY NeverRaced
<1>3. Spec => []~raced BY <1>1, <1>2, TypeCorrect, PTL DEF Spec
<1>4. Init => Lease!Init
  BY DEF Init, Lease!Init, Unclaimed, Held, AllHeld
<1>5. TypeOK /\ LeaseInv /\ ~raced /\ [Next]_vars => [Lease!Next]_(Lease!vars)
  BY NeverRaced, LeaseSteps DEF LeaseInv, Safe
<1> QED BY <1>3, <1>4, <1>5, TypeCorrect, LeaseSafe, PTL
           DEF Spec, ImplementsLease, Lease!Spec
=============================================================================
