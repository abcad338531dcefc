--------------------------- MODULE ReflectProofs ---------------------------
(***************************************************************************)
(* Proofs about Reflect for any events, any number of concurrent runs, any *)
(* batch sizes and any bounds on faults, user changes and resets.          *)
(***************************************************************************)
EXTENDS Reflect, TLAPS

\* Counters that saturate at MaxTries stay within it.
LEMMA IncType == ASSUME NEW n \in 0..MaxTries PROVE Inc(n) \in 0..MaxTries
  BY ConstantsAssumption DEF Inc, Min2

\* markExtracted keeps a memory's method and fallback count in range.
LEMMA MarkedType ==
  ASSUME NEW m \in Memory, NEW llm \in BOOLEAN, NEW retry \in BOOLEAN, NEW e \in Events
  PROVE  Marked(m, llm, retry, e) \in Memory
<1>1. m.fc \in 0..MaxTries BY DEF Memory
<1>2. Inc(m.fc) \in 0..MaxTries BY <1>1, IncType
<1>3. 0 \in 0..MaxTries BY ConstantsAssumption
<1> QED BY <1>2, <1>3 DEF Marked, Memory

LEMMA NewType ==
  ASSUME NEW sys \in Systems, NEW method \in {"none", "user", "llm", "heuristic"}
  PROVE  New(sys, method) \in Memory
BY ConstantsAssumption DEF New, Memory

\* A candidate leaves the memories in range.
LEMMA AbsorbType ==
  ASSUME TypeOK, NEW t \in Texts, NEW S \in SUBSET Events, NEW llm \in BOOLEAN,
         NEW retry \in BOOLEAN, NEW e \in Events, Absorb(t, S, llm, retry, e)
  PROVE  mem' \in [Texts -> Memory]
<1> DEFINE D == Duplicates(t, S, llm)
           N == [New("reflect", "none") EXCEPT !.of = S]
<1>1. New("reflect", "none") \in Memory BY NewType DEF Systems
<1>2. NoMemory \in Memory BY <1>1 DEF NoMemory
<1>3. N \in Memory BY <1>1 DEF Memory
<1>4. Marked(N, llm, retry, e) \in Memory BY <1>3, MarkedType
<1>5. ASSUME NEW k \in D PROVE Kept(k, D, S, llm, retry, e) \in Memory
  <2>1. k \in Texts /\ mem[k] \in Memory BY DEF Duplicates, TypeOK
  <2>2. UNION {mem[u].of : u \in D} \subseteq Events BY DEF Duplicates, TypeOK, Memory
  <2> DEFINE m == [mem[k] EXCEPT !.of = S \cup UNION {mem[u].of : u \in D}]
  <2>3. m \in Memory BY <2>1, <2>2 DEF Memory
  <2>4. Marked(m, llm, retry, e) \in Memory BY <2>3, MarkedType
  <2> HIDE DEF D
  <2> QED BY <2>3, <2>4 DEF Kept
<1>6. CASE mem' = [mem EXCEPT ![t] = Marked(N, llm, retry, e)]
  BY <1>4, <1>6 DEF TypeOK
<1>7. ASSUME NEW k \in D, NEW u \in Texts,
             mem' = [x \in Texts |-> IF x = u THEN Kept(k, D, S, llm, retry, e)
                                    ELSE IF x \in D THEN NoMemory ELSE mem[x]]
      PROVE  mem' \in [Texts -> Memory]
  <2> HIDE DEF D
  <2> QED BY <1>2, <1>5, <1>7 DEF TypeOK
<1> QED BY <1>6, <1>7 DEF Absorb

\* What a whole-row write does to the types of the variables it touches.
LEMMA WriteRowType ==
  ASSUME TypeOK, NEW w \in Workers, NEW e \in Events,
         NEW n \in 0..MaxTries, NEW mark \in BOOLEAN, WriteRow(w, e, n, mark)
  PROVE  /\ fbCount' \in [Events -> 0..MaxTries]
         /\ copies' \in [Workers -> [Events -> 0..MaxTries]]
         /\ reflected' \subseteq Events
         /\ UNCHANGED <<llmBacked, stored, mem, forgotten>>
  BY DEF WriteRow, TypeOK

\* No step takes a variable out of its type.
LEMMA TypeStep == ASSUME TypeOK, [Next]_vars PROVE TypeOK'
<1> USE DEF TypeOK
<1>0. CASE UNCHANGED vars
  BY <1>0 DEF vars, store, local, budget
<1>1. ASSUME NEW e \in Events, Ingest(e) PROVE TypeOK'
  BY <1>1 DEF Ingest, local, budget
<1>5. ASSUME NEW t \in Texts, NEW u \in Texts, Remember(t) \/ Forget(t) \/ Reword(t, u)
      PROVE  TypeOK'
  <2>1. NoMemory \in Memory BY NewType DEF NoMemory, Systems
  <2>2. New("remember", "user") \in Memory BY NewType DEF Systems
  <2>3. UserChange BY <1>5 DEF Remember, Forget, Reword
  <2>4. mem' \in [Texts -> Memory] BY <1>5, <2>1, <2>2 DEF Remember, Forget, Reword
  <2>5. forgotten' \in [Texts -> SUBSET Systems]
    <3>1. mem[t].source \in Systems BY DEF Memory
    <3>2. CASE Forget(t) BY <3>1, <3>2 DEF Forget
    <3> QED BY <1>5, <3>2 DEF Remember, Reword
  <2>6. reworded' \in BOOLEAN BY <1>5 DEF Remember, Forget, Reword
  <2> QED BY <2>3, <2>4, <2>5, <2>6 DEF UserChange, local
<1>2. CASE ResetDerived
  <2>1. NoMemory \in Memory BY NewType DEF NoMemory, Systems
  <2>2. forgotten' \in [Texts -> SUBSET Systems] BY <1>2 DEF ResetDerived, Systems
  <2>3. mem' \in [Texts -> Memory] BY <1>2, <2>1 DEF ResetDerived
  <2> QED BY <1>2, <2>2, <2>3 DEF ResetDerived, local
<1>3. ASSUME NEW w \in Workers, Step(w) \/ Fail(w) PROVE TypeOK'
  <2>1. CASE Start(w) BY <2>1 DEF Start, Goto, PCs, store, budget
  <2>2. CASE Claim(w)
    <3>1. PICK S \in SUBSET stored :
            /\ reflected' = reflected \cup S
            /\ queue' = [queue EXCEPT ![w] = S]
            /\ copies' = [copies EXCEPT ![w] =
                 [e \in Events |-> IF e \in S THEN fbCount[e] ELSE @[e]]]
      BY <2>2 DEF Claim
    <3> QED BY <2>2, <3>1 DEF Claim, Goto, PCs, budget
  <2>3. CASE ClaimNothing(w) BY <2>3 DEF ClaimNothing, Goto, PCs, store, budget
  <2>4. CASE Filter(w)
    <3>1. PICK F \in SUBSET Events :
            /\ queue' = [queue EXCEPT ![w] = F]
            /\ unanswered' = unanswered \ (queue[w] \ F)
      BY <2>4 DEF Filter
    <3> QED BY <2>4, <3>1 DEF Filter, Goto, PCs, store, budget
  <2>5. CASE NoMoreBatches(w)
    BY <2>5 DEF NoMoreBatches, Goto, PCs, store, budget
  <2>6. CASE Extract(w)
    <3> HIDE DEF TypeOK
    <3>1. PICK B \in SUBSET queue[w], fell \in BOOLEAN, found \in BOOLEAN :
            /\ queue' = [queue EXCEPT ![w] = @ \ B]
            /\ batch' = [batch EXCEPT ![w] = B]
            /\ todo' = [todo EXCEPT ![w] = B]
            /\ fellBack' = [fellBack EXCEPT ![w] = fell]
            /\ unanswered' = IF fell THEN unanswered \cup B ELSE unanswered \ B
            /\ Goto(w, After(fell, found))
      BY <2>6 DEF Extract
    <3> USE DEF TypeOK
    <3>2. After(fell, found) \in PCs BY DEF After, PCs
    <3>3. unanswered' \subseteq Events BY <3>1
    <3> QED BY <2>6, <3>1, <3>2, <3>3 DEF Extract, Goto, store, budget
  <2>7. CASE Check(w)
    <3>1. CASE fellBack[w] /\ ShouldRetry(batch[w])
      <4>1. /\ again' = [again EXCEPT ![w] = @ \cup batch[w]]
            /\ batch' = [batch EXCEPT ![w] = {}]
            /\ pc' = [pc EXCEPT ![w] = "batch"]
            /\ UNCHANGED todo
        BY <2>7, <3>1 DEF Check, Goto
      <4> QED BY <2>7, <4>1 DEF Check, PCs, store, budget
    <3>2. CASE ~(fellBack[w] /\ ShouldRetry(batch[w]))
      <4>1. \E l \in {"recordInactive", "clear"} : pc' = [pc EXCEPT ![w] = l]
        BY <2>7, <3>2 DEF Check, Goto
      <4> QED BY <2>7, <3>2, <4>1 DEF Check, PCs, store, budget
    <3> QED BY <3>1, <3>2
  <2>8. CASE EndRecord(w) BY <2>8 DEF EndRecord, Goto, PCs, store, budget
  <2>9. CASE EndClear(w) BY <2>9 DEF EndClear, Goto, PCs, store, budget
  <2>10. CASE Finish(w)
    <3>1. 0 \in 0..MaxTries BY ConstantsAssumption
    <3> QED BY <2>10, <3>1 DEF Finish, Goto, PCs, store, budget
  <2>11. CASE Fail(w)
    <3>1. 0 \in 0..MaxTries BY ConstantsAssumption
    <3>2. Held(w) \subseteq Events BY DEF Held
    <3> QED BY <2>11, <3>1, <3>2 DEF Fail, Goto, PCs, store
  <2>12. ASSUME NEW e \in Events, Process(w, e) PROVE TypeOK'
    <3>1. mem' \in [Texts -> Memory]
      <4>1. FromLLM(w) \in BOOLEAN /\ fellBack[w] \in BOOLEAN BY DEF FromLLM
      <4>2. CASE UNCHANGED mem BY <4>2
      <4>3. ASSUME NEW t \in Texts, NEW S \in SUBSET batch[w],
                   Absorb(t, S, FromLLM(w), fellBack[w], e)
            PROVE  mem' \in [Texts -> Memory]
        <5>1. S \in SUBSET Events OBVIOUS
        <5> HIDE DEF TypeOK
        <5> QED BY <4>1, <4>3, <5>1, AbsorbType
      <4> QED BY <2>12, <4>2, <4>3 DEF Process
    <3> QED BY <2>12, <3>1 DEF Process, budget
  <2>13. ASSUME NEW e \in Events, Record(w, e) PROVE TypeOK'
    <3>1. Inc(copies[w][e]) \in 0..MaxTries BY IncType
    <3>2. WriteRow(w, e, Inc(copies[w][e]), TRUE) BY <2>13 DEF Record
    <3> HIDE DEF TypeOK
    <3>3. /\ fbCount' \in [Events -> 0..MaxTries]
          /\ copies' \in [Workers -> [Events -> 0..MaxTries]]
          /\ reflected' \subseteq Events
          /\ UNCHANGED <<llmBacked, stored, mem, forgotten>>
      BY <3>1, <3>2, WriteRowType
    <3> QED BY <2>13, <3>3 DEF Record, TypeOK, budget
  <2>14. ASSUME NEW e \in Events, Clear(w, e) PROVE TypeOK'
    <3>1. 0 \in 0..MaxTries BY ConstantsAssumption
    <3>2. WriteRow(w, e, 0, TRUE) BY <2>14 DEF Clear
    <3> HIDE DEF TypeOK
    <3>3. /\ fbCount' \in [Events -> 0..MaxTries]
          /\ copies' \in [Workers -> [Events -> 0..MaxTries]]
          /\ reflected' \subseteq Events
          /\ UNCHANGED <<llmBacked, stored, mem, forgotten>>
      BY <3>1, <3>2, WriteRowType
    <3> QED BY <2>14, <3>3 DEF Clear, TypeOK, budget
  <2>15. ASSUME NEW e \in Events, Release(w, e) PROVE TypeOK'
    <3>1. copies[w][e] \in 0..MaxTries OBVIOUS
    <3>2. WriteRow(w, e, copies[w][e], FALSE) BY <2>15 DEF Release
    <3> HIDE DEF TypeOK
    <3>3. /\ fbCount' \in [Events -> 0..MaxTries]
          /\ copies' \in [Workers -> [Events -> 0..MaxTries]]
          /\ reflected' \subseteq Events
          /\ UNCHANGED <<llmBacked, stored, mem, forgotten>>
      BY <3>1, <3>2, WriteRowType
    <3> QED BY <2>15, <3>3 DEF Release, TypeOK, budget
  <2> HIDE DEF TypeOK
  <2> QED BY <1>3, <2>1, <2>2, <2>3, <2>4, <2>5, <2>6, <2>7, <2>8, <2>9, <2>10,
             <2>11, <2>12, <2>13, <2>14, <2>15 DEF Step
<1> HIDE DEF TypeOK
<1> QED BY <1>0, <1>1, <1>2, <1>3, <1>5 DEF Next

\* Every variable keeps to the values the code can give it.
THEOREM TypeCorrect == Spec => []TypeOK
<1>1. Init => TypeOK
  <2>1. 0 \in 0..MaxTries BY ConstantsAssumption
  <2>2. NoMemory \in Memory BY NewType DEF NoMemory, Systems
  <2> SUFFICES ASSUME Init PROVE TypeOK OBVIOUS
  <2>3. /\ fbCount \in [Events -> 0..MaxTries]
        /\ copies \in [Workers -> [Events -> 0..MaxTries]]
    BY <2>1 DEF Init
  <2>4. pc \in [Workers -> PCs] /\ mem \in [Texts -> Memory]
    BY <2>2 DEF Init, PCs
  <2> QED BY <2>3, <2>4 DEF Init, TypeOK
<1>2. TypeOK /\ [Next]_vars => TypeOK' BY TypeStep
<1> QED BY <1>1, <1>2, PTL DEF Spec
-----------------------------------------------------------------------------
LEMMA InAllHeld == \A x : x \in AllHeld <=> \E w \in Workers : x \in Held(w)
  BY DEF AllHeld

LEMMA InAllHeldNext ==
  \A x : x \in AllHeld' <=> \E w \in Workers : x \in Held(w)'
  BY DEF AllHeld

\* A run that drops some of what it holds, and unmarks no row, disturbs nobody.
LEMMA Shrink ==
  ASSUME Exclusive, HeldIsReflected, LostIsNotHeld, NEW w \in Workers,
         \A v \in Workers : v # w => Held(v)' = Held(v),
         Held(w)' \subseteq Held(w),
         reflected \subseteq reflected', reflected' \subseteq stored',
         lost' = lost
  PROVE  Exclusive' /\ HeldIsReflected' /\ LostIsNotHeld'
<1>1. \A v \in Workers : Held(v)' \subseteq Held(v) OBVIOUS
<1>2. Exclusive' BY <1>1 DEF Exclusive
<1>3. AllHeld' \subseteq AllHeld BY <1>1, InAllHeld, InAllHeldNext
<1>4. HeldIsReflected' BY <1>3 DEF HeldIsReflected
<1>5. LostIsNotHeld' BY <1>3 DEF LostIsNotHeld
<1> QED BY <1>2, <1>4, <1>5

\* What a whole-row write that sets reflected_at does for LeaseInv.
LEMMA MarkedRow ==
  ASSUME HeldIsReflected, NEW w \in Workers, NEW e \in Held(w), NEW n,
         WriteRow(w, e, n, TRUE)
  PROVE  reflected' = reflected /\ stored' = stored
<1>1. e \in reflected BY InAllHeld DEF HeldIsReflected
<1> QED BY <1>1 DEF WriteRow

\* The steps of one run keep the claims of all the runs apart.
LEMMA LeaseOfStep ==
  ASSUME TypeOK, ~raced, Exclusive, HeldIsReflected, LostIsNotHeld, LocalSets,
         NEW w \in Workers, Step(w)
  PROVE  (Exclusive /\ HeldIsReflected /\ LostIsNotHeld /\ LocalSets)'
<1> USE DEF TypeOK
<1> DEFINE Safe == Exclusive /\ HeldIsReflected /\ LostIsNotHeld
           Frame == /\ \A v \in Workers : v # w => Held(v)' = Held(v)
                    /\ lost' = lost
           Quiet == /\ Held(w)' \subseteq Held(w)
                    /\ reflected' = reflected /\ stored' = stored
<1>0. Frame /\ Quiet => Safe'
  BY Shrink DEF HeldIsReflected
<1>1. CASE Start(w)
  <2>1. Frame /\ Quiet BY <1>1 DEF Start, Held, store
  <2>2. LocalSets' BY <1>1 DEF Start, Goto, LocalSets
  <2> QED BY <1>0, <2>1, <2>2
<1>2. CASE Claim(w)
  <2>1. PICK S \in SUBSET stored :
          /\ S \subseteq Unclaimed
          /\ reflected' = reflected \cup S
          /\ queue' = [queue EXCEPT ![w] = S]
    BY <1>2 DEF Claim, Claimable
  <2>2. UNCHANGED <<stored, batch, again, todo, lost>> BY <1>2 DEF Claim
  <2>3. \A v \in Workers : v # w => Held(v)' = Held(v)
    BY <2>1, <2>2 DEF Held
  <2>4. Held(w)' \subseteq Held(w) \cup S BY <2>1, <2>2 DEF Held
  <2>5. \A v \in Workers : S \cap Held(v) = {}
    BY <2>1, InAllHeld DEF HeldIsReflected, Unclaimed
  <2>6. Exclusive'
    <3> SUFFICES ASSUME NEW u \in Workers, NEW v \in Workers, u # v
                 PROVE  Held(u)' \cap Held(v)' = {}
      BY DEF Exclusive
    <3>1. Held(u) \cap Held(v) = {} BY DEF Exclusive
    <3>2. CASE u = w BY <2>3, <2>4, <2>5, <3>1, <3>2
    <3>3. CASE v = w BY <2>3, <2>4, <2>5, <3>1, <3>3
    <3>4. CASE u # w /\ v # w BY <2>3, <3>1, <3>4
    <3> QED BY <3>2, <3>3, <3>4
  <2>7. AllHeld' \subseteq AllHeld \cup S
    <3>1. \A v \in Workers : Held(v)' \subseteq Held(v) \cup S BY <2>3, <2>4
    <3> QED BY <3>1, InAllHeld, InAllHeldNext
  <2>8. HeldIsReflected' BY <2>1, <2>2, <2>7 DEF HeldIsReflected
  <2>9. lost \cap S = {} BY <2>1 DEF HeldIsReflected, Unclaimed
  <2>10. LostIsNotHeld' BY <2>2, <2>7, <2>9 DEF LostIsNotHeld
  <2>11. LocalSets'
    <3>1. S \cap again[w] = {} /\ S \cap batch[w] = {} BY <2>5 DEF Held
    <3> QED BY <1>2, <2>1, <2>2, <3>1 DEF Claim, Goto, LocalSets
  <2> QED BY <2>6, <2>8, <2>10, <2>11
<1>3. CASE ClaimNothing(w)
  <2>1. Frame /\ Quiet BY <1>3 DEF ClaimNothing, Held, store
  <2>2. LocalSets' BY <1>3 DEF ClaimNothing, Goto, LocalSets
  <2> QED BY <1>0, <2>1, <2>2
<1>4. CASE Filter(w)
  <2>1. PICK F \in SUBSET queue[w] : queue' = [queue EXCEPT ![w] = F]
    BY <1>4 DEF Filter, Passes
  <2>2. Frame /\ Quiet BY <1>4, <2>1 DEF Filter, Held, store
  <2>3. LocalSets' BY <1>4, <2>1 DEF Filter, Goto, LocalSets
  <2> QED BY <1>0, <2>2, <2>3
<1>5. CASE NoMoreBatches(w)
  <2>1. Frame /\ Quiet BY <1>5 DEF NoMoreBatches, Held, store
  <2>2. LocalSets' BY <1>5 DEF NoMoreBatches, Goto, LocalSets
  <2> QED BY <1>0, <2>1, <2>2
<1>6. CASE Extract(w)
  <2>1. PICK B \in SUBSET queue[w], fell \in BOOLEAN, found \in BOOLEAN :
          /\ queue' = [queue EXCEPT ![w] = @ \ B]
          /\ batch' = [batch EXCEPT ![w] = B]
          /\ todo' = [todo EXCEPT ![w] = B]
          /\ pc' = [pc EXCEPT ![w] = After(fell, found)]
    BY <1>6 DEF Extract, Goto
  <2>2. After(fell, found) \in {"process", "recordEmpty", "clear"} BY DEF After
  <2>3. Frame /\ Quiet BY <1>6, <2>1 DEF Extract, Held, store
  <2>4. LocalSets'
    <3>1. pc'[w] \in {"process", "recordEmpty", "clear"} BY <2>1, <2>2
    <3> QED BY <1>6, <2>1, <3>1 DEF Extract, LocalSets
  <2> QED BY <1>0, <2>3, <2>4
<1>7. CASE Check(w)
  <2>1. \/ /\ again' = [again EXCEPT ![w] = @ \cup batch[w]]
           /\ batch' = [batch EXCEPT ![w] = {}]
           /\ pc' = [pc EXCEPT ![w] = "batch"]
           /\ UNCHANGED todo
        \/ /\ \E l \in {"recordInactive", "clear"} : pc' = [pc EXCEPT ![w] = l]
           /\ todo' = [todo EXCEPT ![w] = batch[w]]
           /\ UNCHANGED <<again, batch>>
    BY <1>7 DEF Check, Goto
  <2>2. UNCHANGED <<queue, lost, stored, reflected>> BY <1>7 DEF Check, store
  <2>3. Frame
    BY <2>1, <2>2 DEF Held
  <2>4. Held(w)' \subseteq Held(w) BY <2>1, <2>2 DEF Held
  <2>5. LocalSets'
    <3>1. queue[w] \cap batch[w] = {} BY DEF LocalSets
    <3>2. pc[w] = "process" /\ todo[w] = {} BY <1>7 DEF Check
    <3>3. ASSUME again' = [again EXCEPT ![w] = @ \cup batch[w]],
                 batch' = [batch EXCEPT ![w] = {}],
                 pc' = [pc EXCEPT ![w] = "batch"], UNCHANGED todo
          PROVE  LocalSets'
      BY <2>2, <3>1, <3>2, <3>3 DEF LocalSets
    <3>4. ASSUME NEW l \in {"recordInactive", "clear"}, pc' = [pc EXCEPT ![w] = l],
                 todo' = [todo EXCEPT ![w] = batch[w]], UNCHANGED <<again, batch>>
          PROVE  LocalSets'
      BY <2>2, <3>1, <3>2, <3>4 DEF LocalSets
    <3> QED BY <2>1, <3>3, <3>4
  <2> QED BY <1>0, <2>2, <2>3, <2>4, <2>5
<1>8. CASE EndRecord(w)
  <2>1. Frame /\ Quiet BY <1>8 DEF EndRecord, Held, store
  <2>2. /\ UNCHANGED <<queue, again>> /\ todo[w] = {}
        /\ \/ /\ pc' = [pc EXCEPT ![w] = "clear"]
              /\ todo' = [todo EXCEPT ![w] = batch[w]] /\ UNCHANGED batch
           \/ /\ pc' = [pc EXCEPT ![w] = "batch"]
              /\ batch' = [batch EXCEPT ![w] = {}] /\ UNCHANGED todo
    BY <1>8 DEF EndRecord, Goto
  <2>3. ASSUME pc' = [pc EXCEPT ![w] = "clear"],
               todo' = [todo EXCEPT ![w] = batch[w]], UNCHANGED batch
        PROVE  LocalSets'
    BY <2>2, <2>3 DEF LocalSets
  <2>4. ASSUME pc' = [pc EXCEPT ![w] = "batch"],
               batch' = [batch EXCEPT ![w] = {}], UNCHANGED todo
        PROVE  LocalSets'
    BY <2>2, <2>4 DEF LocalSets
  <2>5. LocalSets' BY <2>2, <2>3, <2>4
  <2> QED BY <1>0, <2>1, <2>5
<1>9. CASE EndClear(w)
  <2>1. Frame /\ Quiet BY <1>9 DEF EndClear, Held, store
  <2>2. LocalSets' BY <1>9 DEF EndClear, Goto, LocalSets
  <2> QED BY <1>0, <2>1, <2>2
<1>10. CASE Finish(w)
  <2>1. Frame /\ Quiet BY <1>10 DEF Finish, Held, store
  <2>2. LocalSets' BY <1>10 DEF Finish, Goto, LocalSets
  <2> QED BY <1>0, <2>1, <2>2
<1>11. ASSUME NEW e \in Events, Process(w, e) PROVE (Safe /\ LocalSets)'
  <2>1. Frame /\ Quiet BY <1>11 DEF Process, Held
  <2>2. LocalSets' BY <1>11 DEF Process, LocalSets
  <2> QED BY <1>0, <2>1, <2>2
<1>12. ASSUME NEW e \in Events, Record(w, e) PROVE (Safe /\ LocalSets)'
  <2>1. e \in Held(w) BY <1>12 DEF Record, LocalSets, Held
  <2>2. reflected' = reflected /\ stored' = stored
    BY <1>12, <2>1, MarkedRow DEF Record
  <2>3. again' = again \/ again' = [again EXCEPT ![w] = @ \cup {e}]
    BY <1>12 DEF Record
  <2>4. Frame /\ Quiet BY <1>12, <2>1, <2>2, <2>3 DEF Record, Held
  <2>5. LocalSets' BY <1>12, <2>3 DEF Record, LocalSets
  <2> QED BY <1>0, <2>4, <2>5
<1>13. ASSUME NEW e \in Events, Clear(w, e) PROVE (Safe /\ LocalSets)'
  <2>1. e \in Held(w) BY <1>13 DEF Clear, LocalSets, Held
  <2>2. reflected' = reflected /\ stored' = stored
    BY <1>13, <2>1, MarkedRow DEF Clear
  <2>3. Frame /\ Quiet BY <1>13, <2>2 DEF Clear, Held
  <2>4. LocalSets' BY <1>13 DEF Clear, LocalSets
  <2> QED BY <1>0, <2>3, <2>4
<1>14. ASSUME NEW e \in Events, Release(w, e) PROVE (Safe /\ LocalSets)'
  <2>1. /\ again' = [again EXCEPT ![w] = @ \ {e}]
        /\ reflected' = reflected \ {e}
        /\ UNCHANGED <<stored, queue, batch, todo, pc, lost>>
    BY <1>14 DEF Release, WriteRow
  <2>2. queue[w] = {} /\ batch[w] = {} /\ e \in again[w]
    BY <1>14 DEF Release, LocalSets
  <2>3. \A v \in Workers : v # w => Held(v)' = Held(v) BY <2>1 DEF Held
  <2>4. Held(w)' = Held(w) \ {e} BY <2>1, <2>2 DEF Held
  <2>5. e \in Held(w) BY <2>2 DEF Held
  <2>6. \A v \in Workers : e \notin Held(v)'
    BY <2>3, <2>4, <2>5 DEF Exclusive
  <2>7. Exclusive'
    <3>1. \A v \in Workers : Held(v)' \subseteq Held(v) BY <2>3, <2>4
    <3> HIDE DEF TypeOK
    <3> QED BY <3>1 DEF Exclusive
  <2>8. AllHeld' \subseteq AllHeld \ {e}
    <3>1. \A v \in Workers : Held(v)' \subseteq Held(v) BY <2>3, <2>4
    <3> QED BY <2>6, <3>1, InAllHeld, InAllHeldNext
  <2>9. e \notin lost BY <2>5, InAllHeld DEF LostIsNotHeld
  <2>10. HeldIsReflected' /\ LostIsNotHeld'
    BY <2>1, <2>8, <2>9 DEF HeldIsReflected, LostIsNotHeld
  <2>11. LocalSets' BY <2>1 DEF LocalSets
  <2> QED BY <2>7, <2>10, <2>11
<1> QED BY <1>1, <1>2, <1>3, <1>4, <1>5, <1>6, <1>7, <1>8, <1>9, <1>10, <1>11,
           <1>12, <1>13, <1>14 DEF Step

\* A failed run takes what it held with it and touches no row.
LEMMA LeaseOfFail ==
  ASSUME TypeOK, Exclusive, HeldIsReflected, LostIsNotHeld, LocalSets,
         NEW w \in Workers, Fail(w)
  PROVE  (Exclusive /\ HeldIsReflected /\ LostIsNotHeld /\ LocalSets)'
<1> USE DEF TypeOK
<1>1. UNCHANGED <<stored, reflected>> /\ lost' = lost \cup Held(w)
  BY DEF Fail, store
<1>2. \A v \in Workers : v # w => Held(v)' = Held(v) BY DEF Fail, Held
<1>3. Held(w)' = {} BY DEF Fail, Held
<1>4. Exclusive' BY <1>2, <1>3 DEF Exclusive
<1>5. AllHeld' \subseteq AllHeld BY <1>2, <1>3, InAllHeld, InAllHeldNext
<1>6. Held(w) \subseteq AllHeld BY InAllHeld
<1>7. HeldIsReflected' BY <1>1, <1>5, <1>6 DEF HeldIsReflected
<1>8. AllHeld' \cap Held(w) = {}
  BY <1>2, <1>3, InAllHeldNext DEF Exclusive
<1>9. LostIsNotHeld' BY <1>1, <1>5, <1>8 DEF LostIsNotHeld
<1>10. LocalSets' BY DEF Fail, Goto, LocalSets
<1> QED BY <1>4, <1>7, <1>9, <1>10

\* No step lets two runs hold one event, unless a reset hits a run in progress.
LEMMA LeaseStep ==
  ASSUME TypeOK, LeaseInv, [Next]_vars PROVE LeaseInv'
<1> DEFINE Good == Exclusive /\ HeldIsReflected /\ LostIsNotHeld /\ LocalSets
<1>1. CASE UNCHANGED vars
  BY <1>1 DEF vars, store, local, budget, LeaseInv, Exclusive, HeldIsReflected,
              LostIsNotHeld, LocalSets, AllHeld, Held
<1>2. ASSUME \/ \E e \in Events : Ingest(e)
             \/ \E t, u \in Texts : Remember(t) \/ Forget(t) \/ Reword(t, u)
      PROVE  LeaseInv'
  <2>1. /\ UNCHANGED <<local, raced, lost, reflected>>
        /\ stored \subseteq stored'
    BY <1>2 DEF Ingest, Remember, Forget, Reword, UserChange, budget
  <2> QED BY <2>1 DEF local, LeaseInv, Exclusive, HeldIsReflected,
                      LostIsNotHeld, LocalSets, AllHeld, Held
<1>3. CASE ResetDerived
  <2> SUFFICES ASSUME ~raced' PROVE Good' BY DEF LeaseInv
  <2>1. Good /\ \A w \in Workers : pc[w] = "idle"
    BY <1>3 DEF ResetDerived, LeaseInv
  <2>2. \A w \in Workers : Held(w) = {} /\ todo[w] = {}
    BY <2>1 DEF LocalSets, Held
  <2>3. UNCHANGED local /\ lost' = {} /\ reflected' = {} BY <1>3 DEF ResetDerived
  <2>4. \A w \in Workers : Held(w)' = {} BY <2>2, <2>3 DEF Held, local
  <2>5. AllHeld' = {} BY <2>4, InAllHeldNext
  <2> QED BY <2>1, <2>3, <2>4, <2>5 DEF Exclusive, HeldIsReflected,
             LostIsNotHeld, LocalSets, local
<1>4. ASSUME NEW w \in Workers, Step(w) \/ Fail(w) PROVE LeaseInv'
  <2>1. raced' = raced
    BY <1>4 DEF Step, Start, Claim, ClaimNothing, Filter, NoMoreBatches, Extract,
                Check, EndRecord, EndClear, Finish, Process, Record, Clear,
                Release, Fail, budget
  <2> QED BY <1>4, <2>1, LeaseOfStep, LeaseOfFail DEF LeaseInv
<1> QED BY <1>1, <1>2, <1>3, <1>4 DEF Next

\* The claims of concurrent Reflect runs stay disjoint, and what a run holds
\* stays marked, in every behaviour in which no reset races with a run.
THEOREM LeaseSafe == Spec => []LeaseInv
<1>1. Init => LeaseInv
  BY DEF Init, LeaseInv, Exclusive, HeldIsReflected, LostIsNotHeld, LocalSets,
         AllHeld, Held
<1>2. TypeOK /\ LeaseInv /\ [Next]_vars => LeaseInv' BY LeaseStep
<1> QED BY <1>1, <1>2, TypeCorrect, PTL DEF Spec

-----------------------------------------------------------------------------
(* Retries.  Why a provisional memory still has a pass coming.             *)

\* The event left a memory provisional and the LLM has not answered for it since.
Owed(e) ==
  e \in unanswered /\ \E t \in Texts : Provisional(mem[t]) /\ e \in mem[t].cause

\* What a run knows of its batch.
BatchFacts(w) ==
  /\ pc[w] = "process" /\ ~fellBack[w] => batch[w] \cap unanswered = {}
  /\ pc[w] \in {"recordEmpty", "recordInactive"} => fellBack[w]
  /\ pc[w] = "recordEmpty" => batch[w] \cap HeurFinds = {}
  /\ pc[w] \in {"recordInactive", "clear"} => \A e \in batch[w] : ~Owed(e)
BatchKnown == \A w \in Workers : BatchFacts(w)

\* Where a provisional memory comes from: an event it names, which the heuristics
\* keep a candidate of.
Founded(m) ==
  /\ Provisional(m) => m.cause # {}
  /\ m.cause \subseteq m.of
  /\ m.cause \subseteq HeurKeeps
Grounded == \A t \in Texts : Founded(mem[t])

Pending == \A e \in Events : Owed(e) => e \in Unclaimed \cup AllHeld \cup lost

PassInv == raced \/ (BatchKnown /\ Grounded /\ Pending)

\* Memory m is provisional because of event e, or for the reason a memory was before.
Explained(m, e) ==
  Provisional(m) => \/ m.cause \subseteq {e}
                    \/ \E y \in Texts : Provisional(mem[y]) /\ m.cause = mem[y].cause

\* An event that leaves a memory provisional did so before, or is the one whose
\* fallback candidate is being processed.
LEMMA CauseOfAbsorb ==
  ASSUME TypeOK, Grounded, NEW t \in Texts, NEW S \in SUBSET Events,
         NEW llm \in BOOLEAN, NEW retry \in BOOLEAN, NEW e \in Events,
         retry => e \in S /\ e \in HeurKeeps,
         Absorb(t, S, llm, retry, e), NEW x \in Texts
  PROVE  Founded(mem'[x]) /\ Explained(mem'[x], e)
<1> DEFINE D == Duplicates(t, S, llm)
           N == [New("reflect", "none") EXCEPT !.of = S]
           Fine(m) == Founded(m) /\ Explained(m, e)
<1>1. ASSUME NEW m \in Memory, S \subseteq m.of PROVE Fine(Marked(m, llm, retry, e))
  <2>1. 0 < MaxTries BY ConstantsAssumption
  <2>2. Marked(m, llm, retry, e).of = m.of BY DEF Marked, Memory
  <2>3. Marked(m, llm, retry, e).cause \in {{e}, {}} BY DEF Marked, Memory
  <2>4. Marked(m, llm, retry, e).cause # {} => retry BY <2>1 DEF Marked, Memory
  <2>5. Provisional(Marked(m, llm, retry, e)) => Marked(m, llm, retry, e).cause = {e}
    BY DEF Marked, Memory, Provisional
  <2> QED BY <1>1, <2>2, <2>3, <2>4, <2>5 DEF Founded, Explained
<1>2. New("reflect", "none") \in Memory BY NewType DEF Systems
<1>3. N \in Memory /\ S \subseteq N.of BY <1>2 DEF Memory, New
<1>4. ASSUME NEW y \in Texts PROVE Fine(mem[y])
  BY DEF Grounded, Explained
<1>5. Fine(NoMemory)
  BY DEF NoMemory, New, Provisional, Founded, Explained
<1>6. ASSUME NEW k \in D PROVE Fine(Kept(k, D, S, llm, retry, e))
  <2>1. k \in Texts /\ mem[k] \in Memory BY DEF Duplicates, TypeOK
  <2>2. UNION {mem[u].of : u \in D} \subseteq Events BY DEF Duplicates, TypeOK, Memory
  <2> DEFINE m == [mem[k] EXCEPT !.of = S \cup UNION {mem[u].of : u \in D}]
  <2>3. m \in Memory /\ S \subseteq m.of BY <2>1, <2>2 DEF Memory
  <2>4. mem[k].of \subseteq m.of BY <2>1 DEF Memory
  <2>5. m.cause = mem[k].cause /\ (Provisional(m) <=> Provisional(mem[k]))
    BY <2>1 DEF Memory, Provisional
  <2>6. Fine(mem[k]) BY <1>4, <2>1
  <2>7. Fine(m) BY <2>4, <2>5, <2>6 DEF Founded, Explained
  <2>8. Fine(Marked(m, llm, retry, e)) BY <1>1, <2>3
  <2>9. Kept(k, D, S, llm, retry, e) \in {m, Marked(m, llm, retry, e)} BY DEF Kept
  <2> HIDE DEF Fine, m
  <2> QED BY <2>7, <2>8, <2>9
<1>7. CASE mem' = [mem EXCEPT ![t] = Marked(N, llm, retry, e)]
  <2>1. Fine(Marked(N, llm, retry, e)) BY <1>1, <1>3
  <2>2. mem'[x] = mem[x] \/ mem'[x] = Marked(N, llm, retry, e) BY <1>7 DEF TypeOK
  <2>3. Fine(mem'[x])
    <3> HIDE DEF Fine, N
    <3> QED BY <1>4, <2>1, <2>2
  <2> QED BY <2>3
<1>8. ASSUME NEW k \in D, NEW u \in Texts,
             mem' = [z \in Texts |-> IF z = u THEN Kept(k, D, S, llm, retry, e)
                                    ELSE IF z \in D THEN NoMemory ELSE mem[z]]
      PROVE  Fine(mem'[x])
  <2>1. mem'[x] \in {Kept(k, D, S, llm, retry, e), NoMemory, mem[x]} BY <1>8
  <2> HIDE DEF Fine, D
  <2> QED BY <1>4, <1>5, <1>6, <2>1
<1>9. \/ mem' = [mem EXCEPT ![t] = Marked(N, llm, retry, e)]
      \/ \E k \in D, u \in Texts :
           mem' = [z \in Texts |-> IF z = u THEN Kept(k, D, S, llm, retry, e)
                                  ELSE IF z \in D THEN NoMemory ELSE mem[z]]
  BY DEF Absorb
<1>10. Fine(mem'[x])
  <2> HIDE DEF Fine, D, N
  <2>1. CASE mem' = [mem EXCEPT ![t] = Marked(N, llm, retry, e)]
    BY <1>7, <2>1 DEF Fine
  <2> QED BY <1>8, <1>9, <2>1
<1> QED BY <1>10

\* The same of a run's step on one candidate.
LEMMA CauseOfProcess ==
  ASSUME TypeOK, Grounded, NEW w \in Workers, NEW d \in Events, Process(w, d)
  PROVE  /\ Grounded'
         /\ \A e \in Events : e # d /\ Owed(e)' => Owed(e)
<1>1. unanswered' = unanswered BY DEF Process
<1>2. CASE UNCHANGED mem BY <1>1, <1>2 DEF Grounded, Founded, Owed, Provisional
<1>3. ASSUME NEW t \in Texts, NEW S \in SUBSET batch[w], MayCome(w, d, t, S),
             Absorb(t, S, FromLLM(w), fellBack[w], d)
      PROVE  /\ Grounded'
             /\ \A e \in Events : e # d /\ Owed(e)' => Owed(e)
  <2>1. S \in SUBSET Events /\ fellBack[w] \in BOOLEAN /\ FromLLM(w) \in BOOLEAN
    BY DEF TypeOK, FromLLM
  <2>2. fellBack[w] => d \in S /\ d \in HeurKeeps BY <1>3 DEF MayCome, FromLLM
  <2>3. ASSUME NEW x \in Texts PROVE Founded(mem'[x]) /\ Explained(mem'[x], d)
    BY <1>3, <2>1, <2>2, CauseOfAbsorb
  <2>4. Grounded' BY <2>3 DEF Grounded, Founded, Provisional
  <2>5. ASSUME NEW e \in Events, e # d, Owed(e)' PROVE Owed(e)
    <3>1. PICK x \in Texts : Provisional(mem'[x]) /\ e \in mem'[x].cause
      BY <2>5 DEF Owed, Provisional
    <3>2. PICK y \in Texts : Provisional(mem[y]) /\ mem'[x].cause = mem[y].cause
      BY <2>3, <2>5, <3>1 DEF Explained
    <3> QED BY <1>1, <2>5, <3>1, <3>2 DEF Owed
  <2> QED BY <2>4, <2>5
<1> QED BY <1>2, <1>3 DEF Process

\* The step of a run is its own.
LEMMA Elsewhere ==
  ASSUME TypeOK, NEW w \in Workers, Step(w), NEW v \in Workers, v # w
  PROVE  /\ pc'[v] = pc[v] /\ queue'[v] = queue[v] /\ batch'[v] = batch[v]
         /\ again'[v] = again[v] /\ fellBack'[v] = fellBack[v]
<1> USE DEF TypeOK, Goto
<1>1. CASE Start(w) \/ ClaimNothing(w) \/ Claim(w) \/ Filter(w) \/ NoMoreBatches(w)
  BY <1>1 DEF Start, ClaimNothing, Claim, Filter, NoMoreBatches
<1>2. CASE Extract(w)
  BY <1>2 DEF Extract
<1>3. CASE Check(w) \/ EndRecord(w)
  BY <1>3 DEF Check, EndRecord
<1>4. CASE EndClear(w) \/ Finish(w)
  BY <1>4 DEF EndClear, Finish
<1>5. ASSUME NEW e \in Events, Process(w, e) \/ Record(w, e) \/ Clear(w, e) \/ Release(w, e)
      PROVE  /\ pc'[v] = pc[v] /\ queue'[v] = queue[v] /\ batch'[v] = batch[v]
             /\ again'[v] = again[v] /\ fellBack'[v] = fellBack[v]
  BY <1>5 DEF Process, Record, Clear, Release
<1> QED BY <1>1, <1>2, <1>3, <1>4, <1>5 DEF Step

\* A run owes a pass only for events it holds, and moves only their passes.
LEMMA InHand ==
  ASSUME TypeOK, LocalSets, Grounded, NEW w \in Workers, Step(w), NEW e \in Events,
         e \notin Held(w)
  PROVE  (Owed(e)' => Owed(e)) /\ (e \in unanswered' <=> e \in unanswered)
<1> USE DEF TypeOK
<1>1. CASE Start(w) \/ ClaimNothing(w) \/ Claim(w) \/ NoMoreBatches(w) \/ Check(w)
           \/ EndRecord(w) \/ EndClear(w) \/ Finish(w)
  <2>1. UNCHANGED <<mem, unanswered>>
    BY <1>1 DEF Start, ClaimNothing, Claim, NoMoreBatches, Check, EndRecord, EndClear,
                Finish, store
  <2> QED BY <2>1 DEF Owed, Provisional
<1>2. CASE Filter(w) \/ Extract(w)
  <2>1. UNCHANGED mem BY <1>2 DEF Filter, Extract, store
  <2>2. e \in unanswered' <=> e \in unanswered BY <1>2 DEF Filter, Extract, Held
  <2> QED BY <2>1, <2>2 DEF Owed, Provisional
<1>3. ASSUME NEW d \in Events, Process(w, d)
      PROVE  (Owed(e)' => Owed(e)) /\ (e \in unanswered' <=> e \in unanswered)
  <2>1. d # e BY <1>3 DEF Process, LocalSets, Held
  <2>2. unanswered' = unanswered BY <1>3 DEF Process
  <2> HIDE DEF TypeOK
  <2> QED BY <1>3, <2>1, <2>2, CauseOfProcess
<1>4. ASSUME NEW d \in Events, Record(w, d) \/ Clear(w, d) \/ Release(w, d)
      PROVE  (Owed(e)' => Owed(e)) /\ (e \in unanswered' <=> e \in unanswered)
  <2>1. UNCHANGED <<mem, unanswered>> BY <1>4 DEF Record, Clear, Release, WriteRow
  <2> QED BY <2>1 DEF Owed, Provisional
<1> HIDE DEF TypeOK
<1> QED BY <1>1, <1>2, <1>3, <1>4 DEF Step

\* What a run knows of its batch stands while another run takes a step.
LEMMA KnownOfOthers ==
  ASSUME TypeOK, Exclusive, LocalSets, BatchKnown, Grounded, NEW w \in Workers,
         Step(w), NEW v \in Workers, v # w
  PROVE  BatchFacts(v)'
<1> USE DEF TypeOK
<1>1. pc'[v] = pc[v] /\ batch'[v] = batch[v] /\ fellBack'[v] = fellBack[v]
  BY Elsewhere
<1>2. ASSUME NEW e \in batch[v]
      PROVE  (Owed(e)' => Owed(e)) /\ (e \in unanswered' <=> e \in unanswered)
  <2>1. e \in Held(v) /\ e \in Events BY <1>2 DEF Held
  <2>2. e \notin Held(w) BY <2>1 DEF Exclusive
  <2> QED BY <2>1, <2>2, InHand
<1>3. BatchFacts(v) BY DEF BatchKnown
<1>4. batch[v] \cap unanswered = {} => batch'[v] \cap unanswered' = {} BY <1>1, <1>2
<1>5. (\A e \in batch[v] : ~Owed(e)) => \A e \in batch'[v] : ~Owed(e)' BY <1>1, <1>2
<1> HIDE DEF TypeOK
<1> QED BY <1>1, <1>3, <1>4, <1>5 DEF BatchFacts

\* What a run knows of its batch holds after each of its own steps.
LEMMA KnownOfOwn ==
  ASSUME TypeOK, BatchKnown, Grounded, NEW w \in Workers, Step(w)
  PROVE  BatchFacts(w)'
<1> USE DEF TypeOK, Goto
<1>0. BatchFacts(w) BY DEF BatchKnown
<1>1. CASE Start(w) \/ ClaimNothing(w) \/ Claim(w) \/ Filter(w) \/ NoMoreBatches(w)
  <2>1. pc'[w] \in {"claim", "release", "filter", "batch"}
    BY <1>1 DEF Start, ClaimNothing, Claim, Filter, NoMoreBatches
  <2> QED BY <2>1 DEF BatchFacts
<1>2. CASE Extract(w)
  <2> HIDE DEF TypeOK
  <2>1. PICK B \in SUBSET queue[w], fell \in BOOLEAN, found \in BOOLEAN :
          /\ (fell \/ ~llmBacked) => (found <=> B \cap HeurFinds # {})
          /\ batch' = [batch EXCEPT ![w] = B]
          /\ fellBack' = [fellBack EXCEPT ![w] = fell]
          /\ unanswered' = IF fell THEN unanswered \cup B ELSE unanswered \ B
          /\ pc' = [pc EXCEPT ![w] = After(fell, found)]
    BY <1>2 DEF Extract
  <2> USE DEF TypeOK
  <2>2. batch'[w] = B /\ fellBack'[w] = fell /\ pc'[w] = After(fell, found)
    BY <2>1
  <2>3. ~fell => batch'[w] \cap unanswered' = {} BY <2>1, <2>2
  <2>4. fell /\ ~found => B \cap HeurFinds = {} BY <2>1
  <2> HIDE DEF TypeOK
  <2>5. pc'[w] = "clear" => \A e \in batch'[w] : ~Owed(e)'
    BY <2>2, <2>3 DEF After, Owed
  <2> QED BY <2>2, <2>3, <2>4, <2>5 DEF BatchFacts, After
<1>3. CASE Check(w)
  <2>1. pc[w] = "process" /\ UNCHANGED <<mem, unanswered, fellBack>>
    BY <1>3 DEF Check, store
  <2>2. CASE fellBack[w] /\ ShouldRetry(batch[w])
    <3>1. pc'[w] = "batch" BY <1>3, <2>2 DEF Check
    <3> QED BY <3>1 DEF BatchFacts
  <2>3. CASE fellBack[w] /\ ~ShouldRetry(batch[w])
    <3>1. batch' = batch BY <1>3, <2>3 DEF Check
    <3>2. pc'[w] \in {"recordInactive", "clear"} BY <1>3, <2>3 DEF Check
    <3> HIDE DEF TypeOK
    <3>3. ASSUME NEW e \in batch[w], Owed(e) PROVE FALSE
      <4>1. PICK t \in Texts : Provisional(mem[t]) /\ e \in mem[t].cause
        BY <3>3 DEF Owed
      <4>2. t \in Drawn(batch[w])
        BY <3>3, <4>1 DEF Drawn, Grounded, Founded, Provisional, Active
      <4> QED BY <2>3, <4>1, <4>2 DEF ShouldRetry
    <3>4. \A e \in batch'[w] : ~Owed(e)' BY <2>1, <3>1, <3>3 DEF Owed, Provisional
    <3> QED BY <2>1, <2>3, <3>2, <3>4 DEF BatchFacts
  <2>4. CASE ~fellBack[w]
    <3>1. batch' = batch /\ pc'[w] = "clear" BY <1>3, <2>4 DEF Check
    <3> HIDE DEF TypeOK
    <3>2. \A e \in batch'[w] : ~Owed(e)'
      BY <1>0, <2>1, <2>4, <3>1 DEF BatchFacts, Owed
    <3> QED BY <3>1, <3>2 DEF BatchFacts
  <2> QED BY <2>2, <2>3, <2>4
<1>4. CASE EndRecord(w)
  <2>1. UNCHANGED <<mem, unanswered>> BY <1>4 DEF EndRecord, store
  <2>2. CASE pc[w] = "recordInactive" /\ batch[w] \cap again[w] = {}
    <3>1. batch' = batch /\ pc'[w] = "clear" BY <1>4, <2>2 DEF EndRecord
    <3> HIDE DEF TypeOK
    <3> QED BY <1>0, <2>1, <2>2, <3>1 DEF BatchFacts, Owed, Provisional
  <2>3. CASE ~(pc[w] = "recordInactive" /\ batch[w] \cap again[w] = {})
    <3>1. pc'[w] = "batch" BY <1>4, <2>3 DEF EndRecord
    <3> QED BY <3>1 DEF BatchFacts
  <2> QED BY <2>2, <2>3
<1>5. CASE EndClear(w) \/ Finish(w)
  <2>1. pc'[w] \in {"batch", "idle"} BY <1>5 DEF EndClear, Finish
  <2> QED BY <2>1 DEF BatchFacts
<1>6. ASSUME NEW d \in Events, Process(w, d) PROVE BatchFacts(w)'
  <2>1. pc[w] = "process" /\ UNCHANGED <<pc, batch, fellBack, unanswered>>
    BY <1>6 DEF Process
  <2> HIDE DEF TypeOK
  <2> QED BY <1>0, <2>1 DEF BatchFacts
<1>7. ASSUME NEW d \in Events, Record(w, d) \/ Clear(w, d) \/ Release(w, d)
      PROVE  BatchFacts(w)'
  <2>1. /\ pc[w] # "process"
        /\ UNCHANGED <<pc, batch, fellBack, unanswered, mem>>
    BY <1>7 DEF Record, Clear, Release, WriteRow
  <2> HIDE DEF TypeOK
  <2> QED BY <1>0, <2>1 DEF BatchFacts, Owed, Provisional
<1> HIDE DEF TypeOK
<1> QED BY <1>1, <1>2, <1>3, <1>4, <1>5, <1>6, <1>7 DEF Step

\* A memory stays provisional for a reason.
LEMMA GroundedStep ==
  ASSUME TypeOK, Grounded, NEW w \in Workers, Step(w)
  PROVE  Grounded'
<1>1. CASE UNCHANGED mem
  BY <1>1 DEF Grounded, Founded, Provisional
<1>2. ASSUME NEW d \in Events, Process(w, d) PROVE Grounded'
  BY <1>2, CauseOfProcess
<1>3. UNCHANGED mem \/ \E d \in Events : Process(w, d)
  BY DEF Step, Start, ClaimNothing, Claim, NoMoreBatches, Filter, Extract, Check,
         EndRecord, EndClear, Finish, Record, Clear, Release, WriteRow, store
<1> QED BY <1>1, <1>2, <1>3

\* No step of a run takes an event out of the table or the list of the dead.
LEMMA StoredStays ==
  ASSUME NEW w \in Workers, Step(w)
  PROVE  stored' = stored /\ lost' = lost
  BY DEF Step, Start, ClaimNothing, Claim, NoMoreBatches, Filter, Extract, Check, EndRecord,
         EndClear, Finish, Process, Record, Clear, Release, WriteRow, store

\* An event that waits stays in the queue of rows or is claimed.
LEMMA WaitsOrClaimed ==
  ASSUME TypeOK, HeldIsReflected, LocalSets, NEW w \in Workers, Step(w),
         NEW e \in Unclaimed
  PROVE  e \in Unclaimed' \cup AllHeld'
<1> USE DEF TypeOK
<1>1. stored' = stored BY StoredStays
<1>2. e \notin Held(w) BY InAllHeld DEF HeldIsReflected, Unclaimed
<1>3. CASE Claim(w)
  <2>1. PICK S \in SUBSET stored :
          reflected' = reflected \cup S /\ queue' = [queue EXCEPT ![w] = S]
    BY <1>3 DEF Claim
  <2>2. e \in S => e \in Held(w)' BY <2>1 DEF Held
  <2> QED BY <1>1, <2>1, <2>2, InAllHeldNext DEF Unclaimed
<1>4. ASSUME NEW d \in Events, Record(w, d) \/ Clear(w, d) \/ Release(w, d)
      PROVE  e \notin reflected'
  <2>1. d \in Held(w) BY <1>4 DEF Record, Clear, Release, LocalSets, Held
  <2>2. reflected' \subseteq reflected \cup {d}
    BY <1>4 DEF Record, Clear, Release, WriteRow
  <2> QED BY <1>2, <2>1, <2>2 DEF Unclaimed
<1>5. \/ Claim(w) \/ reflected' = reflected
      \/ \E d \in Events : Record(w, d) \/ Clear(w, d) \/ Release(w, d)
  BY DEF Step, Start, ClaimNothing, NoMoreBatches, Filter, Extract, Check, EndRecord,
         EndClear, Finish, Process, store
<1> HIDE DEF TypeOK
<1> QED BY <1>1, <1>3, <1>4, <1>5 DEF Unclaimed

\* What a run lets go of is handed back or needs no further pass.
LEMMA LetGo ==
  ASSUME TypeOK, ~raced, LocalSets, HeldIsReflected, BatchKnown, Grounded,
         NEW w \in Workers, Step(w), NEW e \in Events, e \in Held(w), Owed(e)'
  PROVE  e \in Held(w)' \/ e \in Unclaimed'
<1> USE DEF TypeOK, Goto
<1>0. BatchFacts(w) BY DEF BatchKnown
<1>1. ASSUME UNCHANGED <<queue, batch, again>> PROVE e \in Held(w)'
  BY <1>1 DEF Held
<1>2. CASE Start(w) \/ ClaimNothing(w) \/ NoMoreBatches(w) \/ Finish(w)
  BY <1>1, <1>2 DEF Start, ClaimNothing, NoMoreBatches, Finish
<1>3. CASE Claim(w)
  <2>1. queue[w] = {} BY <1>3 DEF Claim, LocalSets
  <2> QED BY <1>3, <2>1 DEF Claim, Held
<1>4. CASE Filter(w)
  <2>1. PICK F \in SUBSET Events :
          /\ queue' = [queue EXCEPT ![w] = F]
          /\ unanswered' = unanswered \ (queue[w] \ F)
    BY <1>4 DEF Filter
  <2>2. e \notin queue[w] \ F BY <2>1 DEF Owed
  <2>3. UNCHANGED <<batch, again>> BY <1>4 DEF Filter
  <2> QED BY <2>1, <2>2, <2>3 DEF Held
<1>5. CASE Extract(w)
  <2>1. batch[w] = {} BY <1>5 DEF Extract, LocalSets
  <2>2. PICK B \in SUBSET queue[w] :
          queue' = [queue EXCEPT ![w] = @ \ B] /\ batch' = [batch EXCEPT ![w] = B]
    BY <1>5 DEF Extract
  <2>3. again' = again BY <1>5 DEF Extract
  <2> QED BY <2>1, <2>2, <2>3 DEF Held
<1>6. CASE Check(w)
  <2>1. queue' = queue BY <1>6 DEF Check
  <2>2. \/ UNCHANGED <<again, batch>>
        \/ /\ again' = [again EXCEPT ![w] = @ \cup batch[w]]
           /\ batch' = [batch EXCEPT ![w] = {}]
    BY <1>6 DEF Check
  <2> QED BY <2>1, <2>2 DEF Held
<1>7. CASE EndRecord(w)
  <2>1. UNCHANGED <<queue, again, mem, unanswered>> BY <1>7 DEF EndRecord, store
  <2>2. Owed(e) BY <2>1 DEF Owed, Provisional
  <2>3. ASSUME e \in batch[w] PROVE FALSE
    <3>1. CASE pc[w] = "recordEmpty"
      <4>1. e \notin HeurKeeps BY <1>0, <2>3, <3>1, ConstantsAssumption DEF BatchFacts
      <4> QED BY <2>2, <4>1 DEF Grounded, Founded, Owed
    <3>2. CASE pc[w] = "recordInactive"
      BY <1>0, <2>2, <2>3, <3>2 DEF BatchFacts
    <3> QED BY <1>7, <3>1, <3>2 DEF EndRecord
  <2> QED BY <2>1, <2>3 DEF Held
<1>8. CASE EndClear(w)
  <2>1. UNCHANGED <<queue, again, mem, unanswered>> BY <1>8 DEF EndClear, store
  <2>2. Owed(e) BY <2>1 DEF Owed, Provisional
  <2>3. e \notin batch[w] BY <1>0, <1>8, <2>2 DEF EndClear, BatchFacts
  <2> QED BY <2>1, <2>3 DEF Held
<1>9. ASSUME NEW d \in Events, Process(w, d) PROVE e \in Held(w)'
  BY <1>1, <1>9 DEF Process
<1>10. ASSUME NEW d \in Events, Record(w, d) \/ Clear(w, d) PROVE e \in Held(w)'
  <2>1. again'[w] = again[w] \/ again'[w] = again[w] \cup {d}
    BY <1>10 DEF Record, Clear
  <2>2. UNCHANGED <<queue, batch>> BY <1>10 DEF Record, Clear
  <2> QED BY <2>1, <2>2 DEF Held
<1>11. ASSUME NEW d \in Events, Release(w, d) PROVE e \in Held(w)' \/ e \in Unclaimed'
  <2>1. /\ again' = [again EXCEPT ![w] = @ \ {d}] /\ reflected' = reflected \ {d}
        /\ UNCHANGED <<queue, batch, stored>>
    BY <1>11 DEF Release, WriteRow
  <2>2. e \in stored BY InAllHeld DEF HeldIsReflected
  <2> QED BY <2>1, <2>2 DEF Held, Unclaimed
<1> HIDE DEF TypeOK
<1> QED BY <1>2, <1>3, <1>4, <1>5, <1>6, <1>7, <1>8, <1>9, <1>10, <1>11 DEF Step

\* A provisional memory keeps its pass through every step of a run.
LEMMA PendingStep ==
  ASSUME TypeOK, ~raced, Exclusive, LocalSets, HeldIsReflected, BatchKnown, Grounded,
         Pending, NEW w \in Workers, Step(w)
  PROVE  Pending'
<1> SUFFICES ASSUME NEW e \in Events, Owed(e)'
             PROVE  e \in Unclaimed' \cup AllHeld' \cup lost'
  BY DEF Pending
<1>1. CASE e \in Held(w) BY <1>1, LetGo, InAllHeldNext
<1>2. CASE e \notin Held(w)
  <2>1. Owed(e) BY <1>2, InHand
  <2>2. CASE e \in Unclaimed BY <2>2, WaitsOrClaimed
  <2>3. ASSUME NEW v \in Workers, e \in Held(v) PROVE e \in AllHeld'
    <3>1. v # w BY <1>2, <2>3
    <3>2. Held(v)' = Held(v) BY <3>1, Elsewhere DEF Held
    <3> QED BY <2>3, <3>2, InAllHeldNext
  <2>4. CASE e \in lost BY <2>4, StoredStays
  <2> QED BY <2>1, <2>2, <2>3, <2>4, InAllHeld DEF Pending
<1> QED BY <1>1, <1>2

\* A run that dies forgets its batch, and what it held is lost and no longer owed.
LEMMA PassOfFail ==
  ASSUME TypeOK, BatchKnown, Grounded, Pending, NEW w \in Workers, Fail(w)
  PROVE  (BatchKnown /\ Grounded /\ Pending)'
<1> USE DEF TypeOK
<1>1. /\ UNCHANGED <<llmBacked, stored, reflected, mem, unanswered>>
      /\ lost' = lost \cup Held(w)
      /\ pc' = [pc EXCEPT ![w] = "idle"]
      /\ queue' = [queue EXCEPT ![w] = {}] /\ batch' = [batch EXCEPT ![w] = {}]
      /\ again' = [again EXCEPT ![w] = {}] /\ fellBack' = [fellBack EXCEPT ![w] = FALSE]
  BY DEF Fail, store, Goto
<1>2. \A v \in Workers : v # w => /\ pc'[v] = pc[v] /\ batch'[v] = batch[v]
                                  /\ again'[v] = again[v] /\ fellBack'[v] = fellBack[v]
                                  /\ Held(v)' = Held(v)
  BY <1>1 DEF Held
<1>3. BatchFacts(w)' BY <1>1 DEF BatchFacts
<1>4. ASSUME NEW v \in Workers, v # w PROVE BatchFacts(v)'
  <2>1. BatchFacts(v) BY DEF BatchKnown
  <2> HIDE DEF TypeOK
  <2> QED BY <1>1, <1>2, <1>4, <2>1 DEF BatchFacts, Owed, Provisional
<1>5. BatchKnown' BY <1>3, <1>4 DEF BatchKnown
<1>6. Grounded' BY <1>1 DEF Grounded, Founded, Provisional
<1>8. Pending'
  <2> SUFFICES ASSUME NEW e \in Events, Owed(e)'
               PROVE  e \in Unclaimed' \cup AllHeld' \cup lost'
    BY DEF Pending
  <2>1. Owed(e) BY <1>1 DEF Owed, Provisional
  <2>2. e \in Unclaimed \cup AllHeld \cup lost BY <2>1 DEF Pending
  <2>3. ASSUME NEW v \in Workers, e \in Held(v) PROVE e \in AllHeld' \cup lost'
    <3>1. CASE v = w BY <1>1, <2>3, <3>1
    <3>2. CASE v # w
      <4>1. Held(v)' = Held(v) BY <1>2, <3>2
      <4> QED BY <2>3, <4>1, InAllHeldNext
    <3> QED BY <3>1, <3>2
  <2> HIDE DEF TypeOK
  <2> QED BY <1>1, <2>2, <2>3, InAllHeld DEF Unclaimed
<1> QED BY <1>5, <1>6, <1>8

\* The user's changes leave every run's picture of its batch true: a memory that
\* gets another wording still owes its pass to the same event.
LEMMA PassOfOthers ==
  ASSUME TypeOK, BatchKnown, Grounded, Pending,
         \/ \E d \in Events : Ingest(d)
         \/ \E t, u \in Texts : Remember(t) \/ Forget(t) \/ Reword(t, u)
  PROVE  (BatchKnown /\ Grounded /\ Pending)'
<1> USE DEF TypeOK
<1>1. /\ UNCHANGED <<reflected, pc, queue, batch, again, fellBack, unanswered, lost>>
      /\ stored \subseteq stored'
  BY DEF Ingest, Remember, Forget, Reword, UserChange, local
<1>2. AllHeld' = AllHeld /\ Unclaimed \subseteq Unclaimed'
  BY <1>1 DEF AllHeld, Held, Unclaimed
<1>3. ASSUME NEW x \in Texts
      PROVE  mem'[x].cause = {} \/ \E y \in Texts : mem'[x] = mem[y]
  <2>1. CASE UNCHANGED mem BY <2>1
  <2>2. NoMemory.cause = {} /\ New("remember", "user").cause = {} BY DEF NoMemory, New
  <2>3. ASSUME NEW t \in Texts, Remember(t) \/ Forget(t)
        PROVE  mem'[x].cause = {} \/ \E y \in Texts : mem'[x] = mem[y]
    BY <2>2, <2>3 DEF Remember, Forget
  <2>4. ASSUME NEW t \in Texts, NEW u \in Texts, Reword(t, u)
        PROVE  mem'[x].cause = {} \/ \E y \in Texts : mem'[x] = mem[y]
    BY <2>2, <2>4 DEF Reword
  <2> QED BY <2>1, <2>3, <2>4 DEF Ingest
<1>4. \A x \in Texts : Provisional(mem'[x]) => \E y \in Texts : mem'[x] = mem[y]
  <2>1. CASE UNCHANGED mem BY <2>1
  <2>2. ~Provisional(NoMemory) /\ ~Provisional(New("remember", "user"))
    BY DEF NoMemory, New, Provisional
  <2>3. ASSUME NEW t \in Texts, Remember(t) \/ Forget(t), NEW x \in Texts,
               Provisional(mem'[x])
        PROVE  \E y \in Texts : mem'[x] = mem[y]
    BY <2>2, <2>3 DEF Remember, Forget
  <2>4. ASSUME NEW t \in Texts, NEW u \in Texts, Reword(t, u), NEW x \in Texts,
               Provisional(mem'[x])
        PROVE  \E y \in Texts : mem'[x] = mem[y]
    BY <2>2, <2>4 DEF Reword
  <2> QED BY <2>1, <2>3, <2>4 DEF Ingest
<1> HIDE DEF TypeOK
<1>5. Grounded'
  <2> SUFFICES ASSUME NEW x \in Texts
               PROVE  Founded(mem'[x])
    BY DEF Grounded, Founded, Provisional
  <2> QED BY <1>3, <1>4 DEF Grounded, Founded
<1>6. ASSUME NEW e, Owed(e)' PROVE Owed(e)
  <2>1. PICK x \in Texts : Provisional(mem'[x]) /\ e \in mem'[x].cause
    BY <1>6 DEF Owed, Provisional
  <2> QED BY <1>1, <1>4, <1>6, <2>1 DEF Owed
<1>7. BatchKnown' BY <1>1, <1>6 DEF BatchKnown, BatchFacts
<1>8. Pending' BY <1>1, <1>2, <1>6 DEF Pending
<1> QED BY <1>5, <1>7, <1>8

\* PassInv is inductive, given the leases of LeaseInv.
LEMMA PassStep ==
  ASSUME TypeOK, LeaseInv, PassInv, [Next]_vars PROVE PassInv'
<1> DEFINE Good == BatchKnown /\ Grounded /\ Pending
<1>1. CASE UNCHANGED vars
  BY <1>1 DEF vars, store, local, budget, PassInv, BatchKnown, BatchFacts, Grounded,
              Founded, Pending, Owed, Provisional, Unclaimed, AllHeld, Held
<1>2. ASSUME \/ \E e \in Events : Ingest(e)
             \/ \E t, u \in Texts : Remember(t) \/ Forget(t) \/ Reword(t, u)
      PROVE  PassInv'
  <2>1. raced' = raced BY <1>2 DEF Ingest, Remember, Forget, Reword, UserChange, budget
  <2> QED BY <1>2, <2>1, PassOfOthers DEF PassInv
<1>3. CASE ResetDerived
  <2> SUFFICES ASSUME ~raced' PROVE Good' BY DEF PassInv
  <2>1. \A w \in Workers : pc'[w] = "idle" BY <1>3 DEF ResetDerived, local
  <2>2. unanswered' = {} BY <1>3 DEF ResetDerived
  <2>3. BatchKnown' BY <2>1 DEF BatchKnown, BatchFacts
  <2>4. Grounded BY <1>3 DEF PassInv, ResetDerived
  <2>5. \A x \in Texts : mem'[x] = mem[x] \/ mem'[x] = NoMemory
    BY <1>3 DEF ResetDerived
  <2>6. Grounded' BY <2>4, <2>5 DEF Grounded, Founded, NoMemory, New, Provisional
  <2>7. Pending' BY <2>2 DEF Pending, Owed
  <2> QED BY <2>3, <2>6, <2>7
<1>4. ASSUME NEW w \in Workers, Step(w) PROVE PassInv'
  <2>1. raced' = raced
    BY <1>4 DEF Step, Start, Claim, ClaimNothing, Filter, NoMoreBatches, Extract,
                Check, EndRecord, EndClear, Finish, Process, Record, Clear,
                Release, budget
  <2> SUFFICES ASSUME ~raced PROVE Good' BY <2>1 DEF PassInv
  <2>2. Exclusive /\ HeldIsReflected /\ LocalSets /\ Good BY DEF LeaseInv, PassInv
  <2>3. \A v \in Workers : BatchFacts(v)'
    BY <1>4, <2>2, KnownOfOwn, KnownOfOthers
  <2>4. BatchKnown' BY <2>3 DEF BatchKnown
  <2> QED BY <1>4, <2>2, <2>4, GroundedStep, PendingStep
<1>5. ASSUME NEW w \in Workers, Fail(w) PROVE PassInv'
  <2>1. raced' = raced BY <1>5 DEF Fail
  <2> QED BY <1>5, <2>1, PassOfFail DEF PassInv
<1> QED BY <1>1, <1>2, <1>3, <1>4, <1>5 DEF Next

LEMMA PassSafe == Spec => []PassInv
<1>1. Init => PassInv
  <2> SUFFICES ASSUME Init PROVE PassInv OBVIOUS
  <2>1. BatchKnown BY DEF Init, BatchKnown, BatchFacts
  <2>2. Grounded BY DEF Init, Grounded, Founded, NoMemory, New, Provisional
  <2>3. Pending BY DEF Init, Pending, Owed
  <2> QED BY <2>1, <2>2, <2>3 DEF PassInv
<1>2. TypeOK /\ LeaseInv /\ PassInv /\ [Next]_vars => PassInv' BY PassStep
<1> QED BY <1>1, <1>2, TypeCorrect, LeaseSafe, PTL DEF Spec

\* Whatever the LLM, the user and the other runs do, and however memories are
\* shared and merged, the event that left a memory provisional is waiting, in the
\* hands of a run, or lost with a dead one, until the LLM has answered for it.
THEOREM RetriesPending == Spec => []RetryPending
<1>1. TypeOK /\ PassInv => RetryPending
  <2> SUFFICES ASSUME TypeOK, Grounded, Pending, NEW t \in Texts, Provisional(mem[t])
               PROVE  \E e \in mem[t].cause :
                        e \in unanswered => e \in Unclaimed \cup AllHeld \cup lost
    BY DEF PassInv, RetryPending
  <2>1. PICK e \in mem[t].cause : TRUE BY DEF Grounded, Founded
  <2>2. e \in Events BY DEF TypeOK, Memory
  <2> QED BY <2>1, <2>2 DEF Pending, Owed
<1> QED BY <1>1, TypeCorrect, PassSafe, PTL
=============================================================================
