--------------------------- MODULE StandingProofs ---------------------------
(***************************************************************************)
(* Proof that duplicates never make each other disappear: what supersedes  *)
(* a memory is known to the store, so that the climb of supersession ends. *)
(***************************************************************************)
EXTENDS CurationProofs, FiniteSetTheorems, WellFoundedInduction

\* A finite set of numbers, if not empty, has an element that none exceeds.
LEMMA Greatest ==
  ASSUME NEW S \in SUBSET Nat, IsFiniteSet(S), S # {}
  PROVE  \E m \in S : \A n \in S : ~(n > m)
<1> DEFINE Above(m) == {n \in S : n > m}
           Sizes == {Cardinality(Above(m)) : m \in S}
<1>1. \A m \in S : IsFiniteSet(Above(m)) /\ Cardinality(Above(m)) \in Nat
  <2> TAKE m \in S
  <2>1. Above(m) \in SUBSET S OBVIOUS
  <2>2. IsFiniteSet(Above(m)) BY <2>1, FS_Subset
  <2> QED BY <2>2, FS_CardinalityType
<1>2. Sizes \in SUBSET Nat /\ Sizes # {} BY <1>1
<1>3. \E x \in Sizes : \A y \in Sizes : ~(y < x)
  <2> DEFINE Less == OpToRel(<, Nat)
  <2>1. PICK x \in Sizes : \A y \in Sizes : ~(<<y, x>> \in Less)
    <3> HIDE DEF Sizes, Less
    <3>1. IsWellFoundedOn(Less, Nat) BY NatLessThanWellFounded DEF Less
    <3> QED BY <1>2, <3>1, WFMin
  <2>2. \A y \in Sizes : ~(y < x) BY <1>2, <2>1 DEF OpToRel
  <2> QED BY <2>2
<1>4. PICK m \in S : \A y \in Sizes : ~(y < Cardinality(Above(m))) BY <1>3
<1>5. ASSUME NEW n \in S, n > m PROVE FALSE
  <2>1. \A k \in S : k > n => k > m
    <3>1. \A i, j, k \in Nat : k > j /\ j > i => k > i OBVIOUS
    <3> QED BY <1>5, <3>1
  <2>2. Above(n) \in SUBSET Above(m) BY <2>1
  <2>3. n \in Above(m) /\ n \notin Above(n) BY <1>5
  <2>4. Cardinality(Above(n)) < Cardinality(Above(m))
    <3> HIDE DEF Above
    <3>1. /\ Cardinality(Above(n)) <= Cardinality(Above(m))
          /\ Cardinality(Above(m)) = Cardinality(Above(n)) => Above(m) = Above(n)
      BY <1>1, <2>2, FS_Subset
    <3>2. Above(m) # Above(n) BY <2>3
    <3> QED BY <1>1, <3>1, <3>2
  <2>5. Cardinality(Above(n)) \in Sizes OBVIOUS
  <2> QED BY <1>4, <2>4, <2>5
<1> QED BY <1>5
-----------------------------------------------------------------------------
(* What supersedes a memory is stored, or about to be inserted by a Remember, *)
(* or the Remember has died.                                                  *)

Pending == {n \in Memories : \E w \in Workers : pc[w] = "insert" /\ cur[w] = n}

Known == Stored \cup Pending \cup unborn

\* A row of m as the code may hold it when it knows the memories K.
Sound(m, row, K) ==
  /\ row.st # "none" => m \in K
  /\ row.by # 0 => row.by \in K
  /\ row.st = "superseded" => row.by # 0

SoundRows(rows) == \A m \in Memories : Sound(m, rows[m], Known)

\* What a process works on are memories it has read.
SoundWorker(w) ==
  /\ SoundRows(copy[w]) /\ SoundRows(found[w])
  /\ \A m \in todo[w] : copy[w][m].st # "none"
  /\ pc[w] \in {"idle", "search"} => todo[w] = {}
  /\ pc[w] \in {"pair", "keep", "insert", "old", "write"} =>
       copy[w][cur[w]].st # "none"
  /\ pc[w] = "siblings" => cur[w] \in Known

\* A step of w changes nothing of the other processes.
Alone(w) ==
  \A v \in Workers : v # w =>
    /\ copy'[v] = copy[v] /\ found'[v] = found[v] /\ todo'[v] = todo[v]
    /\ pc'[v] = pc[v] /\ cur'[v] = cur[v]

Pointers == SoundRows(mem) /\ \A w \in Workers : SoundWorker(w)

\* What the code does to rows keeps them sound.
LEMMA RowsSound ==
  ASSUME NEW K \in SUBSET Memories
  PROVE  /\ \A m \in Memories : Sound(m, NoRow, K)
         /\ \A m, k \in K : \A row \in Row :
              Sound(m, row, K) => Sound(m, Dropped(row, k), K)
         /\ \A m, k \in K : \A row, other \in Row :
              Sound(m, row, K) => Sound(m, Absorbed(row, other, k), K)
         /\ \A n \in K, t \in Memories \cup {0} : Sound(n, NewRow(n, t), K)
         /\ \A m \in K, row \in Row, st \in {"active", "archived", "retracted"} :
              Sound(m, row, K) => Sound(m, [row EXCEPT !.st = st], K)
<1>1. \A m \in Memories : Sound(m, NoRow, K) BY DEF Sound, NoRow
<1>2. ASSUME NEW m \in K, NEW k \in K, NEW row \in Row, Sound(m, row, K)
      PROVE  Sound(m, Dropped(row, k), K)
  <2>1. k # 0 BY ConstantsAssumption
  <2> QED BY <1>2, <2>1 DEF Sound, Dropped, Row
<1>3. ASSUME NEW m \in K, NEW k \in K, NEW row \in Row, NEW other \in Row,
             Sound(m, row, K)
      PROVE  Sound(m, Absorbed(row, other, k), K)
  BY <1>3 DEF Sound, Absorbed, Row
<1>4. ASSUME NEW n \in K, NEW t \in Memories \cup {0}
      PROVE  Sound(n, NewRow(n, t), K)
  BY DEF Sound, NewRow
<1>5. ASSUME NEW m \in K, NEW row \in Row,
             NEW st \in {"active", "archived", "retracted"}, Sound(m, row, K)
      PROVE  Sound(m, [row EXCEPT !.st = st], K)
  BY <1>5 DEF Sound, Row
<1> QED BY <1>1, <1>2, <1>3, <1>4, <1>5

LEMMA KnownType == ASSUME TypeOK PROVE Known \in SUBSET Memories
  BY DEF Known, Stored, Pending, TypeOK

\* Sound rows stay sound when more memories are known.
LEMMA SoundGrows ==
  ASSUME Known \subseteq Known', NEW rows, SoundRows(rows), NEW m \in Memories
  PROVE  Sound(m, rows[m], Known')
  BY DEF SoundRows, Sound

\* A step of one process leaves the others sound.
LEMMA Frame ==
  ASSUME Pointers, Known \subseteq Known', NEW w \in Workers,
         Alone(w),
         SoundRows(mem)', SoundWorker(w)'
  PROVE  Pointers'
<1>1. ASSUME NEW v \in Workers, v # w PROVE SoundWorker(v)'
  <2>1. SoundWorker(v) BY DEF Pointers
  <2>2. SoundRows(copy[v])' BY <1>1, <2>1 DEF Alone, SoundWorker, SoundRows, Sound
  <2>3. SoundRows(found[v])' BY <1>1, <2>1 DEF Alone, SoundWorker, SoundRows, Sound
  <2> QED BY <1>1, <2>1, <2>2, <2>3 DEF Alone, SoundWorker
<1> QED BY <1>1 DEF Pointers

\* No memory is lost from sight by a process that is not about to insert one.
LEMMA KnownGrows ==
  ASSUME TypeOK, NEW w \in Workers, pc[w] # "insert",
         Alone(w),
         Stored \subseteq Stored', unborn \subseteq unborn'
  PROVE  Known \subseteq Known'
  BY DEF Known, Pending, Alone

\* The rows after one of them has been written.
LEMMA PutSound ==
  ASSUME TypeOK, NEW m \in Memories, NEW row, Put(m, row), row.st # "none"
  PROVE  /\ Stored' = Stored \cup {m}
         /\ SoundRows(mem) /\ Known \subseteq Known' /\ Sound(m, row, Known') =>
              SoundRows(mem)'
<1>1. \A n \in Memories : mem'[n] = IF n = m THEN row ELSE mem[n]
  BY DEF Put, TypeOK
<1>2. Stored' = Stored \cup {m} BY <1>1 DEF Stored
<1>3. ASSUME SoundRows(mem), Known \subseteq Known', Sound(m, row, Known')
      PROVE  SoundRows(mem)'
  BY <1>1, <1>3, SoundGrows DEF SoundRows
<1> QED BY <1>2, <1>3

\* A process that has left is sound, whatever the others know.
LEMMA LeaveSound ==
  ASSUME TypeOK, NEW w \in Workers, Leave(w)
  PROVE  /\ SoundWorker(w)'
         /\ Alone(w)
<1>1. /\ copy'[w] = NoRows /\ found'[w] = NoRows /\ todo'[w] = {}
      /\ pc'[w] = "idle"
  BY DEF Leave, Goto, TypeOK
<1>2. SoundWorker(w)' BY <1>1 DEF SoundWorker, SoundRows, Sound, NoRows, NoRow
<1> QED BY <1>2 DEF Alone, Leave, Goto, TypeOK

\* A listing is sound.
LEMMA ListingSound ==
  ASSUME TypeOK, SoundRows(mem)
  PROVE  SoundRows(ActiveRows) /\ \A m \in Active : ActiveRows[m].st # "none"
<1>1. SoundRows(ActiveRows) BY DEF SoundRows, ActiveRows, Sound, NoRow
<1> QED BY <1>1 DEF ActiveRows, Active, With

\* A process that passes a memory in a loop stays sound.
LEMMA VisitedSound ==
  ASSUME TypeOK, NEW w \in Workers, NEW m \in Memories, SoundWorker(w),
         Visited(w, m), UNCHANGED <<pc, found, cur>>, Known \subseteq Known',
         pc[w] \in {"decay", "rewrite", "siblings"}
  PROVE  /\ SoundWorker(w)'
         /\ Alone(w)
<1>1. copy'[w] = [copy[w] EXCEPT ![m] = NoRow] /\ todo'[w] = todo[w] \ {m}
  BY DEF Visited, TypeOK
<1>2. SoundRows(copy[w])'
  <2>1. ASSUME NEW n \in Memories PROVE Sound(n, copy'[w][n], Known')
    <3>1. copy'[w][n] = IF n = m THEN NoRow ELSE copy[w][n] BY <1>1 DEF TypeOK
    <3>2. Sound(n, copy[w][n], Known') BY SoundGrows DEF SoundWorker
    <3> QED BY <3>1, <3>2 DEF Sound, NoRow
  <2> QED BY <2>1 DEF SoundRows
<1>3. SoundRows(found[w])' BY SoundGrows DEF SoundWorker, SoundRows
<1>4. \A n \in todo'[w] : copy'[w][n].st # "none"
  BY <1>1 DEF SoundWorker, TypeOK
<1>5. SoundWorker(w)' BY <1>1, <1>2, <1>3, <1>4 DEF SoundWorker
<1> QED BY <1>5 DEF Alone, Visited, TypeOK

\* The memories of a process that works are known.
LEMMA WorkIsKnown ==
  ASSUME TypeOK, NEW w \in Workers, SoundWorker(w)
  PROVE  /\ \A m \in Memories : copy[w][m].st # "none" => m \in Known
         /\ \A m \in Memories : found[w][m].st # "none" => m \in Known
         /\ \A m \in todo[w] : m \in Known
  BY DEF SoundWorker, SoundRows, Sound, TypeOK

\* MergeDuplicates puts sound rows together.
LEMMA MergedSound ==
  ASSUME TypeOK, AtHand, NEW w \in Workers, SoundWorker(w), pc[w] = "pair",
         NEW b \in Mergeable(w)
  PROVE  /\ cur[w] \in Known /\ b \in Known
         /\ Sound(cur[w], MergedHere(w, b), Known)
         /\ Sound(b, MergedThere(w, b), Known)
         /\ MergedHere(w, b).st # "none" /\ MergedThere(w, b).st # "none"
<1>1. cur[w] \in Memories /\ b \in Memories /\ found[w][b].st = "active"
  BY DEF AtHand, Mergeable, With
<1>2. copy[w][cur[w]].st # "none" BY DEF SoundWorker
<1>3. cur[w] \in Known /\ b \in Known BY <1>1, <1>2, WorkIsKnown
<1>4. /\ copy[w][cur[w]] \in Row /\ Sound(cur[w], copy[w][cur[w]], Known)
      /\ found[w][b] \in Row /\ Sound(b, found[w][b], Known)
  BY <1>1 DEF TypeOK, SoundWorker, SoundRows
<1>5. Known \in SUBSET Memories BY KnownType
<1>6. Sound(cur[w], MergedHere(w, b), Known)
  BY <1>3, <1>4, <1>5, RowsSound DEF MergedHere
<1>7. Sound(b, MergedThere(w, b), Known)
  BY <1>3, <1>4, <1>5, RowsSound DEF MergedThere
<1>8. \A row \in Row, other \in Row, k \in Memories :
        /\ Dropped(row, k).st = "superseded"
        /\ Absorbed(row, other, k).st = row.st
  BY DEF Dropped, Absorbed, Row
<1>9. MergedHere(w, b).st # "none" BY <1>1, <1>2, <1>4, <1>8 DEF MergedHere
<1>10. MergedThere(w, b).st # "none" BY <1>1, <1>4, <1>8 DEF MergedThere
<1> QED BY <1>3, <1>6, <1>7, <1>9, <1>10

LEMMA MergeSound ==
  ASSUME TypeOK, AtHand, Pointers, NEW w \in Workers
  PROVE  /\ \A a \in Memories : MergeSearch(w, a) => Pointers'
         /\ \A b \in Memories : MergePair(w, b) => Pointers'
         /\ \A b \in Memories : MergePairFails(w, b) => Pointers'
         /\ MergeNothing(w) => Pointers'
<1>0. SoundRows(mem) /\ SoundWorker(w) BY DEF Pointers
<1>a. \A rows : SoundRows(rows) /\ Known \subseteq Known' =>
        \A m \in Memories : Sound(m, rows[m], Known')
  BY SoundGrows
<1>1. ASSUME NEW a \in Memories, MergeSearch(w, a) PROVE Pointers'
  <2>1. UNCHANGED <<mem, unborn, copy>> BY <1>1 DEF MergeSearch, history
  <2>2. Alone(w)
    BY <1>1 DEF Alone, MergeSearch, Goto
  <2>3. Known \subseteq Known'
    BY <1>1, <2>1, <2>2, KnownGrows DEF MergeSearch, Stored
  <2>4. /\ pc'[w] = "pair" /\ cur'[w] = a /\ todo'[w] \subseteq todo[w]
        /\ found'[w] \in {ActiveRows, copy[w]} /\ a \in todo[w]
    BY <1>1 DEF MergeSearch, Goto, TypeOK
  <2>5. SoundRows(mem)' BY <1>0, <1>a, <2>1, <2>3 DEF SoundRows
  <2>6. SoundRows(found[w])'
    BY <1>0, <1>a, <2>3, <2>4, ListingSound DEF SoundRows, SoundWorker
  <2>7. SoundRows(copy[w])' BY <1>0, <1>a, <2>1, <2>3 DEF SoundRows, SoundWorker
  <2>8. SoundWorker(w)' BY <1>0, <2>1, <2>4, <2>6, <2>7 DEF SoundWorker
  <2> QED BY <2>2, <2>3, <2>5, <2>8, Frame
<1>2. ASSUME NEW b \in Memories, MergePair(w, b) PROVE Pointers'
  <2> DEFINE a == cur[w]
  <2>1. b \in Mergeable(w) /\ pc[w] = "pair" BY <1>2 DEF MergePair
  <2>2. /\ a \in Known /\ b \in Known
        /\ Sound(a, MergedHere(w, b), Known) /\ Sound(b, MergedThere(w, b), Known)
        /\ MergedHere(w, b).st # "none" /\ MergedThere(w, b).st # "none"
    BY <1>0, <2>1, MergedSound
  <2>3. a \in Memories /\ b \in Memories /\ a # b
    BY <2>1 DEF AtHand, Mergeable, With
  <2>4. \A m \in Memories : mem'[m] = IF m = b THEN MergedThere(w, b)
                                      ELSE IF m = a THEN MergedHere(w, b) ELSE mem[m]
    BY <1>2, <2>3 DEF MergePair, TypeOK
  <2>5. Alone(w)
    BY <1>2 DEF Alone, MergePair, Goto
  <2>6. UNCHANGED <<unborn, todo>> BY <1>2 DEF MergePair, history
  <2>7. Stored \subseteq Stored' BY <2>2, <2>4 DEF Stored
  <2>8. Known \subseteq Known' BY <2>1, <2>5, <2>6, <2>7, KnownGrows
  <2>9. SoundRows(mem)' BY <1>0, <1>a, <2>2, <2>4, <2>8 DEF SoundRows, Sound
  <2>10. /\ copy'[w] = [copy[w] EXCEPT ![a] = MergedHere(w, b)]
         /\ found'[w] = NoRows /\ pc'[w] = "merge"
    BY <1>2 DEF MergePair, Goto, TypeOK
  <2>11. \A m \in Memories : copy'[w][m] = IF m = a THEN MergedHere(w, b)
                                           ELSE copy[w][m]
    BY <2>10 DEF TypeOK
  <2>12. SoundRows(copy[w])'
    BY <1>0, <1>a, <2>2, <2>8, <2>11 DEF SoundRows, SoundWorker, Sound
  <2>13. SoundRows(found[w])' BY <2>10 DEF SoundRows, Sound, NoRows, NoRow
  <2>14. \A m \in todo'[w] : copy'[w][m].st # "none"
    BY <1>0, <2>2, <2>6, <2>11 DEF SoundWorker, TypeOK
  <2>15. SoundWorker(w)' BY <2>10, <2>12, <2>13, <2>14 DEF SoundWorker
  <2> QED BY <2>5, <2>8, <2>9, <2>15, Frame
<1>3. ASSUME NEW b \in Memories, MergePairFails(w, b) PROVE Pointers'
  <2> DEFINE a == cur[w]
  <2>1. b \in Mergeable(w) /\ pc[w] = "pair" BY <1>3 DEF MergePairFails
  <2>2. Sound(a, MergedHere(w, b), Known) /\ MergedHere(w, b).st # "none"
    BY <1>0, <2>1, MergedSound
  <2>3. a \in Memories BY <2>1 DEF AtHand
  <2>4. Alone(w)
    BY <1>3 DEF Alone, MergePairFails
  <2>5. UNCHANGED <<unborn, todo, mem, pc, cur>> BY <1>3 DEF MergePairFails, history
  <2>6. Known \subseteq Known' BY <2>5 DEF Known, Stored, Pending
  <2>7. SoundRows(mem)' BY <1>0, <1>a, <2>5, <2>6 DEF SoundRows
  <2>8. \A m \in Memories :
          /\ copy'[w][m] = IF m = a THEN MergedHere(w, b) ELSE copy[w][m]
          /\ found'[w][m] = IF m = b THEN NoRow ELSE found[w][m]
    BY <1>3 DEF MergePairFails, TypeOK
  <2>9. SoundRows(copy[w])'
    BY <1>0, <1>a, <2>2, <2>6, <2>8 DEF SoundRows, SoundWorker, Sound
  <2>10. SoundRows(found[w])'
    BY <1>0, <1>a, <2>6, <2>8 DEF SoundRows, SoundWorker, Sound, NoRow
  <2>11. \A m \in todo'[w] : copy'[w][m].st # "none"
    BY <1>0, <2>2, <2>5, <2>8 DEF SoundWorker, TypeOK
  <2>12. copy'[w][cur'[w]].st # "none" BY <2>2, <2>3, <2>5, <2>8
  <2>13. SoundWorker(w)' BY <2>1, <2>5, <2>9, <2>10, <2>11, <2>12 DEF SoundWorker
  <2> QED BY <2>4, <2>6, <2>7, <2>13, Frame
<1>4. ASSUME MergeNothing(w) PROVE Pointers'
  <2>1. UNCHANGED <<mem, unborn, copy, todo>> BY <1>4 DEF MergeNothing, history
  <2>2. Alone(w)
    BY <1>4 DEF Alone, MergeNothing, Goto
  <2>3. Known \subseteq Known'
    BY <1>4, <2>1, <2>2, KnownGrows DEF MergeNothing, Stored
  <2>4. SoundRows(mem)' BY <1>0, <1>a, <2>1, <2>3 DEF SoundRows
  <2>5. pc'[w] = "merge" /\ found'[w] = NoRows BY <1>4 DEF MergeNothing, Goto, TypeOK
  <2>6. SoundRows(found[w])' BY <2>5 DEF SoundRows, Sound, NoRows, NoRow
  <2>7. SoundRows(copy[w])' BY <1>0, <1>a, <2>1, <2>3 DEF SoundRows, SoundWorker
  <2>8. SoundWorker(w)' BY <1>0, <2>1, <2>5, <2>6, <2>7 DEF SoundWorker
  <2> QED BY <2>2, <2>3, <2>4, <2>8, Frame
<1> QED BY <1>1, <1>2, <1>3, <1>4

\* A step that writes at most a sound row and leaves the process sound.
LEMMA Written ==
  ASSUME TypeOK, Pointers, NEW w \in Workers, pc[w] # "insert", Alone(w),
         UNCHANGED unborn,
         \/ UNCHANGED mem
         \/ \E m \in Memories, row \in Row :
              Put(m, row) /\ row.st # "none" /\ Sound(m, row, Known)
  PROVE  /\ Known \subseteq Known'
         /\ SoundRows(mem)'
         /\ SoundWorker(w)' => Pointers'
<1>1. SoundRows(mem) BY DEF Pointers
<1>2. ASSUME NEW m \in Memories, NEW row \in Row,
             Put(m, row), row.st # "none", Sound(m, row, Known)
      PROVE  Known \subseteq Known' /\ SoundRows(mem)'
  <2>1. Stored \subseteq Stored' BY <1>2, PutSound
  <2>2. Known \subseteq Known' BY <2>1, KnownGrows
  <2>3. Sound(m, row, Known') BY <1>2, <2>2 DEF Sound
  <2> QED BY <1>1, <1>2, <2>2, <2>3, PutSound
<1>3. Known \subseteq Known' /\ SoundRows(mem)'
  <2>1. CASE UNCHANGED mem
    <3>1. Known \subseteq Known' BY <2>1, KnownGrows DEF Stored
    <3> QED BY <1>1, <2>1, <3>1, SoundGrows DEF SoundRows
  <2> QED BY <1>2, <2>1
<1> QED BY <1>3, Frame

LEMMA JobSound ==
  ASSUME TypeOK, AtHand, Pointers, NEW w \in Workers
  PROVE  /\ \A kind \in {"merge", "decay", "review"} : TakeList(w, kind) => Pointers'
         /\ EndJob(w) => Pointers'
         /\ \A m \in Memories : Decay(w, m) => Pointers'
         /\ Review(w) => Pointers'
         /\ \A m \in Memories : Rewrite(w, m) => Pointers'
<1>0. SoundRows(mem) /\ SoundWorker(w) BY DEF Pointers
<1>a. Known \in SUBSET Memories BY KnownType
<1>1. ASSUME NEW kind \in {"merge", "decay", "review"}, TakeList(w, kind)
      PROVE  Pointers'
  <2>1. Alone(w) BY <1>1 DEF Alone, TakeList, Begin, Goto
  <2>2. UNCHANGED <<mem, unborn, found>> /\ pc[w] = "idle"
    BY <1>1 DEF TakeList, Begin, history
  <2>3. Known \subseteq Known' BY <2>1, <2>2, Written
  <2>4. copy'[w] = ActiveRows /\ todo'[w] = Active /\ pc'[w] = kind
    BY <1>1 DEF TakeList, Begin, Goto, TypeOK
  <2>5. SoundRows(copy[w])'
    BY <1>0, <2>3, <2>4, ListingSound, SoundGrows DEF SoundRows
  <2>6. SoundRows(found[w])'
    BY <1>0, <2>2, <2>3, SoundGrows DEF SoundRows, SoundWorker
  <2>7. SoundWorker(w)' BY <1>0, <2>4, <2>5, <2>6, ListingSound DEF SoundWorker
  <2> QED BY <2>1, <2>2, <2>7, Written
<1>2. ASSUME EndJob(w) PROVE Pointers'
  <2>1. SoundWorker(w)' /\ Alone(w) BY <1>2, LeaveSound DEF EndJob
  <2>2. UNCHANGED <<mem, unborn>> /\ pc[w] # "insert" BY <1>2 DEF EndJob, history
  <2> QED BY <2>1, <2>2, Written
<1>b. ASSUME NEW m \in Memories, Visited(w, m), UNCHANGED <<pc, found, cur, unborn>>,
             pc[w] \in {"decay", "rewrite", "siblings"},
             \/ UNCHANGED mem
             \/ \E row \in Row :
                  Put(m, row) /\ row.st # "none" /\ Sound(m, row, Known)
      PROVE  Pointers'
  <2>1. Alone(w) BY <1>b DEF Alone, Visited
  <2>2. Known \subseteq Known' BY <1>b, <2>1, Written
  <2>3. SoundWorker(w)' BY <1>0, <1>b, <2>2, VisitedSound
  <2> QED BY <1>b, <2>1, <2>3, Written
<1>3. ASSUME NEW m \in Memories, Decay(w, m) PROVE Pointers'
  <2>1. /\ copy[w][m] \in Row /\ Sound(m, copy[w][m], Known) /\ m \in Known
        /\ copy[w][m].st # "none"
    BY <1>0, <1>3, WorkIsKnown DEF Decay, TypeOK, SoundWorker, SoundRows
  <2>2. ASSUME NEW st \in {"active", "archived"}
        PROVE  LET row == [copy[w][m] EXCEPT !.st = st]
               IN  row \in Row /\ row.st # "none" /\ Sound(m, row, Known)
    <3>1. [copy[w][m] EXCEPT !.st = st].st = st BY <2>1 DEF Row
    <3> QED BY <1>a, <2>1, <3>1, RowTypes, RowsSound
  <2>3. \/ UNCHANGED mem
        \/ \E row \in Row : Put(m, row) /\ row.st # "none" /\ Sound(m, row, Known)
    BY <1>3, <2>2 DEF Decay
  <2> QED BY <1>3, <1>b, <2>3 DEF Decay, history
<1>4. ASSUME Review(w) PROVE Pointers'
  <2>1. PICK R \in SUBSET todo[w] : \E S, D \in SUBSET R : \E into \in [D -> R \ S] :
          /\ copy' = [copy EXCEPT ![w] = [m \in Memories |->
               IF m \in S THEN [@[m] EXCEPT !.st = "archived"]
               ELSE IF m \in D THEN Dropped(@[m], into[m]) ELSE @[m]]]
          /\ todo' = [todo EXCEPT ![w] = R]
    BY <1>4 DEF Review
  <2>2. PICK S \in SUBSET R, D \in SUBSET R : \E into \in [D -> R \ S] :
          copy' = [copy EXCEPT ![w] = [m \in Memories |->
               IF m \in S THEN [@[m] EXCEPT !.st = "archived"]
               ELSE IF m \in D THEN Dropped(@[m], into[m]) ELSE @[m]]]
    BY <2>1
  <2>3. PICK into \in [D -> R \ S] :
          copy' = [copy EXCEPT ![w] = [m \in Memories |->
               IF m \in S THEN [@[m] EXCEPT !.st = "archived"]
               ELSE IF m \in D THEN Dropped(@[m], into[m]) ELSE @[m]]]
    BY <2>2
  <2>4. Alone(w) BY <1>4, <2>1, <2>3 DEF Alone, Review, Goto
  <2>5. UNCHANGED <<mem, unborn, found>> /\ pc[w] = "review"
    BY <1>4 DEF Review
  <2>6. Known \subseteq Known' BY <2>4, <2>5, Written
  <2>7. todo'[w] = R /\ pc'[w] = "rewrite" BY <1>4, <2>1 DEF Review, Goto, TypeOK
  <2>8. ASSUME NEW m \in Memories
        PROVE  /\ Sound(m, copy'[w][m], Known)
               /\ copy[w][m].st # "none" => copy'[w][m].st # "none"
    <3>1. copy[w][m] \in Row /\ Sound(m, copy[w][m], Known)
      BY <1>0 DEF TypeOK, SoundWorker, SoundRows
    <3>2. copy'[w][m] = IF m \in S THEN [copy[w][m] EXCEPT !.st = "archived"]
                        ELSE IF m \in D THEN Dropped(copy[w][m], into[m])
                        ELSE copy[w][m]
      BY <2>3 DEF TypeOK
    <3>3. m \in S \cup D => m \in Known BY <1>0, <2>1, WorkIsKnown
    <3>4. CASE m \in S
      <4>1. Sound(m, [copy[w][m] EXCEPT !.st = "archived"], Known)
        BY <1>a, <3>1, <3>3, <3>4, RowsSound
      <4>2. [copy[w][m] EXCEPT !.st = "archived"].st = "archived"
        BY <3>1 DEF Row
      <4> QED BY <3>2, <3>4, <4>1, <4>2
    <3>5. CASE m \in D /\ m \notin S
      <4>1. into[m] \in Known BY <1>0, <3>5, <2>1, WorkIsKnown
      <4>2. Sound(m, Dropped(copy[w][m], into[m]), Known)
        BY <1>a, <3>1, <3>3, <3>5, <4>1, RowsSound
      <4>3. Dropped(copy[w][m], into[m]).st = "superseded"
        BY <3>1 DEF Dropped, Row
      <4> QED BY <3>2, <3>5, <4>2, <4>3
    <3>6. CASE m \notin S \cup D BY <3>1, <3>2, <3>6
    <3> QED BY <3>4, <3>5, <3>6
  <2>9. SoundRows(copy[w])' BY <2>6, <2>8 DEF SoundRows, Sound
  <2>10. SoundRows(found[w])'
    BY <1>0, <2>5, <2>6, SoundGrows DEF SoundRows, SoundWorker
  <2>11. \A m \in todo'[w] : copy'[w][m].st # "none"
    BY <1>0, <2>7, <2>8 DEF SoundWorker, TypeOK
  <2>12. SoundWorker(w)' BY <2>7, <2>9, <2>10, <2>11 DEF SoundWorker
  <2> QED BY <2>4, <2>5, <2>12, Written
<1>5. ASSUME NEW m \in Memories, Rewrite(w, m) PROVE Pointers'
  <2>1. /\ copy[w][m] \in Row /\ Sound(m, copy[w][m], Known)
        /\ copy[w][m].st # "none"
    BY <1>0, <1>5 DEF Rewrite, TypeOK, SoundWorker, SoundRows
  <2> QED BY <1>5, <1>b, <2>1 DEF Rewrite, history
<1> QED BY <1>1, <1>2, <1>3, <1>4, <1>5

\* A process that is about to insert a new memory is sound.
LEMMA NewSound ==
  ASSUME TypeOK, NEW w \in Workers, SoundWorker(w), NEW n \in Memories,
         NEW t \in Memories \cup {0}, Known \subseteq Known',
         copy' = [copy EXCEPT ![w][n] = NewRow(n, t)],
         cur' = [cur EXCEPT ![w] = n], pc' = [pc EXCEPT ![w] = "insert"],
         UNCHANGED <<found, todo>>
  PROVE  n \in Known' /\ SoundWorker(w)'
<1>1. pc'[w] = "insert" /\ cur'[w] = n BY DEF TypeOK
<1>2. n \in Known' BY <1>1 DEF Known, Pending
<1>3. NewRow(n, t).st = "active" /\ NewRow(n, t).by = 0 BY DEF NewRow
<1>4. \A m \in Memories : copy'[w][m] = IF m = n THEN NewRow(n, t) ELSE copy[w][m]
  BY DEF TypeOK
<1>5. SoundRows(copy[w])'
  BY <1>2, <1>3, <1>4, SoundGrows DEF SoundWorker, SoundRows, Sound
<1>6. SoundRows(found[w])' BY SoundGrows DEF SoundWorker, SoundRows
<1>7. \A m \in todo'[w] : copy'[w][m].st # "none"
  BY <1>3, <1>4 DEF SoundWorker, TypeOK
<1>8. copy'[w][cur'[w]].st # "none" BY <1>1, <1>3, <1>4
<1> QED BY <1>1, <1>2, <1>5, <1>6, <1>7, <1>8 DEF SoundWorker

\* A process that holds what a memory has absorbed is sound.
LEMMA AbsorbedSound ==
  ASSUME TypeOK, NEW w \in Workers, NEW k \in Memories, NEW c \in Levels,
         NEW S \in SUBSET Tracked, NEW rows \in [Memories -> Row],
         Absorbing(w, k, c, S, rows), SoundRows(rows), rows[k].st # "none",
         Known \subseteq Known'
  PROVE  /\ cur' = [cur EXCEPT ![w] = k]
         /\ \A v \in Workers : v # w => copy'[v] = copy[v]
         /\ SoundRows(copy[w])'
         /\ copy'[w][k].st # "none"
<1>1. copy' = [copy EXCEPT ![w] = [rows EXCEPT ![k] = Credited(rows[k], c, S)]]
      /\ cur' = [cur EXCEPT ![w] = k]
  BY DEF Absorbing
<1>2. copy'[w] = [rows EXCEPT ![k] = Credited(rows[k], c, S)] BY <1>1 DEF TypeOK
<1>3. \A row \in Row : /\ Credited(row, c, S).st = row.st
                       /\ Credited(row, c, S).by = row.by
  BY DEF Credited, Row
<1>4. \A m \in Memories : /\ copy'[w][m].st = rows[m].st
                          /\ copy'[w][m].by = rows[m].by
  BY <1>2, <1>3
<1>5. \A m \in Memories : Sound(m, rows[m], Known') BY SoundGrows
<1>6. SoundRows(copy[w])' BY <1>4, <1>5 DEF SoundRows, Sound
<1> QED BY <1>1, <1>4, <1>6

LEMMA ArrivalSound ==
  ASSUME TypeOK, AtHand, Pointers, NEW w \in Workers
  PROVE  /\ Candidate(w) => Pointers'
         /\ Search(w) => Pointers'
         /\ Keep(w) => Pointers'
         /\ \A m \in Memories : Sibling(w, m) => Pointers'
         /\ Remember(w) => Pointers'
         /\ \A t \in Memories : Replace(w, t) => Pointers'
         /\ Insert(w) => Pointers'
<1>0. SoundRows(mem) /\ SoundWorker(w) BY DEF Pointers
<1>a. Known \in SUBSET Memories BY KnownType
<1>1. ASSUME Candidate(w) PROVE Pointers'
  <2>1. Alone(w) BY <1>1 DEF Alone, Candidate, Begin, Goto
  <2>2. UNCHANGED <<mem, unborn, copy, found, todo>> /\ pc[w] = "idle"
    BY <1>1 DEF Candidate, Begin, history
  <2>3. Known \subseteq Known' BY <2>1, <2>2, Written
  <2>4. pc'[w] = "search" BY <1>1 DEF Candidate, Begin, Goto, TypeOK
  <2>5. SoundRows(copy[w])' /\ SoundRows(found[w])'
    BY <1>0, <2>2, <2>3, SoundGrows DEF SoundRows, SoundWorker
  <2>6. SoundWorker(w)' BY <1>0, <2>2, <2>4, <2>5 DEF SoundWorker
  <2> QED BY <2>1, <2>2, <2>6, Written
<1>b. ASSUME UNCHANGED <<mem, unborn, found, todo>>, pc[w] # "insert",
             Inserting(w, 0), Goto(w, "insert")
      PROVE  Pointers'
  <2>1. PICK n \in Memories : /\ copy' = [copy EXCEPT ![w][n] = NewRow(n, 0)]
                              /\ cur' = [cur EXCEPT ![w] = n]
    BY <1>b DEF Inserting
  <2>2. Alone(w) BY <1>b, <2>1 DEF Alone, Goto
  <2>3. Known \subseteq Known' BY <1>b, <2>2, Written
  <2>4. SoundWorker(w)' BY <1>0, <1>b, <2>1, <2>3, NewSound DEF Goto
  <2> QED BY <1>b, <2>2, <2>4, Written
<1>c. ASSUME NEW k \in Memories, NEW c \in Levels, NEW S \in SUBSET Tracked,
             NEW rows \in [Memories -> Row], NEW l \in {"keep", "write"},
             Absorbing(w, k, c, S, rows), SoundRows(rows), rows[k].st # "none",
             UNCHANGED <<mem, unborn, found, todo>>, pc[w] \in {"idle", "search"},
             Goto(w, l)
      PROVE  Pointers'
  <2>1. Alone(w) BY <1>c DEF Alone, Goto, Absorbing
  <2>2. Known \subseteq Known' BY <1>c, <2>1, Written
  <2>3. /\ SoundRows(copy[w])' /\ copy'[w][k].st # "none"
        /\ cur' = [cur EXCEPT ![w] = k]
    BY <1>c, <2>2, AbsorbedSound
  <2>4. cur'[w] = k /\ pc'[w] = l /\ todo'[w] = {}
    BY <1>0, <1>c, <2>3 DEF Goto, TypeOK, SoundWorker
  <2>5. SoundRows(found[w])'
    BY <1>0, <1>c, <2>2, SoundGrows DEF SoundRows, SoundWorker
  <2>6. SoundWorker(w)' BY <2>3, <2>4, <2>5 DEF SoundWorker
  <2> QED BY <1>c, <2>1, <2>6, Written
<1>2. ASSUME Search(w) PROVE Pointers'
  <2>1. UNCHANGED <<mem, unborn, found, todo>> /\ pc[w] = "search"
    BY <1>2 DEF Search, history
  <2>2. ASSUME Inserting(w, 0), Goto(w, "insert") PROVE Pointers'
    BY <1>b, <2>1, <2>2
  <2>3. ASSUME NEW k \in Memories, NEW c \in Levels, Best(k),
               Absorbing(w, k, c, AllSources, ActiveRows), Goto(w, "keep")
        PROVE  Pointers'
    <3>1. ActiveRows \in [Memories -> Row] /\ AllSources \in SUBSET Tracked
      BY ListingType, SourcesType
    <3>2. SoundRows(ActiveRows) /\ ActiveRows[k].st # "none"
      BY <1>0, <2>3, ListingSound DEF Best
    <3> QED BY <1>c, <2>1, <2>3, <3>1, <3>2
  <2> QED BY <1>2, <2>2, <2>3 DEF Search
<1>3. ASSUME Keep(w) PROVE Pointers'
  <2>1. UNCHANGED <<unborn, copy, found, cur>> /\ pc[w] = "keep"
    BY <1>3 DEF Keep, history
  <2>2. /\ cur[w] \in Memories /\ copy[w][cur[w]] \in Row
        /\ copy[w][cur[w]].st # "none" /\ Sound(cur[w], copy[w][cur[w]], Known)
        /\ cur[w] \in Known
    BY <1>0, <2>1, WorkIsKnown DEF AtHand, TypeOK, SoundWorker, SoundRows
  <2>3. Alone(w) BY <1>3 DEF Alone, Keep, Goto
  <2>4. Known \subseteq Known' BY <1>3, <2>1, <2>2, <2>3, Written DEF Keep
  <2>5. pc'[w] = "siblings" /\ todo'[w] = With(copy[w], "active") \ {cur[w]}
    BY <1>3 DEF Keep, Goto, TypeOK
  <2>6. SoundRows(copy[w])' /\ SoundRows(found[w])'
    BY <1>0, <2>1, <2>4, SoundGrows DEF SoundRows, SoundWorker
  <2>7. SoundWorker(w)'
    BY <2>1, <2>2, <2>4, <2>5, <2>6 DEF SoundWorker, With
  <2> QED BY <1>3, <2>1, <2>2, <2>3, <2>7, Written DEF Keep
<1>4. ASSUME NEW m \in Memories, Sibling(w, m) PROVE Pointers'
  <2>1. UNCHANGED <<unborn, pc, found, cur>> /\ pc[w] = "siblings" /\ m \in todo[w]
    BY <1>4 DEF Sibling, history
  <2>2. /\ cur[w] \in Memories /\ cur[w] \in Known /\ m \in Known
        /\ copy[w][m] \in Row /\ Sound(m, copy[w][m], Known)
    BY <1>0, <2>1, WorkIsKnown DEF AtHand, TypeOK, SoundWorker, SoundRows
  <2>3. /\ Dropped(copy[w][m], cur[w]) \in Row
        /\ Sound(m, Dropped(copy[w][m], cur[w]), Known)
        /\ Dropped(copy[w][m], cur[w]).st = "superseded"
    BY <1>a, <2>2, RowTypes, RowsSound DEF Dropped, Row
  <2>4. Alone(w) BY <1>4 DEF Alone, Sibling, Visited
  <2>5. Known \subseteq Known' BY <1>4, <2>1, <2>3, <2>4, Written DEF Sibling
  <2>6. SoundWorker(w)' BY <1>0, <1>4, <2>1, <2>5, VisitedSound DEF Sibling
  <2> QED BY <1>4, <2>1, <2>3, <2>4, <2>6, Written DEF Sibling
<1>5. ASSUME Remember(w) PROVE Pointers'
  <2>1. UNCHANGED <<mem, unborn, found, todo>> /\ pc[w] = "idle"
    BY <1>5 DEF Remember, Begin, history
  <2>2. ASSUME Inserting(w, 0), Goto(w, "insert") PROVE Pointers'
    BY <1>b, <2>1, <2>2
  <2>3. ASSUME NEW k \in Memories, NEW c \in Levels, Best(k),
               Absorbing(w, k, c, mem[k].src, [copy[w] EXCEPT ![k] = mem[k]]),
               Goto(w, "write")
        PROVE  Pointers'
    <3> DEFINE rows == [copy[w] EXCEPT ![k] = mem[k]]
    <3>1. \A m \in Memories : rows[m] = IF m = k THEN mem[m] ELSE copy[w][m]
      BY DEF TypeOK
    <3>2. rows \in [Memories -> Row] /\ mem[k].src \in SUBSET Tracked
      BY DEF TypeOK, Row
    <3>3. SoundRows(rows) /\ rows[k].st # "none"
      BY <1>0, <2>3, <3>1 DEF SoundRows, SoundWorker, Best, Active, With
    <3> HIDE DEF rows
    <3> QED BY <1>c, <2>1, <2>3, <3>2, <3>3 DEF rows
  <2> QED BY <1>5, <2>2, <2>3 DEF Remember, Begin
<1>6. ASSUME NEW t \in Memories, Replace(w, t) PROVE Pointers'
  <2>1. PICK n \in Memories :
          /\ copy' = [copy EXCEPT ![w][n] = NewRow(n, t)]
          /\ cur' = [cur EXCEPT ![w] = n]
          /\ Put(t, Dropped(mem[t], n)) \/ UNCHANGED mem
    <3>1. PICK n \in Memories : /\ copy' = [copy EXCEPT ![w][n] = NewRow(n, t)]
                                /\ cur' = [cur EXCEPT ![w] = n]
      BY <1>6 DEF Replace, Inserting
    <3>2. cur'[w] = n BY <3>1 DEF TypeOK
    <3> QED BY <1>6, <3>1, <3>2 DEF Replace
  <2>2. UNCHANGED <<unborn, found, todo>> /\ pc[w] = "idle" /\ t \in Stored
    BY <1>6 DEF Replace, Begin
  <2>3. pc' = [pc EXCEPT ![w] = "insert"] BY <1>6 DEF Replace, Begin, Goto
  <2>4. Alone(w) BY <2>1, <2>2, <2>3 DEF Alone
  <2>5. Dropped(mem[t], n).st = "superseded" BY DEF Dropped, TypeOK, Row
  <2>6. Stored \subseteq Stored'
    <3>1. CASE Put(t, Dropped(mem[t], n)) BY <2>5, <3>1, PutSound
    <3>2. CASE UNCHANGED mem BY <3>2 DEF Stored
    <3> QED BY <2>1, <3>1, <3>2
  <2>7. Known \subseteq Known' BY <2>2, <2>4, <2>6, KnownGrows
  <2>8. n \in Known' /\ SoundWorker(w)'
    BY <1>0, <2>1, <2>2, <2>3, <2>7, NewSound
  <2>9. SoundRows(mem)'
    <3>1. CASE Put(t, Dropped(mem[t], n))
      <4>1. t \in Known' BY <2>2, <2>7 DEF Known
      <4>2. n # 0 BY ConstantsAssumption
      <4>3. Dropped(mem[t], n).by = n BY DEF Dropped, TypeOK, Row
      <4>4. Sound(t, Dropped(mem[t], n), Known')
        BY <2>5, <2>8, <4>1, <4>2, <4>3 DEF Sound
      <4> QED BY <1>0, <2>5, <2>7, <3>1, <4>4, PutSound
    <3>2. CASE UNCHANGED mem
      BY <1>0, <2>7, <3>2, SoundGrows DEF SoundRows
    <3> QED BY <2>1, <3>1, <3>2
  <2> QED BY <2>4, <2>7, <2>8, <2>9, Frame
<1>7. ASSUME Insert(w) PROVE Pointers'
  <2>1. SoundWorker(w)' /\ Alone(w) BY <1>7, LeaveSound DEF Insert
  <2>2. UNCHANGED unborn /\ pc[w] = "insert" BY <1>7 DEF Insert, history
  <2>3. /\ cur[w] \in Memories /\ copy[w][cur[w]].st # "none"
        /\ Sound(cur[w], copy[w][cur[w]], Known)
    BY <1>0, <2>2 DEF AtHand, SoundWorker, SoundRows
  <2>4. Stored' = Stored \cup {cur[w]} BY <1>7, <2>3, PutSound DEF Insert
  <2>5. Pending \subseteq Pending' \cup {cur[w]} BY <2>1 DEF Pending, Alone
  <2>6. Known \subseteq Known' BY <2>2, <2>4, <2>5 DEF Known
  <2>7. Sound(cur[w], copy[w][cur[w]], Known') BY <2>3, <2>6 DEF Sound
  <2>8. SoundRows(mem)' BY <1>0, <1>7, <2>3, <2>6, <2>7, PutSound DEF Insert
  <2> QED BY <2>1, <2>6, <2>8, Frame
<1> QED BY <1>1, <1>2, <1>3, <1>4, <1>5, <1>6, <1>7

LEMMA CallSound ==
  ASSUME TypeOK, AtHand, Pointers, NEW w \in Workers
  PROVE  /\ \A m \in Memories : Forget(w, m) => Pointers'
         /\ \A m \in Memories : Share(w, m) => Pointers'
         /\ \A m \in Memories : Edit(w, m) => Pointers'
         /\ SupersedeOld(w) => Pointers'
         /\ Write(w) => Pointers'
         /\ Fail(w) => Pointers'
<1>0. SoundRows(mem) /\ SoundWorker(w) BY DEF Pointers
<1>a. Known \in SUBSET Memories BY KnownType
<1>1. ASSUME NEW m \in Memories, NEW l \in {"old", "write"}, NEW row,
             Call(w, m, l, row), row.st # "none", Sound(m, row, Known)
      PROVE  Pointers'
  <2>1. UNCHANGED <<mem, unborn, found, todo>> /\ pc[w] = "idle"
    BY <1>1 DEF Call, Begin, history
  <2>2. Alone(w) BY <1>1 DEF Alone, Call, Begin, Goto
  <2>3. Known \subseteq Known' BY <2>1, <2>2, Written
  <2>4. pc'[w] = l /\ cur'[w] = m /\ todo'[w] = {}
    BY <1>0, <1>1, <2>1 DEF Call, Begin, Goto, TypeOK, SoundWorker
  <2>5. \A n \in Memories : copy'[w][n] = IF n = m THEN row ELSE copy[w][n]
    BY <1>1 DEF Call, TypeOK
  <2>6. \A n \in Memories : Sound(n, copy[w][n], Known')
    BY <1>0, <2>3, SoundGrows DEF SoundWorker
  <2>7. SoundRows(copy[w])' BY <1>1, <2>3, <2>5, <2>6 DEF SoundRows, Sound
  <2>8. SoundRows(found[w])'
    BY <1>0, <2>1, <2>3, SoundGrows DEF SoundRows, SoundWorker
  <2>9. copy'[w][cur'[w]].st # "none" BY <1>1, <2>4, <2>5
  <2>10. SoundWorker(w)' BY <2>4, <2>7, <2>8, <2>9 DEF SoundWorker
  <2> QED BY <2>1, <2>2, <2>10, Written
<1>2. ASSUME NEW m \in Stored
      PROVE  /\ m \in Memories
             /\ mem[m].st # "none" /\ Sound(m, mem[m], Known)
             /\ [mem[m] EXCEPT !.st = "retracted"].st # "none"
             /\ Sound(m, [mem[m] EXCEPT !.st = "retracted"], Known)
  <2>1. m \in Memories /\ m \in Known /\ mem[m] \in Row /\ Sound(m, mem[m], Known)
    BY <1>0 DEF Stored, Known, TypeOK, SoundRows
  <2>2. mem[m].st # "none" BY DEF Stored
  <2>3. [mem[m] EXCEPT !.st = "retracted"].st = "retracted" BY <2>1 DEF Row
  <2> QED BY <1>a, <2>1, <2>2, <2>3, RowsSound
<1>3. ASSUME SupersedeOld(w) PROVE Pointers'
  <2>1. UNCHANGED <<unborn, copy, found, todo, cur>> /\ pc[w] = "old"
    BY <1>3 DEF SupersedeOld, history
  <2>2. /\ cur[w] \in Memories /\ cur[w] \in Known
        /\ copy[w][cur[w]].st # "none"
    BY <1>0, <2>1, WorkIsKnown DEF AtHand, SoundWorker
  <2>3. Alone(w) BY <1>3 DEF Alone, SupersedeOld, Goto
  <2>4. \/ UNCHANGED mem
        \/ \E m \in Memories, row \in Row :
             Put(m, row) /\ row.st # "none" /\ Sound(m, row, Known)
    <3>1. ASSUME NEW old \in Stored, Put(old, Dropped(mem[old], cur[w]))
          PROVE  \E m \in Memories, row \in Row :
                   Put(m, row) /\ row.st # "none" /\ Sound(m, row, Known)
      <4>1. old \in Memories /\ old \in Known /\ mem[old] \in Row
        BY DEF Stored, Known, TypeOK
      <4>2. Sound(old, Dropped(mem[old], cur[w]), Known)
        BY <1>2, <1>a, <2>2, <4>1, RowsSound
      <4>3. /\ Dropped(mem[old], cur[w]) \in Row
            /\ Dropped(mem[old], cur[w]).st = "superseded"
        BY <2>2, <4>1, RowTypes DEF Dropped, Row
      <4> QED BY <3>1, <4>1, <4>2, <4>3
    <3> QED BY <1>3, <3>1 DEF SupersedeOld
  <2>5. Known \subseteq Known' BY <2>1, <2>3, <2>4, Written
  <2>6. pc'[w] = "write" BY <1>3 DEF SupersedeOld, Goto, TypeOK
  <2>7. SoundRows(copy[w])' /\ SoundRows(found[w])'
    BY <1>0, <2>1, <2>5, SoundGrows DEF SoundRows, SoundWorker
  <2>8. SoundWorker(w)' BY <1>0, <2>1, <2>2, <2>6, <2>7 DEF SoundWorker
  <2> QED BY <2>1, <2>3, <2>4, <2>8, Written
<1>4. ASSUME Write(w) PROVE Pointers'
  <2>1. SoundWorker(w)' /\ Alone(w) BY <1>4, LeaveSound DEF Write
  <2>2. UNCHANGED unborn /\ pc[w] = "write" BY <1>4 DEF Write, history
  <2>3. /\ cur[w] \in Memories /\ copy[w][cur[w]] \in Row
        /\ copy[w][cur[w]].st # "none" /\ Sound(cur[w], copy[w][cur[w]], Known)
    BY <1>0, <2>2 DEF AtHand, TypeOK, SoundWorker, SoundRows
  <2> QED BY <1>4, <2>1, <2>2, <2>3, Written DEF Write
<1>5. ASSUME Fail(w) PROVE Pointers'
  <2>1. SoundWorker(w)' /\ Alone(w) BY <1>5, LeaveSound DEF Fail
  <2>2. UNCHANGED mem BY <1>5 DEF Fail
  <2>3. unborn \subseteq unborn' /\ (pc[w] = "insert" => cur[w] \in unborn')
    BY <1>5 DEF Fail
  <2>4. Pending \subseteq Pending' \cup unborn' BY <2>1, <2>3 DEF Pending, Alone
  <2>5. Known \subseteq Known' BY <2>2, <2>3, <2>4 DEF Known, Stored
  <2>6. SoundRows(mem)' BY <1>0, <2>2, <2>5, SoundGrows DEF SoundRows
  <2> QED BY <2>1, <2>5, <2>6, Frame
<1> QED BY <1>1, <1>2, <1>3, <1>4, <1>5 DEF Forget, Share, Edit, Call

\* Every step keeps the pointers sound.
LEMMA PointersStep ==
  ASSUME TypeOK, AtHand, Pointers, [Next]_vars PROVE Pointers'
<1>1. CASE UNCHANGED vars
  BY <1>1 DEF vars, local, history, Pointers, SoundRows, SoundWorker, Known,
     Stored, Pending, Sound
<1>2. ASSUME NEW w \in Workers, Continue(w) \/ Start(w) \/ Fail(w)
                                \/ \E b \in Memories : MergePairFails(w, b)
      PROVE  Pointers'
  <2>1. CASE Continue(w)
    BY <2>1, MergeSound, JobSound, ArrivalSound, CallSound DEF Continue, Merging
  <2>2. CASE Start(w) BY <2>2, JobSound, ArrivalSound, CallSound DEF Start
  <2> QED BY <1>2, <2>1, <2>2, MergeSound, CallSound
<1> QED BY <1>1, <1>2 DEF Next

\* The empty store has no pointers.
LEMMA PointersInit == ASSUME Init PROVE Pointers
<1>1. \A m \in Memories : Sound(m, NoRows[m], Known) BY DEF Sound, NoRows, NoRow
<1> QED BY <1>1 DEF Init, Pointers, SoundRows, SoundWorker

\* Some memory that is stored is such that none is better.
LEMMA Foremost ==
  ASSUME Stored # {} PROVE \E m \in Stored : \A n \in Stored : ~Over(n, m)
<1>1. /\ Stored \in SUBSET Memories /\ IsFiniteSet(Stored)
      /\ \A m \in Memories : m \in Nat /\ Born[m] \in Nat
  BY ConstantsAssumption, FS_Subset DEF Stored
<1> DEFINE levels == {Born[m] : m \in Stored}
<1>2. PICK l \in levels : \A x \in levels : ~(x > l)
  <2>1. IsFiniteSet(levels)
    <3> DEFINE f == [m \in Stored |-> Born[m]]
    <3>1. f \in Surjection(Stored, levels) BY DEF Surjection
    <3> QED BY <1>1, <3>1, FS_Surjection
  <2>2. levels \in SUBSET Nat /\ levels # {} BY <1>1
  <2> HIDE DEF levels
  <2> QED BY <2>1, <2>2, Greatest
<1> DEFINE top == {m \in Stored : Born[m] = l}
<1>3. PICK m \in top : \A n \in top : ~(n > m)
  <2>1. top \in SUBSET Stored /\ top \in SUBSET Nat /\ top # {} BY <1>1
  <2>2. IsFiniteSet(top) BY <1>1, <2>1, FS_Subset
  <2> HIDE DEF top
  <2> QED BY <2>1, <2>2, Greatest
<1>4. ASSUME NEW n \in Stored PROVE ~Over(n, m)
  <2>1. Born[n] \in levels OBVIOUS
  <2>2. ~(Born[n] > l) /\ Born[m] = l BY <1>2, <1>3, <2>1
  <2>3. Born[n] = Born[m] => ~(n > m) BY <1>3, <2>2
  <2> QED BY <2>2, <2>3 DEF Over
<1> QED BY <1>3, <1>4

\* It is superseded by nothing that is stored.
LEMMA PointersStand ==
  ASSUME TypeOK, Climbs, Pointers PROVE SomeoneStands
<1> SUFFICES ASSUME ~down, ~lifted, Stored # {}, unborn = {},
                    Stored = With(mem, "superseded"),
                    \A w \in Workers : pc[w] # "insert"
             PROVE  FALSE
  BY DEF SomeoneStands
<1>1. PICK m \in Stored : \A n \in Stored : ~Over(n, m) BY Foremost
<1>2. m \in Memories /\ mem[m].st = "superseded" BY DEF With, Stored
<1>3. mem[m].by # 0 /\ mem[m].by \in Known
  BY <1>2 DEF Pointers, SoundRows, Sound
<1>4. mem[m].by \in Stored BY <1>3 DEF Known, Pending
<1>5. Over(mem[m].by, m) BY <1>2, <1>3 DEF Climbs
<1> QED BY <1>1, <1>4, <1>5

\* Duplicates never make each other disappear, however confident what they absorb
\* makes them: one memory of the group stands, unless a caller, the LLM or chance
\* has preferred a lesser memory, one has been lifted to the confidence of a better
\* one, or a Remember has died between superseding the old memory and inserting the
\* new one (dedup.go:94-175, memory_candidates.go:65-83, candidates.go:326-366,
\* service.go:379-446).
THEOREM OneStands == Spec => []SomeoneStands
<1>1. Spec => [](TypeOK /\ AtHand /\ ClimbInv /\ Pointers)
  BY TypeInit, TypeStep, ClimbInit, ClimbStep, PointersInit, PointersStep,
     PTL DEF Spec
<1>2. ClimbInv => Climbs BY DEF ClimbInv, Turned, AllUp, Climbs, RowsUp, Up
<1>3. TypeOK /\ Climbs /\ Pointers => SomeoneStands BY PointersStand
<1> QED BY <1>1, <1>2, <1>3, PTL
=============================================================================
