--------------------------- MODULE CurationProofs ---------------------------
(***************************************************************************)
(* Proofs about MemoryCuration for any memories, any number of processes   *)
(* and any division of the work between them.                              *)
(***************************************************************************)
EXTENDS MemoryCuration, TLAPS

\* The rows that are put together from copies are rows.
LEMMA RowTypes ==
  /\ NoRow \in Row
  /\ NoRows \in [Memories -> Row]
  /\ \A row \in Row, k \in Memories : Dropped(row, k) \in Row
  /\ \A row, other \in Row, m \in Memories : Absorbed(row, other, m) \in Row
  /\ \A n \in Memories, t \in Memories \cup {0} : NewRow(n, t) \in Row
  /\ \A row \in Row, st \in {"active", "archived", "retracted"} :
       [row EXCEPT !.st = st] \in Row
  /\ \A row \in Row, c \in Levels, S \in SUBSET Tracked :
       Credited(row, c, S) \in Row
<1>1. NoRow \in Row BY DEF NoRow, Row
<1>2. ASSUME NEW row \in Row, NEW other \in Row, NEW m \in Memories
      PROVE  Absorbed(row, other, m) \in Row
  <2>1. row.src \cup other.src \in SUBSET Tracked BY DEF Row
  <2>2. (IF row.of = 0 THEN m ELSE row.of) \in Memories \cup {0} BY DEF Row
  <2> QED BY <2>1, <2>2 DEF Absorbed, Row
<1>3. ASSUME NEW n \in Memories, NEW t \in Memories \cup {0}
      PROVE  NewRow(n, t) \in Row
  <2>1. {n} \cap Tracked \in SUBSET Tracked OBVIOUS
  <2>2. Born[n] \in Levels BY ConstantsAssumption
  <2> QED BY <2>1, <2>2 DEF NewRow, Row
<1>4. ASSUME NEW row \in Row, NEW c \in Levels, NEW S \in SUBSET Tracked
      PROVE  Credited(row, c, S) \in Row
  BY DEF Credited, Row
<1> QED BY <1>1, <1>2, <1>3, <1>4 DEF NoRows, Dropped, Row

\* A listing of the active rows is a set of rows.
LEMMA ListingType ==
  ASSUME TypeOK PROVE ActiveRows \in [Memories -> Row] /\ Active \subseteq Memories
  BY RowTypes DEF ActiveRows, Active, With, TypeOK

\* Wherever a process has a memory at hand it is one of the memories.
AtHand ==
  \A w \in Workers :
    pc[w] \in {"pair", "keep", "siblings", "insert", "old", "write"} =>
      cur[w] \in Memories

\* A process that leaves gives up all it knows.
LEMMA LeaveType ==
  ASSUME TypeOK, AtHand, NEW w \in Workers, Leave(w)
  PROVE  /\ pc' \in [Workers -> PCs]
         /\ copy' \in [Workers -> [Memories -> Row]]
         /\ found' \in [Workers -> [Memories -> Row]]
         /\ todo' \in [Workers -> SUBSET Memories]
         /\ gone' \in [Workers -> SUBSET Memories]
         /\ cur' \in [Workers -> Memories \cup {0}]
         /\ AtHand'
<1>1. "idle" \in PCs BY DEF PCs
<1>2. pc' = [pc EXCEPT ![w] = "idle"] /\ cur' = [cur EXCEPT ![w] = 0]
  BY DEF Leave, Goto
<1>3. AtHand' BY <1>2 DEF AtHand, TypeOK
<1> QED BY <1>1, <1>3, RowTypes DEF Leave, Goto, TypeOK

\* A row that is written leaves the others alone.
LEMMA PutType ==
  ASSUME TypeOK, NEW m \in Memories, NEW row \in Row, Put(m, row)
  PROVE  mem' \in [Memories -> Row]
  BY DEF Put, TypeOK

\* MergeDuplicates puts rows together.
LEMMA MergedType ==
  ASSUME TypeOK, AtHand, NEW w \in Workers, pc[w] = "pair",
         NEW b \in Memories
  PROVE  cur[w] \in Memories /\ MergedHere(w, b) \in Row /\ MergedThere(w, b) \in Row
<1>1. cur[w] \in Memories BY DEF AtHand
<1>2. copy[w][cur[w]] \in Row /\ found[w][b] \in Row BY <1>1 DEF TypeOK
<1> QED BY <1>1, <1>2, RowTypes DEF MergedHere, MergedThere

\* MergeDuplicates keeps to its types.
LEMMA MergeTypes ==
  ASSUME TypeOK, AtHand, NEW w \in Workers
  PROVE  /\ \A a \in Memories : MergeSearch(w, a) => TypeOK' /\ AtHand'
         /\ \A b \in Memories : MergePair(w, b) => TypeOK' /\ AtHand'
         /\ \A b \in Memories : MergePairFails(w, b) => TypeOK' /\ AtHand'
         /\ MergeNothing(w) => TypeOK' /\ AtHand'
<1> USE DEF TypeOK, AtHand
<1>1. ASSUME NEW a \in Memories, MergeSearch(w, a) PROVE TypeOK' /\ AtHand'
  <2>1. ActiveRows \in [Memories -> Row] BY ListingType
  <2>2. found' \in [Workers -> [Memories -> Row]] BY <1>1, <2>1 DEF MergeSearch
  <2>3. "pair" \in PCs BY DEF PCs
  <2>4. pc' \in [Workers -> PCs] BY <1>1, <2>3 DEF MergeSearch, Goto
  <2>5. cur' \in [Workers -> Memories \cup {0}] BY <1>1 DEF MergeSearch
  <2>6. todo' \in [Workers -> SUBSET Memories] BY <1>1 DEF MergeSearch
  <2> QED BY <1>1, <2>2, <2>4, <2>5, <2>6 DEF MergeSearch, Goto, budget, history
<1>2. ASSUME NEW b \in Memories, MergePair(w, b) PROVE TypeOK' /\ AtHand'
  <2>1. /\ cur[w] \in Memories
        /\ MergedHere(w, b) \in Row /\ MergedThere(w, b) \in Row
    BY <1>2, MergedType DEF MergePair
  <2>2. mem' \in [Memories -> Row] BY <1>2, <2>1 DEF MergePair
  <2>3. copy' \in [Workers -> [Memories -> Row]] BY <1>2, <2>1 DEF MergePair
  <2>4. gone' \in [Workers -> SUBSET Memories] BY <1>2, <2>1 DEF MergePair
  <2>5. found' \in [Workers -> [Memories -> Row]] BY <1>2, RowTypes DEF MergePair
  <2>6. "merge" \in PCs BY DEF PCs
  <2>7. pc' \in [Workers -> PCs] /\ cur' \in [Workers -> Memories \cup {0}]
    BY <1>2, <2>6 DEF MergePair, Goto
  <2>8. down' \in BOOLEAN BY <1>2 DEF MergePair
  <2> QED BY <1>2, <2>2, <2>3, <2>4, <2>5, <2>7, <2>8 DEF MergePair, Goto, budget
<1>3. ASSUME NEW b \in Memories, MergePairFails(w, b) PROVE TypeOK' /\ AtHand'
  <2>1. cur[w] \in Memories /\ MergedHere(w, b) \in Row
    BY <1>3, MergedType DEF MergePairFails
  <2>2. copy' \in [Workers -> [Memories -> Row]] BY <1>3, <2>1 DEF MergePairFails
  <2>3. found' \in [Workers -> [Memories -> Row]]
    BY <1>3, RowTypes DEF MergePairFails
  <2>4. down' \in BOOLEAN BY <1>3 DEF MergePairFails
  <2> QED BY <1>3, <2>2, <2>3, <2>4 DEF MergePairFails
<1>4. ASSUME MergeNothing(w) PROVE TypeOK' /\ AtHand'
  <2>1. found' \in [Workers -> [Memories -> Row]] BY <1>4, RowTypes DEF MergeNothing
  <2>2. "merge" \in PCs BY DEF PCs
  <2>3. pc' \in [Workers -> PCs] /\ cur' \in [Workers -> Memories \cup {0}]
    BY <1>4, <2>2 DEF MergeNothing, Goto
  <2> QED BY <1>4, <2>1, <2>3 DEF MergeNothing, Goto, budget, history
<1> QED BY <1>1, <1>2, <1>3, <1>4

\* The other jobs keep to their types.
LEMMA JobTypes ==
  ASSUME TypeOK, AtHand, NEW w \in Workers
  PROVE  /\ \A kind \in {"merge", "decay", "review"} :
              TakeList(w, kind) => TypeOK' /\ AtHand'
         /\ EndJob(w) => TypeOK' /\ AtHand'
         /\ \A m \in Memories : Decay(w, m) => TypeOK' /\ AtHand'
         /\ Review(w) => TypeOK' /\ AtHand'
         /\ \A m \in Memories : Rewrite(w, m) => TypeOK' /\ AtHand'
<1> USE DEF TypeOK, AtHand
<1>1. ASSUME NEW kind \in {"merge", "decay", "review"}, TakeList(w, kind)
      PROVE  TypeOK' /\ AtHand'
  <2>1. kind \in PCs BY DEF PCs
  <2>2. copy' \in [Workers -> [Memories -> Row]] /\ todo' \in [Workers -> SUBSET Memories]
    BY <1>1, ListingType DEF TakeList
  <2>3. pc' = [pc EXCEPT ![w] = kind] BY <1>1 DEF TakeList, Begin, Goto
  <2> QED BY <1>1, <2>1, <2>2, <2>3 DEF TakeList, budget, history
<1>2. ASSUME EndJob(w) PROVE TypeOK' /\ AtHand'
  <2> HIDE DEF AtHand
  <2> QED BY <1>2, LeaveType DEF EndJob, budget, history
<1>3. ASSUME NEW m \in Memories, Decay(w, m) PROVE TypeOK' /\ AtHand'
  <2>1. copy[w][m] \in Row OBVIOUS
  <2>2. mem' \in [Memories -> Row] /\ rewrites' \in Nat
    <3>1. CASE UNCHANGED <<mem, rewrites>> BY <3>1
    <3>2. ASSUME rewrites' = rewrites + 1,
                 NEW st \in {"active", "archived"},
                 Put(m, [copy[w][m] EXCEPT !.st = st])
          PROVE  mem' \in [Memories -> Row] /\ rewrites' \in Nat
      <4>1. [copy[w][m] EXCEPT !.st = st] \in Row BY <2>1, RowTypes
      <4> QED BY <3>2, <4>1, PutType
    <3> QED BY <1>3, <3>1, <3>2 DEF Decay
  <2>3. todo' \in [Workers -> SUBSET Memories] BY <1>3 DEF Decay, Visited
  <2>4. copy' \in [Workers -> [Memories -> Row]]
    BY <1>3, RowTypes DEF Decay, Visited
  <2> QED BY <1>3, <2>2, <2>3, <2>4 DEF Decay, history
<1>4. ASSUME Review(w) PROVE TypeOK' /\ AtHand'
  <2>1. PICK R \in SUBSET todo[w] : \E S, D \in SUBSET R : \E into \in [D -> R \ S] :
          /\ IF R = {} THEN UNCHANGED rewrites
             ELSE rewrites < MaxRewrites /\ rewrites' = rewrites + 1
          /\ copy' = [copy EXCEPT ![w] = [m \in Memories |->
               IF m \in S THEN [@[m] EXCEPT !.st = "archived"]
               ELSE IF m \in D THEN Dropped(@[m], into[m]) ELSE @[m]]]
          /\ todo' = [todo EXCEPT ![w] = R]
          /\ down' = (down \/ \E d \in D : ~Over(into[d], d))
    BY <1>4 DEF Review
  <2>2. PICK S \in SUBSET R, D \in SUBSET R : \E into \in [D -> R \ S] :
          /\ copy' = [copy EXCEPT ![w] = [m \in Memories |->
               IF m \in S THEN [@[m] EXCEPT !.st = "archived"]
               ELSE IF m \in D THEN Dropped(@[m], into[m]) ELSE @[m]]]
          /\ down' = (down \/ \E d \in D : ~Over(into[d], d))
    BY <2>1
  <2>3. PICK into \in [D -> R \ S] :
          /\ copy' = [copy EXCEPT ![w] = [m \in Memories |->
               IF m \in S THEN [@[m] EXCEPT !.st = "archived"]
               ELSE IF m \in D THEN Dropped(@[m], into[m]) ELSE @[m]]]
          /\ down' = (down \/ \E d \in D : ~Over(into[d], d))
    BY <2>2
  <2>4. ASSUME NEW m \in Memories
        PROVE  (IF m \in S THEN [copy[w][m] EXCEPT !.st = "archived"]
                ELSE IF m \in D THEN Dropped(copy[w][m], into[m])
                ELSE copy[w][m]) \in Row
    <3>1. copy[w][m] \in Row OBVIOUS
    <3>2. m \in D => into[m] \in Memories OBVIOUS
    <3> QED BY <3>1, <3>2, RowTypes
  <2>5. copy' \in [Workers -> [Memories -> Row]] BY <2>3, <2>4
  <2>6. todo' \in [Workers -> SUBSET Memories] /\ rewrites' \in Nat BY <2>1
  <2>7. down' \in BOOLEAN BY <2>3
  <2>8. "rewrite" \in PCs BY DEF PCs
  <2>9. pc' = [pc EXCEPT ![w] = "rewrite"] BY <1>4 DEF Review, Goto
  <2> QED BY <1>4, <2>5, <2>6, <2>7, <2>8, <2>9 DEF Review
<1>5. ASSUME NEW m \in Memories, Rewrite(w, m) PROVE TypeOK' /\ AtHand'
  <2>1. copy[w][m] \in Row OBVIOUS
  <2>2. mem' \in [Memories -> Row] BY <1>5, <2>1, PutType DEF Rewrite
  <2>3. todo' \in [Workers -> SUBSET Memories] BY <1>5 DEF Rewrite, Visited
  <2>4. copy' \in [Workers -> [Memories -> Row]]
    BY <1>5, RowTypes DEF Rewrite, Visited
  <2> QED BY <1>5, <2>2, <2>3, <2>4 DEF Rewrite, budget, history
<1> QED BY <1>1, <1>2, <1>3, <1>4, <1>5

\* A memory is about to be inserted, or to absorb what arrives.
LEMMA TakenType ==
  ASSUME TypeOK, NEW w \in Workers
  PROVE  /\ \A t \in Memories \cup {0} : Inserting(w, t) =>
              /\ copy' \in [Workers -> [Memories -> Row]]
              /\ \E n \in Memories : cur' = [cur EXCEPT ![w] = n]
              /\ down' \in BOOLEAN
         /\ \A k \in Memories, c \in Levels, S \in SUBSET Tracked,
              rows \in [Memories -> Row] : Absorbing(w, k, c, S, rows) =>
              /\ copy' \in [Workers -> [Memories -> Row]]
              /\ \E n \in Memories : cur' = [cur EXCEPT ![w] = n]
              /\ lifted' \in BOOLEAN
<1>1. ASSUME NEW t \in Memories \cup {0}, Inserting(w, t)
      PROVE  /\ copy' \in [Workers -> [Memories -> Row]]
             /\ \E n \in Memories : cur' = [cur EXCEPT ![w] = n]
             /\ down' \in BOOLEAN
  <2>1. PICK n \in Memories : /\ copy' = [copy EXCEPT ![w][n] = NewRow(n, t)]
                              /\ cur' = [cur EXCEPT ![w] = n]
                              /\ down' = (down \/ (t # 0 /\ ~Over(n, t)))
    BY <1>1 DEF Inserting
  <2>2. NewRow(n, t) \in Row BY RowTypes
  <2>3. copy' \in [Workers -> [Memories -> Row]] BY <2>1, <2>2 DEF TypeOK
  <2> QED BY <2>1, <2>3
<1>2. ASSUME NEW k \in Memories, NEW c \in Levels, NEW S \in SUBSET Tracked,
             NEW rows \in [Memories -> Row], Absorbing(w, k, c, S, rows)
      PROVE  /\ copy' \in [Workers -> [Memories -> Row]]
             /\ \E n \in Memories : cur' = [cur EXCEPT ![w] = n]
             /\ lifted' \in BOOLEAN
  <2>1. [rows EXCEPT ![k] = Credited(rows[k], c, S)] \in [Memories -> Row]
    BY RowTypes
  <2>2. copy' \in [Workers -> [Memories -> Row]]
    BY <1>2, <2>1 DEF Absorbing, TypeOK
  <2> QED BY <1>2, <2>2 DEF Absorbing
<1> QED BY <1>1, <1>2

\* The source events of the active memories.
LEMMA SourcesType == ASSUME TypeOK PROVE AllSources \in SUBSET Tracked
<1>1. \A m \in Active : mem[m].src \in SUBSET Tracked
  BY ListingType DEF TypeOK, Row
<1> QED BY <1>1 DEF AllSources

\* Arrivals keep to their types.
LEMMA ArrivalTypes ==
  ASSUME TypeOK, AtHand, NEW w \in Workers
  PROVE  /\ Candidate(w) => TypeOK' /\ AtHand'
         /\ Search(w) => TypeOK' /\ AtHand'
         /\ Keep(w) => TypeOK' /\ AtHand'
         /\ \A m \in Memories : Sibling(w, m) => TypeOK' /\ AtHand'
         /\ Remember(w) => TypeOK' /\ AtHand'
         /\ \A t \in Memories : Replace(w, t) => TypeOK' /\ AtHand'
         /\ Insert(w) => TypeOK' /\ AtHand'
<1> USE DEF TypeOK, AtHand
<1>0. {"search", "keep", "siblings", "insert", "write"} \subseteq PCs BY DEF PCs
<1>1. ASSUME Candidate(w) PROVE TypeOK' /\ AtHand'
  BY <1>0, <1>1 DEF Candidate, Begin, Goto, budget, history
<1>2. ASSUME Search(w) PROVE TypeOK' /\ AtHand'
  <2>1. CASE Inserting(w, 0) /\ Goto(w, "insert") /\ UNCHANGED lifted
    <3>1. PICK n \in Memories : cur' = [cur EXCEPT ![w] = n] BY <2>1, TakenType
    <3>2. /\ copy' \in [Workers -> [Memories -> Row]]
          /\ down' \in BOOLEAN
      BY <2>1, TakenType
    <3> QED BY <1>0, <1>2, <2>1, <3>1, <3>2 DEF Search, Goto, budget
  <2>2. ASSUME NEW k \in Memories, NEW c \in Levels,
               Absorbing(w, k, c, AllSources, ActiveRows), Goto(w, "keep"),
               down' \in BOOLEAN
        PROVE  TypeOK' /\ AtHand'
    <3>1. ActiveRows \in [Memories -> Row] /\ AllSources \in SUBSET Tracked
      BY ListingType, SourcesType
    <3>2. PICK n \in Memories : cur' = [cur EXCEPT ![w] = n]
      BY <2>2, <3>1, TakenType
    <3>3. copy' \in [Workers -> [Memories -> Row]] /\ lifted' \in BOOLEAN
      BY <2>2, <3>1, TakenType
    <3> QED BY <1>0, <1>2, <2>2, <3>2, <3>3 DEF Search, Goto, budget
  <2> QED BY <1>2, <2>1, <2>2 DEF Search
<1>3. ASSUME Keep(w) PROVE TypeOK' /\ AtHand'
  <2>1. cur[w] \in Memories /\ copy[w][cur[w]] \in Row BY <1>3 DEF Keep
  <2>2. mem' \in [Memories -> Row] BY <1>3, <2>1, PutType DEF Keep
  <2>3. todo' \in [Workers -> SUBSET Memories] BY <1>3 DEF Keep, With
  <2>4. pc' = [pc EXCEPT ![w] = "siblings"] BY <1>3 DEF Keep, Goto
  <2> QED BY <1>0, <1>3, <2>1, <2>2, <2>3, <2>4 DEF Keep, budget, history
<1>4. ASSUME NEW m \in Memories, Sibling(w, m) PROVE TypeOK' /\ AtHand'
  <2>1. cur[w] \in Memories BY <1>4 DEF Sibling
  <2>2. Dropped(copy[w][m], cur[w]) \in Row BY <2>1, RowTypes
  <2>3. mem' \in [Memories -> Row] BY <1>4, <2>2, PutType DEF Sibling
  <2>4. todo' \in [Workers -> SUBSET Memories] BY <1>4 DEF Sibling, Visited
  <2>5. copy' \in [Workers -> [Memories -> Row]]
    BY <1>4, RowTypes DEF Sibling, Visited
  <2> QED BY <1>4, <2>3, <2>4, <2>5 DEF Sibling, budget, history
<1>5. ASSUME Remember(w) PROVE TypeOK' /\ AtHand'
  <2>0. UNCHANGED <<mem, found, todo, gone, budget, unborn>> BY <1>5 DEF Remember
  <2>1. CASE Begin(w, "remember", "insert") /\ Inserting(w, 0) /\ UNCHANGED lifted
    <3>1. PICK n \in Memories : cur' = [cur EXCEPT ![w] = n] BY <2>1, TakenType
    <3>2. copy' \in [Workers -> [Memories -> Row]] /\ down' \in BOOLEAN
      BY <2>1, TakenType
    <3> QED BY <1>0, <2>0, <2>1, <3>1, <3>2 DEF Begin, Goto, budget
  <2>2. ASSUME NEW k \in Memories, NEW c \in Levels,
               Absorbing(w, k, c, mem[k].src, [copy[w] EXCEPT ![k] = mem[k]]),
               Begin(w, "remember", "write"), UNCHANGED down
        PROVE  TypeOK' /\ AtHand'
    <3>1. [copy[w] EXCEPT ![k] = mem[k]] \in [Memories -> Row] OBVIOUS
    <3>2. mem[k].src \in SUBSET Tracked BY DEF Row
    <3>3. PICK n \in Memories : cur' = [cur EXCEPT ![w] = n]
      BY <2>2, <3>1, <3>2, TakenType
    <3>4. copy' \in [Workers -> [Memories -> Row]] /\ lifted' \in BOOLEAN
      BY <2>2, <3>1, <3>2, TakenType
    <3> QED BY <1>0, <2>0, <2>2, <3>3, <3>4 DEF Begin, Goto, budget
  <2> QED BY <1>5, <2>1, <2>2 DEF Remember
<1>6. ASSUME NEW t \in Memories, Replace(w, t) PROVE TypeOK' /\ AtHand'
  <2>1. PICK n \in Memories : cur' = [cur EXCEPT ![w] = n]
    BY <1>6, TakenType DEF Replace
  <2>2. copy' \in [Workers -> [Memories -> Row]] /\ down' \in BOOLEAN
    BY <1>6, TakenType DEF Replace
  <2>3. mem' \in [Memories -> Row] /\ faults' \in Nat
    <3>1. CASE Put(t, Dropped(mem[t], cur'[w])) /\ UNCHANGED faults
      <4>1. Dropped(mem[t], cur'[w]) \in Row BY <2>1, RowTypes
      <4> QED BY <3>1, <4>1, PutType
    <3>2. CASE faults' = faults + 1 /\ UNCHANGED mem BY <3>2
    <3> QED BY <1>6, <3>1, <3>2 DEF Replace
  <2>4. pc' = [pc EXCEPT ![w] = "insert"] /\ calls' \in Nat
    BY <1>6 DEF Replace, Begin, Goto
  <2> QED BY <1>0, <1>6, <2>1, <2>2, <2>3, <2>4 DEF Replace
<1>7. ASSUME Insert(w) PROVE TypeOK' /\ AtHand'
  <2>1. cur[w] \in Memories /\ copy[w][cur[w]] \in Row BY <1>7 DEF Insert
  <2>2. mem' \in [Memories -> Row] BY <1>7, <2>1, PutType DEF Insert
  <2> HIDE DEF AtHand
  <2> QED BY <1>7, <2>2, LeaveType DEF Insert, budget, history
<1> QED BY <1>1, <1>2, <1>3, <1>4, <1>5, <1>6, <1>7

\* Calls and failures keep to their types.
LEMMA CallTypes ==
  ASSUME TypeOK, AtHand, NEW w \in Workers
  PROVE  /\ \A m \in Memories : Forget(w, m) => TypeOK' /\ AtHand'
         /\ \A m \in Memories : Share(w, m) => TypeOK' /\ AtHand'
         /\ \A m \in Memories : Edit(w, m) => TypeOK' /\ AtHand'
         /\ SupersedeOld(w) => TypeOK' /\ AtHand'
         /\ Write(w) => TypeOK' /\ AtHand'
         /\ Fail(w) => TypeOK' /\ AtHand'
<1> USE DEF TypeOK, AtHand
<1>0. {"old", "write"} \subseteq PCs BY DEF PCs
<1>1. ASSUME NEW m \in Memories, NEW l \in {"old", "write"}, NEW row \in Row,
             Call(w, m, l, row)
      PROVE  TypeOK' /\ AtHand'
  <2>1. pc' = [pc EXCEPT ![w] = l] /\ calls' \in Nat
    BY <1>1 DEF Call, Begin, Goto
  <2>2. copy' \in [Workers -> [Memories -> Row]] BY <1>1 DEF Call
  <2> QED BY <1>0, <1>1, <2>1, <2>2 DEF Call, history
<1>2. ASSUME NEW m \in Memories
      PROVE  mem[m] \in Row /\ [mem[m] EXCEPT !.st = "retracted"] \in Row
  BY RowTypes
<1>3. ASSUME SupersedeOld(w) PROVE TypeOK' /\ AtHand'
  <2>1. cur[w] \in Memories BY <1>3 DEF SupersedeOld
  <2>2. mem' \in [Memories -> Row]
    <3>1. ASSUME NEW old \in Memories, Put(old, Dropped(mem[old], cur[w]))
          PROVE  mem' \in [Memories -> Row]
      BY <2>1, <3>1, RowTypes, PutType
    <3> QED BY <1>3, <3>1 DEF SupersedeOld, Stored
  <2>3. pc' = [pc EXCEPT ![w] = "write"] BY <1>3 DEF SupersedeOld, Goto
  <2> QED BY <1>0, <1>3, <2>1, <2>2, <2>3 DEF SupersedeOld, budget, history
<1>4. ASSUME Write(w) PROVE TypeOK' /\ AtHand'
  <2>1. cur[w] \in Memories /\ copy[w][cur[w]] \in Row BY <1>4 DEF Write
  <2>2. mem' \in [Memories -> Row] BY <1>4, <2>1, PutType DEF Write
  <2> HIDE DEF AtHand
  <2> QED BY <1>4, <2>2, LeaveType DEF Write, budget, history
<1>5. ASSUME Fail(w) PROVE TypeOK' /\ AtHand'
  <2>1. unborn' \subseteq Memories /\ faults' \in Nat BY <1>5 DEF Fail
  <2> HIDE DEF AtHand
  <2> QED BY <1>5, <2>1, LeaveType DEF Fail
<1> QED BY <1>1, <1>2, <1>3, <1>4, <1>5 DEF Forget, Share, Edit

\* No step takes a variable out of its type.
LEMMA TypeStep ==
  ASSUME TypeOK, AtHand, [Next]_vars PROVE TypeOK' /\ AtHand'
<1>1. CASE UNCHANGED vars
  BY <1>1 DEF vars, local, budget, history, TypeOK, AtHand
<1>2. ASSUME NEW w \in Workers, Continue(w) \/ Start(w) \/ Fail(w)
                                \/ \E b \in Memories : MergePairFails(w, b)
      PROVE  TypeOK' /\ AtHand'
  <2>1. CASE Continue(w)
    BY <2>1, MergeTypes, JobTypes, ArrivalTypes, CallTypes DEF Continue, Merging
  <2>2. CASE Start(w) BY <2>2, JobTypes, ArrivalTypes, CallTypes DEF Start
  <2> QED BY <1>2, <2>1, <2>2, MergeTypes, CallTypes
<1> QED BY <1>1, <1>2 DEF Next

\* The store is empty and nobody works.
LEMMA TypeInit == ASSUME Init PROVE TypeOK /\ AtHand
  BY RowTypes DEF Init, TypeOK, AtHand, PCs

\* Every variable ranges over the values the code can give it, for any
\* memories and any division of the work (service.go, dedup.go, decay.go,
\* lifecycle_review.go, candidates.go).
THEOREM CurationTypes == Spec => []TypeOK
<1>1. Spec => [](TypeOK /\ AtHand) BY TypeInit, TypeStep, PTL DEF Spec
<1> QED BY <1>1, PTL
-----------------------------------------------------------------------------
(* Supersession climbs.  The rows alone are not enough: a row is put together *)
(* from copies, so the copies have to climb as well, and the keeper of a      *)
(* candidate's duplicates has to be the best of them until it has superseded  *)
(* the others.                                                                *)

\* The preference is turned once a lesser memory has been preferred, or lifted.
Turned == down \/ lifted

\* A confidence that memory m may have without having been lifted.
Steady(m, c) == c \in Levels /\ c >= Born[m] /\ ~Lifts(m, c)

\* A row names only better memories as its successor, lesser ones as replaced.
Up(m, row) ==
  /\ row.by # 0 => Over(row.by, m)
  /\ row.of # 0 => Over(m, row.of)
  /\ row.conf # 0 => Steady(m, row.conf)
  /\ row.st # "none" => row.conf # 0

RowsUp(rows) == \A m \in Memories : Up(m, rows[m])

CopiesUp == \A w \in Workers : RowsUp(copy[w]) /\ RowsUp(found[w])

\* The keeper of a candidate's duplicates is better than the others.
KeeperIsBest ==
  \A w \in Workers :
    /\ pc[w] = "keep" =>
         \A m \in With(copy[w], "active") \ {cur[w]} : Over(cur[w], m)
    /\ pc[w] = "siblings" => \A m \in todo[w] : Over(cur[w], m)

\* What a loop has still to work on has been read.
Read ==
  \A w \in Workers :
    /\ pc[w] \in {"merge", "pair", "decay", "review", "rewrite", "siblings"} =>
         \A m \in todo[w] : copy[w][m].conf # 0
    /\ pc[w] = "pair" => copy[w][cur[w]].conf # 0

\* Everything climbs.
AllUp == RowsUp(mem) /\ CopiesUp /\ KeeperIsBest /\ Read

ClimbInv == Turned \/ AllUp

\* Of two memories one is better by birth.
LEMMA OverOrder ==
  /\ \A a, b \in Memories : a # b => (Over(a, b) <=> ~Over(b, a))
  /\ \A n \in Memories : Steady(n, Born[n]) /\ Born[n] # 0
<1>1. \A m \in Memories : m \in Nat /\ Born[m] \in Nat /\ Born[m] # 0 /\ Born[m] \in Levels
  BY ConstantsAssumption
<1>2. ASSUME NEW a \in Memories, NEW b \in Memories, a # b
      PROVE  Over(a, b) <=> ~Over(b, a)
  BY <1>1, <1>2 DEF Over
<1>3. ASSUME NEW n \in Memories PROVE Steady(n, Born[n]) /\ Born[n] # 0
  BY <1>1 DEF Steady, Lifts
<1> QED BY <1>2, <1>3

\* As long as no memory has been lifted, the one that is better by birth is
\* preferred, whatever confidence each of the two was given since.
LEMMA Preferred ==
  ASSUME NEW a \in Memories, NEW b \in Memories, NEW c, NEW d,
         Steady(a, c), Steady(b, d), Over(a, b)
  PROVE  c > d \/ (c = d /\ a > b)
<1>1. c \in Nat /\ d \in Nat /\ Born[a] \in Nat /\ Born[b] \in Nat /\ a \in Nat /\ b \in Nat
  BY ConstantsAssumption DEF Steady
<1>2. ~(Born[b] < d /\ Born[a] <= d) BY DEF Steady, Lifts
<1> QED BY <1>1, <1>2 DEF Steady, Over

\* What the code does to rows keeps them climbing.
LEMMA RowsClimb ==
  /\ RowsUp(NoRows)
  /\ \A m \in Memories : Up(m, NoRow)
  /\ \A m, k \in Memories : \A row \in Row :
       Up(m, row) /\ row.conf # 0 /\ Over(k, m) =>
         Up(m, Dropped(row, k)) /\ Dropped(row, k).conf # 0
  /\ \A m, k \in Memories : \A row, other \in Row :
       Up(m, row) /\ row.conf # 0 /\ Over(m, k) =>
         Up(m, Absorbed(row, other, k)) /\ Absorbed(row, other, k).conf # 0
  /\ \A n \in Memories, t \in Memories \cup {0} :
       (t # 0 => Over(n, t)) => Up(n, NewRow(n, t))
  /\ \A m \in Memories, row \in Row, st \in {"active", "archived", "retracted"} :
       Up(m, row) /\ row.conf # 0 =>
         Up(m, [row EXCEPT !.st = st]) /\ [row EXCEPT !.st = st].conf # 0
  /\ \A m \in Memories, row \in Row, c \in Levels, S \in SUBSET Tracked :
       Up(m, row) /\ Steady(m, c) => Up(m, Credited(row, c, S))
<1>1. \A m \in Memories : Up(m, NoRow) BY DEF Up, NoRow
<1>2. ASSUME NEW m \in Memories, NEW k \in Memories, NEW row \in Row,
             Up(m, row), row.conf # 0, Over(k, m)
      PROVE  Up(m, Dropped(row, k)) /\ Dropped(row, k).conf # 0
  BY <1>2 DEF Up, Dropped, Row
<1>3. ASSUME NEW m \in Memories, NEW k \in Memories, NEW row \in Row,
             NEW other \in Row, Up(m, row), row.conf # 0, Over(m, k)
      PROVE  Up(m, Absorbed(row, other, k)) /\ Absorbed(row, other, k).conf # 0
  BY <1>3 DEF Up, Absorbed, Row
<1>4. ASSUME NEW n \in Memories, NEW t \in Memories \cup {0}, t # 0 => Over(n, t)
      PROVE  Up(n, NewRow(n, t))
  BY <1>4, OverOrder DEF Up, NewRow
<1>5. ASSUME NEW m \in Memories, NEW row \in Row,
             NEW st \in {"active", "archived", "retracted"}, Up(m, row), row.conf # 0
      PROVE  Up(m, [row EXCEPT !.st = st]) /\ [row EXCEPT !.st = st].conf # 0
  BY <1>5 DEF Up, Row
<1>6. ASSUME NEW m \in Memories, NEW row \in Row, NEW c \in Levels,
             NEW S \in SUBSET Tracked, Up(m, row), Steady(m, c)
      PROVE  Up(m, Credited(row, c, S))
  <2>1. c # 0 BY ConstantsAssumption
  <2> QED BY <1>6, <2>1 DEF Up, Credited, Row
<1> QED BY <1>1, <1>2, <1>3, <1>4, <1>5, <1>6 DEF RowsUp, NoRows

LEMMA ListingClimbs ==
  ASSUME TypeOK, RowsUp(mem)
  PROVE  RowsUp(ActiveRows) /\ \A m \in Active : ActiveRows[m].conf # 0
<1>1. RowsUp(ActiveRows) BY RowsClimb DEF RowsUp, ActiveRows
<1>2. ASSUME NEW m \in Active PROVE ActiveRows[m].conf # 0
  <2>1. m \in Memories /\ mem[m].st = "active" BY DEF Active, With
  <2> QED BY <2>1 DEF RowsUp, Up, ActiveRows
<1> QED BY <1>1, <1>2

\* A copy that climbs may be written.
LEMMA PutClimbs ==
  ASSUME TypeOK, RowsUp(mem), NEW m \in Memories, NEW row, Up(m, row), Put(m, row)
  PROVE  RowsUp(mem)'
  BY DEF RowsUp, Put, TypeOK

\* A process that leaves holds nothing that does not climb.
LEMMA LeaveClimbs ==
  ASSUME TypeOK, CopiesUp, KeeperIsBest, Read, NEW w \in Workers, Leave(w)
  PROVE  CopiesUp' /\ KeeperIsBest' /\ Read'
<1>1. CopiesUp' BY RowsClimb DEF CopiesUp, Leave, TypeOK
<1>2. KeeperIsBest' BY DEF KeeperIsBest, Leave, Goto, TypeOK, With
<1>3. Read' BY DEF Read, Leave, Goto, TypeOK
<1> QED BY <1>1, <1>2, <1>3

\* A loop that passes a memory keeps the order of the rest.
LEMMA VisitedClimbs ==
  ASSUME TypeOK, CopiesUp, KeeperIsBest, Read, NEW w \in Workers, NEW m \in Memories,
         Visited(w, m), UNCHANGED <<pc, found, cur>>, pc[w] # "pair"
  PROVE  CopiesUp' /\ KeeperIsBest' /\ Read'
<1>1. CopiesUp'
  <2>1. ASSUME NEW v \in Workers, NEW n \in Memories PROVE Up(n, copy'[v][n])
    <3>1. copy'[v][n] \in {copy[v][n], NoRow} BY DEF Visited, TypeOK
    <3> QED BY <3>1, RowsClimb DEF CopiesUp, RowsUp
  <2> QED BY <2>1 DEF CopiesUp, RowsUp
<1>2. KeeperIsBest'
  <2>1. ASSUME NEW v \in Workers
        PROVE  With(copy[v], "active")' \subseteq With(copy[v], "active")
    <3>1. ASSUME NEW n \in Memories, copy'[v][n].st = "active"
          PROVE  copy[v][n].st = "active"
      <4>1. copy'[v][n] \in {copy[v][n], NoRow} BY DEF Visited, TypeOK
      <4> QED BY <3>1, <4>1 DEF NoRow
    <3> QED BY <3>1 DEF With
  <2>2. \A v \in Workers : todo'[v] \subseteq todo[v] BY DEF Visited, TypeOK
  <2> QED BY <2>1, <2>2 DEF KeeperIsBest
<1>3. Read'
  <2>1. \A v \in Workers : \A n \in todo'[v] :
          n \in todo[v] /\ copy'[v][n] = copy[v][n]
    BY DEF Visited, TypeOK
  <2>2. \A v \in Workers : pc[v] = "pair" => copy'[v] = copy[v]
    BY DEF Visited
  <2> QED BY <2>1, <2>2 DEF Read
<1> QED BY <1>1, <1>2, <1>3

\* Of two memories MergeDuplicates lets the better one supersede the other,
\* unless it has preferred a twin.
LEMMA MergedClimbs ==
  ASSUME TypeOK, AtHand, AllUp, NEW w \in Workers, pc[w] = "pair",
         NEW b \in Mergeable(w), ~ByChance(w, b)
  PROVE  /\ cur[w] \in Memories /\ b \in Memories
         /\ Up(cur[w], MergedHere(w, b)) /\ MergedHere(w, b).conf # 0
         /\ Up(b, MergedThere(w, b))
<1>1. cur[w] \in Memories /\ b \in Memories /\ b # cur[w] /\ found[w][b].st = "active"
  BY DEF AtHand, Mergeable, With
<1> DEFINE c == copy[w][cur[w]].conf
           d == found[w][b].conf
<1>2. /\ copy[w][cur[w]] \in Row /\ Up(cur[w], copy[w][cur[w]])
      /\ found[w][b] \in Row /\ Up(b, found[w][b])
  BY <1>1 DEF TypeOK, AllUp, CopiesUp, RowsUp
<1>3. c # 0 /\ d # 0
  <2>1. c # 0 BY DEF AllUp, Read
  <2>2. d # 0 BY <1>1, <1>2 DEF Up
  <2> QED BY <2>1, <2>2
<1>4. Steady(cur[w], c) /\ Steady(b, d) BY <1>2, <1>3 DEF Up
<1>5. cur[w] \in Nat /\ b \in Nat /\ c \in Nat /\ d \in Nat
  BY <1>1, <1>4, ConstantsAssumption DEF Steady
<1>6. CASE Over(b, cur[w])
  <2>1. d > c \/ (d = c /\ b > cur[w]) BY <1>1, <1>4, <1>6, Preferred
  <2> HIDE DEF c, d
  <2>2. ~(c > d) /\ ~(c = d /\ cur[w] > b) /\ (c = d => cur[w] < b)
    BY <1>5, <2>1
  <2>3. ~Keeps(w, b) BY <2>2 DEF Keeps, ByChance, c, d
  <2> QED BY <1>1, <1>2, <1>3, <1>6, <2>3, RowsClimb DEF MergedHere, MergedThere, c, d
<1>7. CASE Over(cur[w], b)
  <2>1. c > d \/ (c = d /\ cur[w] > b) BY <1>1, <1>4, <1>7, Preferred
  <2>2. Keeps(w, b) BY <2>1 DEF Keeps
  <2> QED BY <1>1, <1>2, <1>3, <1>7, <2>2, RowsClimb DEF MergedHere, MergedThere
<1> QED BY <1>1, <1>6, <1>7, OverOrder

LEMMA MergeClimbs ==
  ASSUME TypeOK, AtHand, AllUp, NEW w \in Workers
  PROVE  /\ \A a \in Memories : MergeSearch(w, a) => AllUp'
         /\ \A b \in Memories : MergePair(w, b) => Turned' \/ AllUp'
         /\ \A b \in Memories : MergePairFails(w, b) => Turned' \/ AllUp'
         /\ MergeNothing(w) => AllUp'
<1> USE DEF TypeOK
<1>1. ASSUME NEW a \in Memories, MergeSearch(w, a) PROVE AllUp'
  <2>1. RowsUp(ActiveRows) /\ RowsUp(copy[w])
    BY ListingClimbs DEF AllUp, CopiesUp
  <2>2. CopiesUp' BY <1>1, <2>1 DEF MergeSearch, AllUp, CopiesUp
  <2>3. KeeperIsBest' BY <1>1 DEF MergeSearch, Goto, AllUp, KeeperIsBest, With
  <2>4. Read' BY <1>1 DEF MergeSearch, Goto, AllUp, Read
  <2> QED BY <1>1, <2>2, <2>3, <2>4 DEF MergeSearch, AllUp, RowsUp
<1>2. ASSUME NEW b \in Memories, MergePair(w, b), ~Turned' PROVE AllUp'
  <2>1. /\ b \in Mergeable(w) /\ cur[w] \in Memories
        /\ Up(cur[w], MergedHere(w, b)) /\ Up(b, MergedThere(w, b))
        /\ MergedHere(w, b).conf # 0
    BY <1>2, MergedClimbs DEF MergePair, Turned
  <2>2. RowsUp(mem)' BY <1>2, <2>1 DEF MergePair, AllUp, RowsUp
  <2>3. CopiesUp'
    <3>1. ASSUME NEW v \in Workers, NEW n \in Memories
          PROVE  Up(n, copy'[v][n]) /\ Up(n, found'[v][n])
      <4>1. Up(n, copy'[v][n]) BY <1>2, <2>1 DEF MergePair, AllUp, CopiesUp, RowsUp
      <4>2. found'[v] \in {found[v], NoRows} BY <1>2 DEF MergePair
      <4> QED BY <4>1, <4>2, RowsClimb DEF AllUp, CopiesUp, RowsUp
    <3> QED BY <3>1 DEF CopiesUp, RowsUp
  <2>4. KeeperIsBest' BY <1>2 DEF MergePair, Goto, AllUp, KeeperIsBest, With
  <2>5. Read' BY <1>2, <2>1 DEF MergePair, Goto, AllUp, Read
  <2> QED BY <2>2, <2>3, <2>4, <2>5 DEF AllUp
<1>3. ASSUME NEW b \in Memories, MergePairFails(w, b), ~Turned' PROVE AllUp'
  <2>1. /\ cur[w] \in Memories /\ Up(cur[w], MergedHere(w, b))
        /\ MergedHere(w, b).conf # 0
    BY <1>3, MergedClimbs DEF MergePairFails, Turned
  <2>2. CopiesUp'
    <3>1. ASSUME NEW v \in Workers, NEW n \in Memories
          PROVE  Up(n, copy'[v][n]) /\ Up(n, found'[v][n])
      <4>1. Up(n, copy'[v][n])
        BY <1>3, <2>1 DEF MergePairFails, AllUp, CopiesUp, RowsUp
      <4>2. found'[v][n] \in {found[v][n], NoRow} BY <1>3 DEF MergePairFails
      <4> QED BY <4>1, <4>2, RowsClimb DEF AllUp, CopiesUp, RowsUp
    <3> QED BY <3>1 DEF CopiesUp, RowsUp
  <2>3. KeeperIsBest' BY <1>3 DEF MergePairFails, AllUp, KeeperIsBest, With
  <2>4. Read' BY <1>3, <2>1 DEF MergePairFails, AllUp, Read
  <2> QED BY <1>3, <2>2, <2>3, <2>4 DEF MergePairFails, AllUp, RowsUp
<1>4. ASSUME MergeNothing(w) PROVE AllUp'
  <2>1. CopiesUp' BY <1>4, RowsClimb DEF MergeNothing, AllUp, CopiesUp
  <2>2. KeeperIsBest' BY <1>4 DEF MergeNothing, Goto, AllUp, KeeperIsBest, With
  <2>3. Read' BY <1>4 DEF MergeNothing, Goto, AllUp, Read
  <2> QED BY <1>4, <2>1, <2>2, <2>3 DEF MergeNothing, AllUp, RowsUp
<1> QED BY <1>1, <1>2, <1>3, <1>4

\* The review climbs unless the LLM has preferred a lesser memory.
LEMMA JobClimbs ==
  ASSUME TypeOK, AtHand, AllUp, NEW w \in Workers
  PROVE  /\ \A kind \in {"merge", "decay", "review"} : TakeList(w, kind) => AllUp'
         /\ EndJob(w) => AllUp'
         /\ \A m \in Memories : Decay(w, m) => AllUp'
         /\ Review(w) => Turned' \/ AllUp'
         /\ \A m \in Memories : Rewrite(w, m) => AllUp'
<1> USE DEF TypeOK
<1>1. ASSUME NEW kind \in {"merge", "decay", "review"}, TakeList(w, kind)
      PROVE  AllUp'
  <2>1. RowsUp(ActiveRows) /\ \A m \in Active : ActiveRows[m].conf # 0
    BY ListingClimbs DEF AllUp
  <2>2. pc' = [pc EXCEPT ![w] = kind] BY <1>1 DEF TakeList, Begin, Goto
  <2>3. CopiesUp' BY <1>1, <2>1 DEF TakeList, AllUp, CopiesUp
  <2>4. KeeperIsBest' BY <1>1, <2>2 DEF TakeList, AllUp, KeeperIsBest, With
  <2>5. Read' BY <1>1, <2>1, <2>2 DEF TakeList, AllUp, Read
  <2> QED BY <1>1, <2>3, <2>4, <2>5 DEF TakeList, AllUp, RowsUp
<1>2. ASSUME EndJob(w) PROVE AllUp'
  BY <1>2, LeaveClimbs DEF EndJob, AllUp, RowsUp
<1>3. ASSUME NEW m \in Memories, Decay(w, m) PROVE AllUp'
  <2>1. copy[w][m] \in Row /\ Up(m, copy[w][m]) /\ copy[w][m].conf # 0
    BY <1>3 DEF Decay, AllUp, CopiesUp, RowsUp, Read
  <2>2. RowsUp(mem)'
    <3>1. CASE UNCHANGED mem BY <3>1 DEF AllUp, RowsUp
    <3>2. ASSUME NEW st \in {"active", "archived"},
                 Put(m, [copy[w][m] EXCEPT !.st = st])
          PROVE  RowsUp(mem)'
      <4>1. Up(m, [copy[w][m] EXCEPT !.st = st]) BY <2>1, RowsClimb
      <4> QED BY <3>2, <4>1, PutClimbs DEF AllUp
    <3> QED BY <1>3, <3>1, <3>2 DEF Decay
  <2> QED BY <1>3, <2>2, VisitedClimbs DEF Decay, AllUp
<1>4. ASSUME Review(w), ~Turned' PROVE AllUp'
  <2>1. PICK R \in SUBSET todo[w] : \E S, D \in SUBSET R : \E into \in [D -> R \ S] :
          /\ \A d \in D : into[d] # d
          /\ copy' = [copy EXCEPT ![w] = [m \in Memories |->
               IF m \in S THEN [@[m] EXCEPT !.st = "archived"]
               ELSE IF m \in D THEN Dropped(@[m], into[m]) ELSE @[m]]]
          /\ todo' = [todo EXCEPT ![w] = R]
          /\ down' = (down \/ \E d \in D : ~Over(into[d], d))
    BY <1>4 DEF Review
  <2>2. PICK S \in SUBSET R, D \in SUBSET R : \E into \in [D -> R \ S] :
          /\ \A d \in D : into[d] # d
          /\ copy' = [copy EXCEPT ![w] = [m \in Memories |->
               IF m \in S THEN [@[m] EXCEPT !.st = "archived"]
               ELSE IF m \in D THEN Dropped(@[m], into[m]) ELSE @[m]]]
          /\ down' = (down \/ \E d \in D : ~Over(into[d], d))
    BY <2>1
  <2>3. PICK into \in [D -> R \ S] :
          /\ \A d \in D : into[d] # d
          /\ copy' = [copy EXCEPT ![w] = [m \in Memories |->
               IF m \in S THEN [@[m] EXCEPT !.st = "archived"]
               ELSE IF m \in D THEN Dropped(@[m], into[m]) ELSE @[m]]]
          /\ down' = (down \/ \E d \in D : ~Over(into[d], d))
    BY <2>2
  <2>4. ASSUME NEW d \in D PROVE into[d] \in Memories /\ Over(into[d], d)
    BY <1>4, <2>3 DEF Turned
  <2>5. ASSUME NEW m \in Memories
        PROVE  LET row == IF m \in S THEN [copy[w][m] EXCEPT !.st = "archived"]
                          ELSE IF m \in D THEN Dropped(copy[w][m], into[m])
                          ELSE copy[w][m]
               IN  Up(m, row) /\ (m \in R => row.conf # 0)
    <3>1. copy[w][m] \in Row /\ Up(m, copy[w][m]) BY DEF AllUp, CopiesUp, RowsUp
    <3>2. m \in R => copy[w][m].conf # 0
      BY <1>4, <2>1 DEF Review, AllUp, Read
    <3>3. m \in S \/ m \in D => m \in R BY <2>2
    <3>4. m \in S => /\ Up(m, [copy[w][m] EXCEPT !.st = "archived"])
                     /\ [copy[w][m] EXCEPT !.st = "archived"].conf # 0
      BY <3>1, <3>2, <3>3, RowsClimb
    <3>5. m \in D => /\ Up(m, Dropped(copy[w][m], into[m]))
                     /\ Dropped(copy[w][m], into[m]).conf # 0
      BY <2>4, <3>1, <3>2, <3>3, RowsClimb
    <3> QED BY <3>1, <3>2, <3>4, <3>5
  <2>6. CopiesUp' BY <1>4, <2>3, <2>5 DEF Review, AllUp, CopiesUp, RowsUp
  <2>7. pc' = [pc EXCEPT ![w] = "rewrite"] BY <1>4 DEF Review, Goto
  <2>8. KeeperIsBest'
    BY <1>4, <2>1, <2>3, <2>7 DEF Review, AllUp, KeeperIsBest, With
  <2>9. Read'
    <3>1. \A m \in R : copy'[w][m].conf # 0 BY <2>3, <2>5
    <3>2. todo'[w] = R BY <2>1
    <3>3. \A v \in Workers : v # w =>
            pc'[v] = pc[v] /\ todo'[v] = todo[v] /\ copy'[v] = copy[v]
      BY <2>1, <2>3, <2>7
    <3>4. UNCHANGED <<found, gone, cur>> BY <1>4 DEF Review
    <3> QED BY <2>7, <3>1, <3>2, <3>3, <3>4 DEF AllUp, Read
  <2> QED BY <1>4, <2>6, <2>8, <2>9 DEF Review, AllUp, RowsUp
<1>5. ASSUME NEW m \in Memories, Rewrite(w, m) PROVE AllUp'
  <2>1. Up(m, copy[w][m]) BY DEF AllUp, CopiesUp, RowsUp
  <2>2. RowsUp(mem)' BY <1>5, <2>1, PutClimbs DEF Rewrite, AllUp
  <2> QED BY <1>5, <2>2, VisitedClimbs DEF Rewrite, AllUp
<1> QED BY <1>1, <1>2, <1>3, <1>4, <1>5

\* What is about to be inserted or to absorb climbs.
LEMMA TakenClimbs ==
  ASSUME TypeOK, AllUp, NEW w \in Workers, UNCHANGED found, ~Turned'
  PROVE  /\ \A t \in Memories \cup {0} : Inserting(w, t) => CopiesUp'
         /\ \A k \in Memories, c \in Levels, S \in SUBSET Tracked,
              rows \in [Memories -> Row] :
              Absorbing(w, k, c, S, rows) /\ RowsUp(rows) /\ mem[k].conf # 0 =>
                CopiesUp' /\ RowsUp(copy'[w])
<1> USE DEF TypeOK
<1>1. ASSUME NEW t \in Memories \cup {0}, Inserting(w, t) PROVE CopiesUp'
  <2>1. PICK n \in Memories : /\ copy' = [copy EXCEPT ![w][n] = NewRow(n, t)]
                              /\ down' = (down \/ (t # 0 /\ ~Over(n, t)))
    BY <1>1 DEF Inserting
  <2>2. Up(n, NewRow(n, t)) BY <2>1, RowsClimb DEF Turned
  <2> QED BY <2>1, <2>2 DEF AllUp, CopiesUp, RowsUp
<1>2. ASSUME NEW k \in Memories, NEW c \in Levels, NEW S \in SUBSET Tracked,
             NEW rows \in [Memories -> Row], Absorbing(w, k, c, S, rows),
             RowsUp(rows), mem[k].conf # 0
      PROVE  CopiesUp' /\ RowsUp(copy'[w])
  <2>1. Steady(k, mem[k].conf) BY <1>2 DEF AllUp, RowsUp, Up
  <2>2. Steady(k, c)
    <3>1. c >= mem[k].conf /\ ~Lifts(k, c) BY <1>2 DEF Absorbing, Turned
    <3>2. c \in Nat /\ mem[k].conf \in Nat /\ Born[k] \in Nat
      BY <2>1, ConstantsAssumption DEF Steady
    <3>3. mem[k].conf >= Born[k] BY <2>1 DEF Steady
    <3>4. c >= Born[k] BY <3>1, <3>2, <3>3
    <3> QED BY <3>1, <3>4 DEF Steady
  <2>3. Up(k, Credited(rows[k], c, S)) BY <1>2, <2>2, RowsClimb DEF RowsUp
  <2>4. copy' = [copy EXCEPT ![w] = [rows EXCEPT ![k] = Credited(rows[k], c, S)]]
    BY <1>2 DEF Absorbing
  <2>5. copy'[w] = [rows EXCEPT ![k] = Credited(rows[k], c, S)] BY <2>4
  <2>6. RowsUp(copy'[w]) BY <1>2, <2>3, <2>5 DEF RowsUp
  <2>7. \A v \in Workers : v # w => copy'[v] = copy[v] BY <2>4
  <2> QED BY <2>6, <2>7 DEF AllUp, CopiesUp
<1> QED BY <1>1, <1>2

\* Whoever is told to absorb duplicates is the best of them.
LEMMA ArrivalClimbs ==
  ASSUME TypeOK, AtHand, AllUp, NEW w \in Workers
  PROVE  /\ Candidate(w) => AllUp'
         /\ Search(w) => Turned' \/ AllUp'
         /\ Keep(w) => AllUp'
         /\ \A m \in Memories : Sibling(w, m) => AllUp'
         /\ Remember(w) => Turned' \/ AllUp'
         /\ \A t \in Memories : Replace(w, t) => Turned' \/ AllUp'
         /\ Insert(w) => AllUp'
<1> USE DEF TypeOK
<1>0. ASSUME NEW l \in PCs \ {"keep", "siblings", "merge", "pair", "decay", "review", "rewrite"},
             pc' = [pc EXCEPT ![w] = l], UNCHANGED todo,
             \A v \in Workers : v # w => copy'[v] = copy[v] /\ cur'[v] = cur[v]
      PROVE  KeeperIsBest' /\ Read'
  <2>1. KeeperIsBest' BY <1>0 DEF AllUp, KeeperIsBest, With
  <2>2. Read' BY <1>0 DEF AllUp, Read
  <2> QED BY <2>1, <2>2
<1>a. {"search", "insert", "write"} \subseteq
        PCs \ {"keep", "siblings", "merge", "pair", "decay", "review", "rewrite"}
  BY DEF PCs
<1>b. \A t \in Memories \cup {0} : Inserting(w, t) =>
        \A v \in Workers : v # w => copy'[v] = copy[v] /\ cur'[v] = cur[v]
  BY DEF Inserting
<1>c. \A k, c, S, rows : Absorbing(w, k, c, S, rows) =>
        \A v \in Workers : v # w => copy'[v] = copy[v] /\ cur'[v] = cur[v]
  BY DEF Absorbing
<1>1. ASSUME Candidate(w) PROVE AllUp'
  <2>1. pc' = [pc EXCEPT ![w] = "search"] BY <1>1 DEF Candidate, Begin, Goto
  <2>2. KeeperIsBest' /\ Read' BY <1>0, <1>1, <1>a, <2>1 DEF Candidate
  <2> QED BY <1>1, <2>2 DEF Candidate, AllUp, RowsUp, CopiesUp
<1>2. ASSUME Search(w), ~Turned' PROVE AllUp'
  <2>0. UNCHANGED <<mem, found, todo>> BY <1>2 DEF Search
  <2>1. CASE Inserting(w, 0) /\ Goto(w, "insert")
    <3>1. CopiesUp' BY <1>2, <2>0, <2>1, TakenClimbs
    <3>2. KeeperIsBest' /\ Read' BY <1>0, <1>a, <1>b, <2>0, <2>1 DEF Goto
    <3> QED BY <2>0, <3>1, <3>2 DEF AllUp, RowsUp
  <2>2. ASSUME NEW k \in Memories, NEW c \in Levels, Best(k),
               Absorbing(w, k, c, AllSources, ActiveRows),
               down' = (down \/ \E m \in Active : mem[m].conf = mem[k].conf /\ k < m),
               Goto(w, "keep")
        PROVE  AllUp'
    <3>1. /\ ActiveRows \in [Memories -> Row] /\ RowsUp(ActiveRows)
          /\ AllSources \in SUBSET Tracked
      BY ListingType, ListingClimbs, SourcesType DEF AllUp
    <3>2. \A m \in Active : m \in Memories /\ mem[m].conf # 0 /\ Steady(m, mem[m].conf)
      BY DEF Active, With, AllUp, RowsUp, Up
    <3>3. k \in Active BY <2>2 DEF Best
    <3>4. CopiesUp' BY <1>2, <2>0, <2>2, <3>1, <3>2, <3>3, TakenClimbs
    <3>5. ASSUME NEW m \in Active, m # k PROVE Over(k, m)
      <4>1. SUFFICES ASSUME Over(m, k) PROVE FALSE
        BY <3>2, <3>3, <3>5, OverOrder
      <4>2. mem[m].conf > mem[k].conf \/ (mem[m].conf = mem[k].conf /\ m > k)
        BY <3>2, <3>3, <4>1, Preferred
      <4>3. /\ mem[m].conf \in Nat /\ mem[k].conf \in Nat /\ m \in Nat /\ k \in Nat
        BY <3>2, <3>3, ConstantsAssumption DEF Steady
      <4>4. mem[k].conf >= mem[m].conf
        BY <2>2, <3>5, <4>3 DEF Best
      <4>5. ~(mem[m].conf = mem[k].conf /\ k < m) BY <1>2, <2>2 DEF Turned
      <4> QED BY <4>2, <4>3, <4>4, <4>5
    <3>6. copy'[w] = [ActiveRows EXCEPT ![k] = Credited(ActiveRows[k], c, AllSources)]
      BY <2>2 DEF Absorbing
    <3>7. ASSUME NEW m \in Memories PROVE copy'[w][m].st = ActiveRows[m].st
      <4>1. ActiveRows[m] \in Row BY <3>1
      <4>2. copy'[w][m] \in {ActiveRows[m], Credited(ActiveRows[m], c, AllSources)}
        BY <3>1, <3>6
      <4>3. Credited(ActiveRows[m], c, AllSources).st = ActiveRows[m].st
        BY <4>1 DEF Credited, Row
      <4> QED BY <4>2, <4>3
    <3>8. \A m \in Memories : copy'[w][m].st = "active" => m \in Active
      BY <3>7 DEF ActiveRows, NoRow
    <3>9. cur'[w] = k /\ pc' = [pc EXCEPT ![w] = "keep"] BY <2>2 DEF Absorbing, Goto
    <3>10. KeeperIsBest'
      <4>1. \A m \in With(copy'[w], "active") \ {k} : Over(k, m)
        BY <3>5, <3>8 DEF With
      <4> QED BY <1>c, <2>0, <2>2, <3>9, <4>1 DEF AllUp, KeeperIsBest, With
    <3>11. Read' BY <1>c, <2>0, <2>2, <3>9 DEF AllUp, Read
    <3> QED BY <2>0, <3>4, <3>10, <3>11 DEF AllUp, RowsUp
  <2> QED BY <1>2, <2>1, <2>2 DEF Search
<1>3. ASSUME Keep(w) PROVE AllUp'
  <2>1. cur[w] \in Memories BY <1>3 DEF Keep, AtHand
  <2>2. Up(cur[w], copy[w][cur[w]]) BY <2>1 DEF AllUp, CopiesUp, RowsUp
  <2>3. RowsUp(mem)' BY <1>3, <2>1, <2>2, PutClimbs DEF Keep, AllUp
  <2>4. pc' = [pc EXCEPT ![w] = "siblings"] BY <1>3 DEF Keep, Goto
  <2>5. ASSUME NEW m \in todo'[w] PROVE Over(cur[w], m) /\ copy[w][m].conf # 0
    <3>1. m \in With(copy[w], "active") \ {cur[w]} BY <1>3 DEF Keep
    <3> QED BY <1>3, <3>1 DEF Keep, AllUp, KeeperIsBest, CopiesUp, RowsUp, Up, With
  <2>6. KeeperIsBest' BY <1>3, <2>4, <2>5 DEF Keep, AllUp, KeeperIsBest, With
  <2>7. Read' BY <1>3, <2>4, <2>5 DEF Keep, AllUp, Read
  <2> QED BY <1>3, <2>3, <2>6, <2>7 DEF Keep, AllUp, CopiesUp, RowsUp
<1>4. ASSUME NEW m \in Memories, Sibling(w, m) PROVE AllUp'
  <2>1. cur[w] \in Memories /\ Over(cur[w], m)
    BY <1>4 DEF Sibling, AtHand, AllUp, KeeperIsBest
  <2>2. copy[w][m].conf # 0 BY <1>4 DEF Sibling, AllUp, Read
  <2>3. copy[w][m] \in Row /\ Up(m, copy[w][m]) BY DEF AllUp, CopiesUp, RowsUp
  <2>4. Up(m, Dropped(copy[w][m], cur[w])) BY <2>1, <2>2, <2>3, RowsClimb
  <2>5. RowsUp(mem)' BY <1>4, <2>4, PutClimbs DEF Sibling, AllUp
  <2> QED BY <1>4, <2>5, VisitedClimbs DEF Sibling, AllUp
<1>5. ASSUME Remember(w), ~Turned' PROVE AllUp'
  <2>0. UNCHANGED <<mem, found, todo>> BY <1>5 DEF Remember
  <2>1. CASE Begin(w, "remember", "insert") /\ Inserting(w, 0)
    <3>1. CopiesUp' BY <1>5, <2>0, <2>1, TakenClimbs
    <3>2. KeeperIsBest' /\ Read' BY <1>0, <1>a, <1>b, <2>0, <2>1 DEF Begin, Goto
    <3> QED BY <2>0, <3>1, <3>2 DEF AllUp, RowsUp
  <2>2. ASSUME NEW k \in Memories, NEW c \in Levels, Best(k),
               Absorbing(w, k, c, mem[k].src, [copy[w] EXCEPT ![k] = mem[k]]),
               Begin(w, "remember", "write")
        PROVE  AllUp'
    <3>1. [copy[w] EXCEPT ![k] = mem[k]] \in [Memories -> Row] OBVIOUS
    <3>2. mem[k].src \in SUBSET Tracked BY DEF Row
    <3>3. RowsUp([copy[w] EXCEPT ![k] = mem[k]]) BY DEF AllUp, CopiesUp, RowsUp
    <3>4. mem[k].conf # 0 BY <2>2 DEF Best, Active, With, AllUp, RowsUp, Up
    <3>5. CopiesUp' BY <1>5, <2>0, <2>2, <3>1, <3>2, <3>3, <3>4, TakenClimbs
    <3>6. KeeperIsBest' /\ Read' BY <1>0, <1>a, <1>c, <2>0, <2>2 DEF Begin, Goto
    <3> QED BY <2>0, <3>5, <3>6 DEF AllUp, RowsUp
  <2> QED BY <1>5, <2>1, <2>2 DEF Remember
<1>6. ASSUME NEW t \in Memories, Replace(w, t), ~Turned' PROVE AllUp'
  <2>0. UNCHANGED <<found, todo>> /\ Inserting(w, t) BY <1>6 DEF Replace
  <2>1. PICK n \in Memories : /\ cur' = [cur EXCEPT ![w] = n]
                              /\ down' = (down \/ (t # 0 /\ ~Over(n, t)))
    BY <2>0 DEF Inserting
  <2>2. Over(n, t)
    <3>1. t # 0 BY ConstantsAssumption
    <3> QED BY <1>6, <2>1, <3>1 DEF Turned
  <2>3. Up(t, Dropped(mem[t], n))
    <3>1. mem[t].conf # 0 /\ Up(t, mem[t])
      BY <1>6 DEF Replace, Stored, AllUp, RowsUp, Up
    <3>2. mem[t] \in Row OBVIOUS
    <3> QED BY <2>2, <3>1, <3>2, RowsClimb
  <2>4. RowsUp(mem)'
    <3>1. CASE Put(t, Dropped(mem[t], cur'[w]))
      <4>1. cur'[w] = n BY <2>1
      <4> QED BY <2>3, <3>1, <4>1, PutClimbs DEF AllUp
    <3>2. CASE UNCHANGED mem BY <3>2 DEF AllUp, RowsUp
    <3> QED BY <1>6, <3>1, <3>2 DEF Replace
  <2>5. CopiesUp' BY <1>6, <2>0, TakenClimbs
  <2>6. pc' = [pc EXCEPT ![w] = "insert"] BY <1>6 DEF Replace, Begin, Goto
  <2>7. KeeperIsBest' /\ Read' BY <1>0, <1>a, <1>b, <2>0, <2>6
  <2> QED BY <2>4, <2>5, <2>7 DEF AllUp
<1>7. ASSUME Insert(w) PROVE AllUp'
  <2>1. cur[w] \in Memories BY <1>7 DEF Insert, AtHand
  <2>2. Up(cur[w], copy[w][cur[w]]) BY <2>1 DEF AllUp, CopiesUp, RowsUp
  <2>3. RowsUp(mem)' BY <1>7, <2>1, <2>2, PutClimbs DEF Insert, AllUp
  <2> QED BY <1>7, <2>3, LeaveClimbs DEF Insert, AllUp
<1> QED BY <1>1, <1>2, <1>3, <1>4, <1>5, <1>6, <1>7

\* Calls and failures climb: what a memory replaces is lesser.
LEMMA CallClimbs ==
  ASSUME TypeOK, AtHand, AllUp, NEW w \in Workers
  PROVE  /\ \A m \in Memories : Forget(w, m) => AllUp'
         /\ \A m \in Memories : Share(w, m) => AllUp'
         /\ \A m \in Memories : Edit(w, m) => AllUp'
         /\ SupersedeOld(w) => AllUp'
         /\ Write(w) => AllUp'
         /\ Fail(w) => AllUp'
<1> USE DEF TypeOK
<1>1. ASSUME NEW m \in Memories, NEW l \in {"old", "write"}, NEW row,
             Up(m, row), Call(w, m, l, row)
      PROVE  AllUp'
  <2>1. pc' = [pc EXCEPT ![w] = l] BY <1>1 DEF Call, Begin, Goto
  <2>2. CopiesUp' BY <1>1 DEF Call, AllUp, CopiesUp, RowsUp
  <2>3. KeeperIsBest' BY <1>1, <2>1 DEF Call, AllUp, KeeperIsBest, With
  <2>4. Read' BY <1>1, <2>1 DEF Call, AllUp, Read
  <2> QED BY <1>1, <2>2, <2>3, <2>4 DEF Call, AllUp, RowsUp
<1>2. ASSUME NEW m \in Stored
      PROVE  Up(m, mem[m]) /\ Up(m, [mem[m] EXCEPT !.st = "retracted"])
  <2>1. m \in Memories /\ mem[m] \in Row /\ mem[m].st # "none" BY DEF Stored
  <2>2. Up(m, mem[m]) /\ mem[m].conf # 0 BY <2>1 DEF AllUp, RowsUp, Up
  <2> QED BY <2>1, <2>2, RowsClimb
<1>3. ASSUME SupersedeOld(w) PROVE AllUp'
  <2>1. cur[w] \in Memories BY <1>3 DEF SupersedeOld, AtHand
  <2>2. Up(cur[w], copy[w][cur[w]]) BY <2>1 DEF AllUp, CopiesUp, RowsUp
  <2>3. RowsUp(mem)'
    <3>1. ASSUME NEW old \in Stored, old = copy[w][cur[w]].of,
                 Put(old, Dropped(mem[old], cur[w]))
          PROVE  RowsUp(mem)'
      <4>1. Over(cur[w], old)
        <5>1. old # 0 BY ConstantsAssumption DEF Stored
        <5> QED BY <2>2, <3>1, <5>1 DEF Up
      <4>2. mem[old] \in Row /\ Up(old, mem[old]) /\ mem[old].conf # 0
        BY <3>1 DEF Stored, AllUp, RowsUp, Up
      <4>3. old \in Memories BY DEF Stored
      <4>4. Up(old, Dropped(mem[old], cur[w]))
        BY <2>1, <4>1, <4>2, <4>3, RowsClimb
      <4> QED BY <3>1, <4>3, <4>4, PutClimbs DEF AllUp
    <3>2. CASE UNCHANGED mem BY <3>2 DEF AllUp, RowsUp
    <3> QED BY <1>3, <3>1, <3>2 DEF SupersedeOld
  <2>4. pc' = [pc EXCEPT ![w] = "write"] BY <1>3 DEF SupersedeOld, Goto
  <2>5. KeeperIsBest' BY <1>3, <2>4 DEF SupersedeOld, AllUp, KeeperIsBest, With
  <2>6. Read' BY <1>3, <2>4 DEF SupersedeOld, AllUp, Read
  <2> QED BY <1>3, <2>3, <2>5, <2>6 DEF SupersedeOld, AllUp, CopiesUp, RowsUp
<1>4. ASSUME Write(w) PROVE AllUp'
  <2>1. cur[w] \in Memories BY <1>4 DEF Write, AtHand
  <2>2. Up(cur[w], copy[w][cur[w]]) BY <2>1 DEF AllUp, CopiesUp, RowsUp
  <2>3. RowsUp(mem)' BY <1>4, <2>1, <2>2, PutClimbs DEF Write, AllUp
  <2> QED BY <1>4, <2>3, LeaveClimbs DEF Write, AllUp
<1>5. ASSUME Fail(w) PROVE AllUp'
  BY <1>5, LeaveClimbs DEF Fail, AllUp, RowsUp
<1> QED BY <1>1, <1>2, <1>3, <1>4, <1>5 DEF Forget, Share, Edit, Call

\* Nobody takes back that a lesser memory was preferred or lifted.
LEMMA TurnedStays == ASSUME TypeOK, Turned, [Next]_vars PROVE Turned'
<1> USE DEF Turned
<1>1. CASE UNCHANGED vars BY <1>1 DEF vars, history
<1>2. ASSUME NEW w \in Workers, Continue(w) \/ Start(w) \/ Fail(w)
                                \/ \E b \in Memories : MergePairFails(w, b)
      PROVE  Turned'
  BY <1>2 DEF Continue, Start, Fail, MergePairFails, Merging, TakeList, MergeNothing,
      MergeSearch, MergePair, EndJob, Review, Search, Keep, Insert, SupersedeOld,
      Write, Decay, Rewrite, Sibling, Candidate, Remember, Replace, Forget, Share,
      Edit, Call, Inserting, Absorbing, history
<1> QED BY <1>1, <1>2 DEF Next

\* Every step keeps everything climbing.
LEMMA ClimbStep ==
  ASSUME TypeOK, AtHand, ClimbInv, [Next]_vars PROVE ClimbInv'
<1>1. CASE Turned BY <1>1, TurnedStays DEF ClimbInv
<1>2. CASE AllUp
  <2>1. CASE UNCHANGED vars
    BY <1>2, <2>1 DEF vars, local, history, ClimbInv, AllUp, RowsUp, CopiesUp,
       KeeperIsBest, Read, With
  <2>2. ASSUME NEW w \in Workers, Continue(w) \/ Start(w) \/ Fail(w)
                                  \/ \E b \in Memories : MergePairFails(w, b)
        PROVE  Turned' \/ AllUp'
    <3>1. CASE Continue(w)
      BY <1>2, <3>1, MergeClimbs, JobClimbs, ArrivalClimbs, CallClimbs
      DEF Continue, Merging
    <3>2. CASE Start(w)
      BY <1>2, <3>2, JobClimbs, ArrivalClimbs, CallClimbs DEF Start
    <3> QED BY <1>2, <2>2, <3>1, <3>2, MergeClimbs, CallClimbs
  <2> QED BY <2>1, <2>2 DEF Next, ClimbInv, AllUp
<1> QED BY <1>1, <1>2 DEF ClimbInv, AllUp

\* In the empty store everything climbs.
LEMMA ClimbInit == ASSUME Init PROVE ClimbInv
  BY RowsClimb DEF Init, ClimbInv, AllUp, RowsUp, CopiesUp, KeeperIsBest, Read

\* Supersession never runs in a circle, whatever stale copies the rows are
\* written from and however confident memories become by what they absorb, unless
\* a caller, the LLM or chance has preferred a lesser memory, or one has been lifted
\* to the confidence of a better one (memory_candidates.go:65-83, candidates.go:335-337,
\* service.go:412-414, dedup.go:152-175, candidates.go:346-366, service.go:430-441 and 575-586).
THEOREM SupersessionClimbs == Spec => []Climbs
<1>1. Spec => [](TypeOK /\ AtHand /\ ClimbInv)
  BY TypeInit, TypeStep, ClimbInit, ClimbStep, PTL DEF Spec
<1>2. ClimbInv => Climbs BY DEF ClimbInv, Turned, AllUp, Climbs, RowsUp, Up
<1> QED BY <1>1, <1>2, PTL
-----------------------------------------------------------------------------
(* Forgotten memories. *)

\* What DecayStaleMemories has still to visit was active when it listed it.
Decaying ==
  \A w \in Workers : pc[w] = "decay" => \A m \in todo[w] : copy[w][m].st = "active"

\* A process that has the row m as an active one in its copies.
HasActive(w, m) == "active" \in {copy[w][m].st, found[w][m].st}

\* Whatever makes a row active has its copy as an active one: the other rows
\* that are written are superseded, or are written as they were.
LEMMA ActiveFromCopy ==
  ASSUME TypeOK, AtHand, Decaying, NEW w \in Workers,
         Continue(w) \/ Start(w) \/ Fail(w) \/ \E b \in Memories : MergePairFails(w, b),
         NEW m \in Memories, mem[m].st # "active", mem'[m].st = "active"
  PROVE  HasActive(w, m)
<1> USE DEF TypeOK
<1>0. mem[m] \in Row /\ mem'[m] # mem[m] OBVIOUS
<1>1. ASSUME NEW n \in Memories, NEW row \in Row, Put(n, row)
      PROVE  m = n /\ row.st = "active"
  BY <1>0, <1>1 DEF Put
<1>2. \A row \in Row, k \in Memories :
        Dropped(row, k) \in Row /\ Dropped(row, k).st = "superseded"
  BY RowTypes DEF Dropped, Row
<1>3. ASSUME NEW n \in Memories, Put(n, copy[w][n]) PROVE HasActive(w, m)
  <2>1. copy[w][n] \in Row OBVIOUS
  <2>2. m = n /\ copy[w][n].st = "active" BY <1>1, <1>3, <2>1
  <2> QED BY <2>2 DEF HasActive
<1>4. ASSUME NEW n \in Memories, NEW row \in Row, NEW k \in Memories,
             Put(n, Dropped(row, k))
      PROVE  FALSE
  <2>1. Dropped(row, k) \in Row /\ Dropped(row, k).st = "superseded" BY <1>2
  <2>2. Dropped(row, k).st = "active" BY <1>1, <1>4, <2>1
  <2> QED BY <2>1, <2>2
<1>5. ASSUME NEW b \in Memories, MergePair(w, b) PROVE HasActive(w, m)
  <2> DEFINE a == cur[w]
  <2>1. a \in Memories /\ b # a /\ found[w][b].st = "active"
    BY <1>5 DEF MergePair, AtHand, Mergeable, With
  <2>2. copy[w][a] \in Row /\ found[w][b] \in Row BY <2>1
  <2>3. m = a \/ m = b BY <1>0, <1>5 DEF MergePair
  <2>4. CASE m = b BY <2>1, <2>4 DEF HasActive
  <2>5. CASE m = a
    <3>1. MergedHere(w, b).st = "active" BY <1>5, <2>1, <2>5 DEF MergePair
    <3>2. Absorbed(copy[w][a], found[w][b], b).st = copy[w][a].st
      BY <2>2 DEF Absorbed, Row
    <3>3. Dropped(copy[w][a], b).st = "superseded" BY <1>2, <2>2
    <3>4. copy[w][a].st = "active" BY <3>1, <3>2, <3>3 DEF MergedHere
    <3> QED BY <2>5, <3>4 DEF HasActive
  <2> QED BY <2>3, <2>4, <2>5
<1>6. ASSUME NEW n \in Memories, Decay(w, n) PROVE HasActive(w, m)
  <2>1. copy[w][n].st = "active" BY <1>6 DEF Decay, Decaying
  <2>2. PICK st \in {"active", "archived"} : Put(n, [copy[w][n] EXCEPT !.st = st])
    BY <1>0, <1>6 DEF Decay
  <2>3. [copy[w][n] EXCEPT !.st = st] \in Row
    <3>1. copy[w][n] \in Row OBVIOUS
    <3> QED BY <3>1, RowTypes
  <2>4. m = n BY <1>1, <2>2, <2>3
  <2> QED BY <2>1, <2>4 DEF HasActive
<1>7. CASE Keep(w) \/ Insert(w) \/ Write(w) \/ \E n \in Memories : Rewrite(w, n)
  <2>1. Keep(w) \/ Insert(w) \/ Write(w) => cur[w] \in Memories
    BY DEF Keep, Insert, Write, AtHand
  <2> QED BY <1>3, <1>7, <2>1 DEF Keep, Insert, Write, Rewrite
<1>8. ASSUME NEW n \in Memories, Sibling(w, n) PROVE FALSE
  <2>1. cur[w] \in Memories /\ copy[w][n] \in Row BY <1>8 DEF Sibling, AtHand
  <2> QED BY <1>4, <1>8, <2>1 DEF Sibling
<1>9. ASSUME NEW t \in Memories, Replace(w, t) PROVE FALSE
  <2>1. PICK n \in Memories : cur' = [cur EXCEPT ![w] = n]
    BY <1>9 DEF Replace, Inserting
  <2>2. Put(t, Dropped(mem[t], n)) BY <1>0, <1>9, <2>1 DEF Replace
  <2>3. mem[t] \in Row OBVIOUS
  <2> QED BY <1>4, <2>2, <2>3
<1>10. ASSUME SupersedeOld(w) PROVE FALSE
  <2>1. cur[w] \in Memories BY <1>10 DEF SupersedeOld, AtHand
  <2>2. PICK old \in Memories : Put(old, Dropped(mem[old], cur[w]))
    BY <1>0, <1>10 DEF SupersedeOld, Stored
  <2>3. mem[old] \in Row OBVIOUS
  <2> QED BY <1>4, <2>1, <2>2, <2>3
<1>11. ASSUME mem' = mem PROVE FALSE BY <1>0, <1>11
<1>12. CASE Continue(w)
  <2>1. CASE \E n \in Memories : MergePair(w, n) \/ Decay(w, n) \/ Sibling(w, n)
    BY <1>5, <1>6, <1>8, <2>1
  <2>2. TakeList(w, "merge") \/ MergeNothing(w) \/ EndJob(w) \/ Review(w) \/ Search(w)
          \/ (\E n \in Memories : MergeSearch(w, n)) => mem' = mem
    BY DEF TakeList, MergeNothing, EndJob, Review, Search, MergeSearch
  <2> QED BY <1>7, <1>10, <1>11, <1>12, <2>1, <2>2 DEF Continue, Merging
<1>13. CASE Start(w)
  <2>1. TakeList(w, "decay") \/ TakeList(w, "review") \/ Candidate(w) \/ Remember(w)
          \/ (\E n \in Memories : Forget(w, n) \/ Share(w, n) \/ Edit(w, n))
          => mem' = mem
    BY DEF TakeList, Candidate, Remember, Forget, Share, Edit, Call
  <2> QED BY <1>9, <1>11, <1>13, <2>1 DEF Start
<1>14. CASE Fail(w) \/ \E b \in Memories : MergePairFails(w, b)
  BY <1>11, <1>14 DEF Fail, MergePairFails
<1> QED BY <1>12, <1>13, <1>14

\* The job works from its listing until it has passed a memory.
LEMMA DecayingStep == ASSUME TypeOK, Decaying, [Next]_vars PROVE Decaying'
<1> USE DEF TypeOK
<1>1. CASE UNCHANGED vars BY <1>1 DEF vars, local, Decaying
<1>2. ASSUME NEW w \in Workers, Continue(w) \/ Start(w) \/ Fail(w)
                                \/ \E b \in Memories : MergePairFails(w, b)
      PROVE  Decaying'
  <2>1. \A v \in Workers : v # w =>
          pc'[v] = pc[v] /\ copy'[v] = copy[v] /\ todo'[v] = todo[v]
    BY <1>2 DEF Continue, Start, Fail, MergePairFails, Merging, TakeList, MergeNothing,
       MergeSearch, MergePair, EndJob, Review, Search, Keep, Insert, SupersedeOld,
       Write, Decay, Rewrite, Sibling, Candidate, Remember, Replace, Forget, Share,
       Edit, Call, Begin, Leave, Visited, Goto, Inserting, Absorbing
  <2>2. ASSUME pc'[w] = "decay", NEW m \in todo'[w]
        PROVE  copy'[w][m].st = "active"
    <3>1. CASE TakeList(w, "decay")
      <4>1. m \in Active /\ copy'[w] = ActiveRows BY <2>2, <3>1 DEF TakeList
      <4> QED BY <4>1 DEF ActiveRows, Active, With
    <3>2. CASE \E n \in Memories : Decay(w, n)
      <4>1. PICK n \in Memories : Decay(w, n) BY <3>2
      <4>2. pc[w] = "decay" /\ m \in todo[w] /\ m # n /\ m \in Memories
        BY <2>2, <4>1 DEF Decay, Visited
      <4>3. copy'[w][m] = copy[w][m] BY <4>1, <4>2 DEF Decay, Visited
      <4> QED BY <4>2, <4>3 DEF Decaying
    <3>3. ASSUME ~TakeList(w, "decay"), ~\E n \in Memories : Decay(w, n) PROVE FALSE
      BY <1>2, <2>2, <3>3 DEF Continue, Start, Fail, MergePairFails, Merging, TakeList,
         MergeNothing, MergeSearch, MergePair, EndJob, Review, Search, Keep, Insert,
         SupersedeOld, Write, Rewrite, Sibling, Candidate, Remember, Replace, Forget,
         Share, Edit, Call, Begin, Leave, Goto
    <3> QED BY <3>1, <3>2, <3>3
  <2>3. ASSUME NEW v \in Workers, pc'[v] = "decay", NEW m \in todo'[v]
        PROVE  copy'[v][m].st = "active"
    <3>1. CASE v = w BY <2>2, <2>3, <3>1
    <3>2. CASE v # w BY <2>1, <2>3, <3>2 DEF Decaying
    <3> QED BY <3>1, <3>2
  <2> QED BY <2>3 DEF Decaying
<1> QED BY <1>1, <1>2 DEF Next

\* A forgotten memory is only brought back by a process that had read it as an
\* active one before (dedup.go:152-175, decay.go:46-84, lifecycle_review.go:279-292,
\* candidates.go:326-366, service.go:443-448 and 562-594).
THEOREM RevivedByStaleCopy == Spec => RevivedFromCopy
<1>1. Init => Decaying BY DEF Init, Decaying
<1>2. Spec => [](TypeOK /\ AtHand /\ Decaying)
  BY TypeInit, TypeStep, <1>1, DecayingStep, PTL DEF Spec
<1> DEFINE Revived ==
      \A m \in Memories :
        mem[m].st = "retracted" /\ mem'[m].st = "active" =>
          \E w \in Workers : "active" \in {copy[w][m].st, found[w][m].st}
<1>3. TypeOK /\ AtHand /\ Decaying /\ [Next]_vars => [Revived]_vars
  <2> SUFFICES ASSUME TypeOK, AtHand, Decaying, Next,
                      NEW m \in Memories,
                      mem[m].st = "retracted", mem'[m].st = "active"
               PROVE  \E w \in Workers : "active" \in {copy[w][m].st, found[w][m].st}
    OBVIOUS
  <2>1. PICK w \in Workers : Continue(w) \/ Start(w) \/ Fail(w)
                               \/ \E b \in Memories : MergePairFails(w, b)
    BY DEF Next
  <2>2. mem[m].st # "active" OBVIOUS
  <2> QED BY <2>1, <2>2, ActiveFromCopy DEF HasActive
<1> QED BY <1>2, <1>3, PTL DEF Spec, RevivedFromCopy
=============================================================================
