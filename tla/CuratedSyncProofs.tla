------------------------- MODULE CuratedSyncProofs -------------------------
(***************************************************************************)
(* Proofs about CuratedSync: that its variables keep their types, that the *)
(* map and AMM part only where the queue says so, that no entry is dropped *)
(* silently, and that the mirror is exact when all goes well.              *)
(***************************************************************************)
EXTENDS CuratedSync, FiniteSetTheorems, TLAPS

Waiting(a) == pc[a] \in {"sent", "back"}

\* A handler that waits has a request out, about a record it holds.
Posed ==
  \A a \in Agents : Waiting(a) =>
    /\ todo[a] # <<>> /\ req[a] \in Request
    /\ req[a].call # "remember" => req[a].at \in DOMAIN held[a]

Types == TypeOK /\ Posed

-----------------------------------------------------------------------------
(* What a handler holds and asks for.                                      *)

\* Ids are those of memories, and a request is about the record it names.
Known ==
  /\ \A n \in DOMAIN map : map[n].id \in DOMAIN mems
  /\ \A a \in Agents : \A n \in DOMAIN held[a] : held[a][n].id \in DOMAIN mems
  /\ \A a \in Agents : Waiting(a) /\ req[a].call # "remember" =>
       req[a].id = held[a][req[a].at].id
  /\ \A a \in Agents : pc[a] = "back" /\ got[a] # 0 => got[a] \in DOMAIN mems
  /\ \A r \in late : r.call # "remember" => r.id \in DOMAIN mems

\* Fingerprints are of what the record says.
FpOf(m) == \A n \in DOMAIN m : m[n].fp = Fingerprint(m[n].target, m[n].entry)
Marked == FpOf(map) /\ \A a \in Agents : FpOf(held[a])

\* Without mixing one request is under way, by a handler that holds the map on
\* disk.
Single ==
  ~mixed =>
    /\ \A a, b \in Agents : Waiting(a) /\ Waiting(b) => a = b
    /\ \A a \in Agents : Waiting(a) => held[a] = map

\* A request says what the change at hand says.
Asked ==
  \A a \in Agents : Waiting(a) =>
    /\ req[a].call # "forget" =>
         req[a].entry = Head(todo[a]).entry /\ req[a].of = target[a]
    /\ req[a].call = "remember" =>
         \A n \in DOMAIN held[a] :
           held[a][n].fp # Fingerprint(target[a], req[a].entry)

\* An answer without an id is a failure, and only failures are queued.
Failures ==
  /\ \A a \in Agents : pc[a] = "back" /\ got[a] = 0 => refused \/ lost
  /\ queue # <<>> \/ spilled => refused \/ lost

Held == Known /\ Marked /\ Single /\ Asked /\ Failures

-----------------------------------------------------------------------------
(* Where the map and AMM part.                                             *)

Failing(a) == pc[a] = "back" /\ got[a] = 0

Listed(e) ==
  \/ \E n \in DOMAIN queue : queue[n].entry = e
  \/ \E a \in Agents : Failing(a) /\ Line(a).entry = e

Named(i) ==
  \/ \E n \in DOMAIN queue : queue[n].id = i
  \/ \E a \in Agents : Failing(a) /\ Line(a).id = i

\* Once answers have gone missing: the memories and entries a line is about.
Outs == {i \in Nat : lost /\ Named(i)}
Lists == {e \in Entries : lost /\ Listed(e)}

\* The memory of that name is what the record says.
Fits(r, ms) ==
  ms[r.id] = [body |-> r.entry, of |-> r.target, active |-> TRUE]

\* The map m is true of the memories ms but for those that lines are about, and,
\* if odd, but for what its records say of their memories.
TrueOf(m, ms, odd, outs, lists) ==
  /\ \A i \in DOMAIN ms : ms[i].active =>
       (\E n \in DOMAIN m : m[n].id = i) \/ i \in outs \/ ms[i].body \in lists
  /\ ~odd => \A n \in DOMAIN m : Fits(m[n], ms) \/ m[n].id \in outs
  /\ ~odd => \A n, k \in DOMAIN m :
       m[n].id = m[k].id => n = k \/ m[n].id \in outs

Told(r, outs, lists) ==
  IF r.call = "remember" THEN r.entry \in lists ELSE r.id \in outs

\* A full queue forgets; that only matters when answers have gone missing.
Sound == ~broken /\ ~mixed /\ (lost => ~spilled)

Explained ==
  Sound => /\ TrueOf(MapToBe, mems, likened, Outs, Lists)
           /\ \A r \in late : Told(r, Outs, Lists)

-----------------------------------------------------------------------------
(* Files, snapshots and what is owed.                                      *)

Snap(a) == snap[Host[a]]

\* The agent has still to compare that file with its snapshot.
Uncompared(a, t) ==
  pc[a] = "on" \/ (Handling(a) /\ target[a] = "memory" /\ t = "user")

Busy(a, t) == Handling(a) /\ target[a] = t /\ todo[a] # <<>>

Untangled ==
  ~mixed => \A a, b \in Agents :
    Host[a] = Host[b] => a = b \/ pc[a] = "off" \/ pc[b] = "off"

\* Of the agents that have still to compare a file at most one has an old
\* snapshot of it, and none while a handler has changes of the file to make.
OneBehind(t) ==
  \A a, b \in Agents :
    /\ Uncompared(a, t) /\ Uncompared(b, t) =>
         a = b \/ Snap(a)[t] = file[t] \/ Snap(b)[t] = file[t]
    /\ Busy(a, t) /\ Uncompared(b, t) => Snap(b)[t] = file[t]
    /\ Busy(a, t) /\ Busy(b, t) => a = b

\* What is owed stands in the file, or in that old snapshot.
OwedIsSeen(t) ==
  /\ owed[t] \subseteq file[t]
       \/ \E a \in Agents : Uncompared(a, t) /\ Snap(a)[t] # file[t]
  /\ \A a \in Agents :
       Uncompared(a, t) => Snap(a)[t] = file[t] \/ owed[t] \subseteq Snap(a)[t]
  /\ \A a \in Agents : Busy(a, t) => owed[t] \subseteq file[t]

\* The changes a handler has still to make are those of the file.
TodoIsRight ==
  \A a \in Agents : Handling(a) =>
    /\ now[a] = file[target[a]]
    /\ \A i \in DOMAIN todo[a] :
         IF todo[a][i].do = "remove" THEN todo[a][i].entry \notin file[target[a]]
         ELSE todo[a][i].entry \in owed[target[a]]

\* The record a request is about is one of that file, of an entry that is gone.
Aimed ==
  \A a \in Agents : Waiting(a) /\ req[a].call # "remember" =>
    LET r == held[a][req[a].at] IN
    r.target = target[a] /\ r.entry \notin file[target[a]]

\* A request is of the kind that the change at hand asks for.
Meant ==
  \A a \in Agents : Waiting(a) =>
    /\ req[a].call = "update" => Head(todo[a]).do = "replace"
    /\ req[a].call = "forget" =>
         /\ Head(todo[a]).do = "remove"
         /\ held[a][req[a].at].entry = Head(todo[a]).entry
    /\ req[a].call = "remember" => Head(todo[a]).do # "remove"

Steady == ~broken /\ ~mixed /\ ~astray

Filed ==
  /\ Untangled /\ Meant
  /\ Steady => /\ \A t \in Targets : OneBehind(t) /\ OwedIsSeen(t)
               /\ TodoIsRight /\ Aimed

\* A record, a line, or a change still to be made.
Kept(t, e) ==
  \/ \E n \in DOMAIN map : map[n].target = t /\ map[n].entry = e
  \/ \E n \in DOMAIN queue : queue[n].target = t /\ queue[n].entry = e
  \/ \E a \in Agents : Handling(a) /\ target[a] = t /\
       \E i \in DOMAIN todo[a] : todo[a][i].do # "remove" /\ todo[a][i].entry = e

Tracked ==
  Steady /\ ~spilled => \A t \in Targets : \A e \in owed[t] : Kept(t, e)

-----------------------------------------------------------------------------
(* When all goes well.                                                     *)

\* Change i of a handler takes the record away.
Takes(c, r) == c.do = "replace" \/ (c.do = "remove" /\ c.entry = r.entry)

\* Every record is of an entry that is owed, or on its way out.
RecordsOwed ==
  \A n \in DOMAIN map :
    \/ map[n].entry \in owed[map[n].target]
    \/ /\ map[n].entry \notin file[map[n].target]
       /\ \E a \in Agents : Handling(a) /\ target[a] = map[n].target /\
            \E i \in DOMAIN todo[a] : Takes(todo[a][i], map[n])

RecordsDiffer ==
  \A n, k \in DOMAIN map :
    map[n].target = map[k].target /\ map[n].entry = map[k].entry => n = k

\* What is to be added has no record yet.
AddsAreNew ==
  \A a \in Agents : Handling(a) =>
    /\ \A i \in DOMAIN todo[a] : todo[a][i].do # "remove" =>
         \A n \in DOMAIN map :
           map[n].target = target[a] => map[n].entry # todo[a][i].entry
    /\ \A i, j \in DOMAIN todo[a] :
         todo[a][i].do # "remove" /\ todo[a][j].do # "remove"
           /\ todo[a][i].entry = todo[a][j].entry => i = j

\* A replacement comes first and finds at most one record.
ReplaceIsFirst ==
  \A a \in Agents : Handling(a) => \A i \in DOMAIN todo[a] :
    todo[a][i].do = "replace" =>
      /\ i = 1
      /\ \A n, k \in Disappeared(target[a]) : n = k
      /\ Waiting(a) /\ req[a].call = "remember" => Disappeared(target[a]) = {}

Fine == Steady /\ ~refused /\ ~lost /\ ~crossed

Exact ==
  Fine => RecordsOwed /\ RecordsDiffer /\ AddsAreNew /\ ReplaceIsFirst

-----------------------------------------------------------------------------
(* The operators.                                                          *)

LEMMA PairsOf ==
  ASSUME NEW m \in Nat, NEW n \in Nat
  PROVE  /\ Min({m, n}) \in Nat
         /\ Min({m, n}) <= m /\ Min({m, n}) <= n
         /\ Min({m, n}) = m \/ Min({m, n}) = n
<1>1. PICK x \in {m, n} : \A y \in {m, n} : x <= y  OBVIOUS
<1> QED  BY <1>1 DEF Min

LEMMA ChangeIs ==
  ASSUME NEW do \in {"add", "remove", "replace"}, NEW s \in Seq(Entries)
  PROVE  /\ Change(do, s) \in Seq(Change1)
         /\ Len(Change(do, s)) = Len(s)
         /\ \A i \in 1..Len(s) : Change(do, s)[i] = [do |-> do, entry |-> s[i]]
<1>1. DOMAIN s = 1..Len(s) /\ Len(s) \in Nat /\ \A i \in 1..Len(s) : s[i] \in Entries
  OBVIOUS
<1>2. Change(do, s) = [i \in 1..Len(s) |-> [do |-> do, entry |-> s[i]]]
  BY <1>1 DEF Change
<1>3. \A i \in 1..Len(s) : [do |-> do, entry |-> s[i]] \in Change1
  BY <1>1 DEF Change1
<1> QED  BY <1>1, <1>2, <1>3

\* The lists of a finite set name each of its members once.
LEMMA ListIs ==
  ASSUME NEW S, IsFiniteSet(S), NEW s \in SetToSeqs(S)
  PROVE  /\ s \in Seq(S)
         /\ Len(s) = Cardinality(S)
         /\ \A i, j \in 1..Len(s) : s[i] = s[j] => i = j
         /\ \A x \in S : \E i \in 1..Len(s) : s[i] = x
<1> DEFINE n == Cardinality(S)
<1>1. n \in Nat  BY FS_CardinalityType
<1>2. s \in [1..n -> S] /\ \A i, j \in 1..n : i # j => s[i] # s[j]
  BY DEF SetToSeqs
<1>3. IsFiniteSet(1..n) /\ Cardinality(1..n) = n
  BY <1>1, FS_Interval
<1>4. s \in Injection(1..n, S)
  BY <1>2 DEF Injection, IsInjective
<1>5. s \in Surjection(1..n, S)
  BY <1>3, <1>4, FS_Injection
<1>6. \A x \in S : \E i \in 1..n : s[i] = x
  BY <1>5 DEF Surjection
<1>7. s \in Seq(S) /\ Len(s) = n
  BY <1>1, <1>2
<1> QED  BY <1>2, <1>6, <1>7

LEMMA JoinIs ==
  ASSUME NEW S, NEW s \in Seq(S), NEW t \in Seq(S)
  PROVE  /\ s \o t \in Seq(S) /\ Len(s \o t) = Len(s) + Len(t)
         /\ \A i \in 1..Len(s) : (s \o t)[i] = s[i]
         /\ \A i \in 1..Len(t) : (s \o t)[Len(s) + i] = t[i]
OBVIOUS

\* What stands where in a plan.
LEMMA PlanIs ==
  ASSUME NEW gone \in Seq(Entries), NEW fresh \in Seq(Entries)
  PROVE  /\ Plan(gone, fresh) \in Seq(Change1)
         /\ \E p \in Nat :
              /\ p <= Len(gone) /\ p <= Len(fresh) /\ (p = Len(gone) \/ p = Len(fresh))
              /\ Len(Plan(gone, fresh)) = Len(gone) + (Len(fresh) - p)
              /\ \A i \in 1..p : Plan(gone, fresh)[i] = [do |-> "replace", entry |-> fresh[i]]
              /\ \A i \in (p + 1)..Len(gone) :
                   Plan(gone, fresh)[i] = [do |-> "remove", entry |-> gone[i]]
              /\ \A i \in (p + 1)..Len(fresh) :
                   Plan(gone, fresh)[(Len(gone) - p) + i] = [do |-> "add", entry |-> fresh[i]]
<1> DEFINE m == Len(gone)
           n == Len(fresh)
           p == Min({m, n})
           X == SubSeq(fresh, 1, p)
           Y == SubSeq(gone, p + 1, m)
           Z == SubSeq(fresh, p + 1, n)
           A == Change("replace", X)
           B == Change("remove", Y)
           C == Change("add", Z)
<1>1. m \in Nat /\ n \in Nat  OBVIOUS
<1>2. p \in Nat /\ p <= m /\ p <= n /\ (p = m \/ p = n)
  BY <1>1, PairsOf
<1> HIDE DEF p
<1>3. X \in Seq(Entries) /\ Len(X) = p /\ \A i \in 1..p : X[i] = fresh[i]
  BY <1>1, <1>2
<1>4. /\ Y \in Seq(Entries) /\ Len(Y) = m - p
      /\ \A i \in 1..(m - p) : Y[i] = gone[i + p]
  BY <1>1, <1>2
<1>5. /\ Z \in Seq(Entries) /\ Len(Z) = n - p
      /\ \A i \in 1..(n - p) : Z[i] = fresh[i + p]
  BY <1>1, <1>2
<1>6. Plan(gone, fresh) = (A \o B) \o C
  BY DEF Plan, p
<1> HIDE DEF X, Y, Z
<1>7. /\ A \in Seq(Change1) /\ Len(A) = p
      /\ \A i \in 1..p : A[i] = [do |-> "replace", entry |-> fresh[i]]
  BY <1>3, ChangeIs
<1>8. /\ B \in Seq(Change1) /\ Len(B) = m - p
      /\ \A i \in 1..(m - p) : B[i] = [do |-> "remove", entry |-> gone[i + p]]
  BY <1>4, ChangeIs
<1>9. /\ C \in Seq(Change1) /\ Len(C) = n - p
      /\ \A i \in 1..(n - p) : C[i] = [do |-> "add", entry |-> fresh[i + p]]
  BY <1>5, ChangeIs
<1> HIDE DEF A, B, C, m, n
<1> DEFINE D == A \o B
           E == D \o C
<1>10. /\ D \in Seq(Change1) /\ Len(D) = m
       /\ \A i \in 1..p : D[i] = A[i]
       /\ \A i \in (p + 1)..m : D[i] = B[i - p]
  <2>1. /\ D \in Seq(Change1) /\ Len(D) = p + (m - p)
        /\ \A i \in 1..p : D[i] = A[i]
        /\ \A i \in 1..(m - p) : D[p + i] = B[i]
    <3>1. /\ D \in Seq(Change1) /\ Len(D) = Len(A) + Len(B)
          /\ \A i \in 1..Len(A) : D[i] = A[i]
          /\ \A i \in 1..Len(B) : D[Len(A) + i] = B[i]
      <4>1. A \in Seq(Change1) /\ B \in Seq(Change1)  BY <1>7, <1>8
      <4> QED  BY ONLY <4>1, JoinIs DEF D
    <3> HIDE DEF D
    <3> QED  BY <1>7, <1>8, <3>1
  <2>2. ASSUME NEW i \in (p + 1)..m  PROVE D[i] = B[i - p]
    <3>1. i - p \in 1..(m - p) /\ p + (i - p) = i  BY <1>1, <1>2
    <3> HIDE DEF D
    <3> QED  BY <2>1, <3>1
  <2>3. p + (m - p) = m  BY <1>1, <1>2
  <2> HIDE DEF D
  <2> QED  BY <2>1, <2>2, <2>3
<1> HIDE DEF D
<1>11. /\ E \in Seq(Change1) /\ Len(E) = m + (n - p)
       /\ \A i \in 1..m : E[i] = D[i]
       /\ \A i \in (p + 1)..n : E[(m - p) + i] = C[i - p]
  <2>1. /\ E \in Seq(Change1) /\ Len(E) = m + (n - p)
        /\ \A i \in 1..m : E[i] = D[i]
        /\ \A i \in 1..(n - p) : E[m + i] = C[i]
    <3>1. /\ E \in Seq(Change1) /\ Len(E) = Len(D) + Len(C)
          /\ \A i \in 1..Len(D) : E[i] = D[i]
          /\ \A i \in 1..Len(C) : E[Len(D) + i] = C[i]
      <4>1. D \in Seq(Change1) /\ C \in Seq(Change1)  BY <1>9, <1>10
      <4> QED  BY ONLY <4>1, JoinIs DEF E
    <3> HIDE DEF E
    <3> QED  BY <1>9, <1>10, <3>1
  <2>2. ASSUME NEW i \in (p + 1)..n  PROVE E[(m - p) + i] = C[i - p]
    <3>1. i - p \in 1..(n - p) /\ m + (i - p) = (m - p) + i  BY <1>1, <1>2
    <3> HIDE DEF E
    <3> QED  BY <2>1, <3>1
  <2> HIDE DEF E
  <2> QED  BY <2>1, <2>2
<1>12. Plan(gone, fresh) = E  BY <1>6 DEF D
<1> HIDE DEF E
<1>13. \A i \in 1..p : E[i] = [do |-> "replace", entry |-> fresh[i]]
  BY <1>1, <1>2, <1>7, <1>10, <1>11
<1>14. ASSUME NEW i \in (p + 1)..m
       PROVE  E[i] = [do |-> "remove", entry |-> gone[i]]
  <2>1. E[i] = B[i - p]
    BY <1>1, <1>2, <1>10, <1>11
  <2>2. i - p \in 1..(m - p) /\ (i - p) + p = i
    BY <1>1, <1>2
  <2> QED  BY <1>8, <2>1, <2>2
<1>15. ASSUME NEW i \in (p + 1)..n
       PROVE  E[(m - p) + i] = [do |-> "add", entry |-> fresh[i]]
  <2>1. E[(m - p) + i] = C[i - p]
    BY <1>1, <1>2, <1>11
  <2>2. i - p \in 1..(n - p) /\ (i - p) + p = i
    BY <1>1, <1>2
  <2> QED  BY <1>9, <2>1, <2>2
<1> QED  BY <1>2, <1>11, <1>12, <1>13, <1>14, <1>15 DEF m, n

\* A sequence without one of its places.
LEMMA RemovedIs ==
  ASSUME NEW S, NEW s \in Seq(S), NEW at \in DOMAIN s
  PROVE  /\ RemoveAt(s, at) \in Seq(S)
         /\ Len(RemoveAt(s, at)) = Len(s) - 1
         /\ \A i \in 1..(Len(s) - 1) :
              RemoveAt(s, at)[i] = IF i < at THEN s[i] ELSE s[i + 1]
<1> DEFINE A == SubSeq(s, 1, at - 1)
           B == SubSeq(s, at + 1, Len(s))
<1>1. at \in 1..Len(s) /\ Len(s) \in Nat  OBVIOUS
<1>2. A \in Seq(S) /\ Len(A) = at - 1 /\ \A i \in 1..(at - 1) : A[i] = s[i]
  BY <1>1
<1>3. /\ B \in Seq(S) /\ Len(B) = Len(s) - at
      /\ \A i \in 1..(Len(s) - at) : B[i] = s[i + at]
  BY <1>1
<1>4. RemoveAt(s, at) = A \o B  BY DEF RemoveAt
<1> HIDE DEF A, B
<1>5. A \o B \in Seq(S) /\ Len(A \o B) = Len(s) - 1
  BY <1>1, <1>2, <1>3
<1>6. ASSUME NEW i \in 1..(Len(s) - 1)
      PROVE  (A \o B)[i] = IF i < at THEN s[i] ELSE s[i + 1]
  <2>1. CASE i < at
    BY <1>1, <1>2, <1>3, <2>1
  <2>2. CASE ~(i < at)
    <3>1. (A \o B)[i] = B[i - (at - 1)]
      BY <1>1, <1>2, <1>3, <2>2
    <3>2. i - (at - 1) \in 1..(Len(s) - at) /\ (i - (at - 1)) + at = i + 1
      BY <1>1, <2>2
    <3> QED  BY <1>3, <2>2, <3>1, <3>2
  <2> QED  BY <2>1, <2>2
<1> QED  BY <1>4, <1>5, <1>6

\* What has been removed is that place alone.
LEMMA Remains ==
  ASSUME NEW S, NEW s \in Seq(S), NEW at \in DOMAIN s
  PROVE  /\ \A i \in DOMAIN RemoveAt(s, at) :
              \E k \in DOMAIN s : k # at /\ RemoveAt(s, at)[i] = s[k]
         /\ \A k \in DOMAIN s \ {at} :
              \E i \in DOMAIN RemoveAt(s, at) : RemoveAt(s, at)[i] = s[k]
         /\ \A i, j \in DOMAIN RemoveAt(s, at) : i # j =>
              \E k, l \in DOMAIN s \ {at} :
                k # l /\ RemoveAt(s, at)[i] = s[k] /\ RemoveAt(s, at)[j] = s[l]
<1> DEFINE r == RemoveAt(s, at)
<1>1. at \in 1..Len(s) /\ Len(s) \in Nat /\ DOMAIN s = 1..Len(s)  OBVIOUS
<1>2. /\ r \in Seq(S) /\ Len(r) = Len(s) - 1
      /\ \A i \in 1..(Len(s) - 1) : r[i] = IF i < at THEN s[i] ELSE s[i + 1]
  BY RemovedIs
<1> HIDE DEF r
<1>3. DOMAIN r = 1..(Len(s) - 1)  BY <1>1, <1>2
<1> DEFINE from(i) == IF i < at THEN i ELSE i + 1
<1>4. ASSUME NEW i \in DOMAIN r
      PROVE  from(i) \in DOMAIN s \ {at} /\ r[i] = s[from(i)]
  <2>1. CASE i < at  BY <1>1, <1>2, <1>3, <2>1
  <2>2. CASE ~(i < at)  BY <1>1, <1>2, <1>3, <2>2
  <2> QED  BY <2>1, <2>2
<1>6. ASSUME NEW i \in DOMAIN r, NEW j \in DOMAIN r, i # j
      PROVE  from(i) # from(j)
  BY <1>1, <1>3, <1>6
<1> HIDE DEF from
<1>5. ASSUME NEW k \in DOMAIN s \ {at}  PROVE \E i \in DOMAIN r : r[i] = s[k]
  <2>1. CASE k < at
    <3>1. k \in DOMAIN r /\ r[k] = s[k]  BY <1>1, <1>2, <1>3, <2>1
    <3> QED  BY <3>1
  <2>2. CASE ~(k < at)
    <3>1. k - 1 \in DOMAIN r /\ ~(k - 1 < at) /\ (k - 1) + 1 = k
      BY <1>1, <1>3, <2>2
    <3> QED  BY <1>2, <1>3, <3>1
  <2> QED  BY <2>1, <2>2
<1> QED  BY <1>4, <1>5, <1>6 DEF r

\* A place of a sequence is overwritten.
LEMMA OverwrittenIs ==
  ASSUME NEW S, NEW s \in Seq(S), NEW at, NEW v, at \in DOMAIN s => v \in S
  PROVE  [s EXCEPT ![at] = v] \in Seq(S) /\ DOMAIN [s EXCEPT ![at] = v] = DOMAIN s
<1>1. s \in [1..Len(s) -> S] /\ Len(s) \in Nat  OBVIOUS
<1>2. [s EXCEPT ![at] = v] \in [1..Len(s) -> S]  BY <1>1
<1> QED  BY <1>1, <1>2

\* The one record found is one of those looked for.
LEMMA TheIsFound ==
  ASSUME NEW S, Cardinality(S) = 1, IsFiniteSet(S)
  PROVE  The(S) \in S /\ \A x, y \in S : x = y
<1>1. PICK x : S = {x}  BY FS_Singleton
<1> QED  BY <1>1 DEF The

-----------------------------------------------------------------------------
(* Types.                                                                  *)

QueueLine == [entry : Entries, target : Targets, id : Nat,
              do : {"add", "remove", "replace"}]
Memory == [body : Entries, of : Targets, active : BOOLEAN]

LEMMA RecordTyped ==
  ASSUME NEW t \in Targets, NEW e \in Entries, NEW id \in Id
  PROVE  Record(t, e, id) \in SyncRecord
<1>1. CuratedScope(Conf, t) \in Scopes
  BY DEF CuratedScope, Scopes
<1>2. EffectiveProjectId(Conf, t) \in {"", CuratedProjectId(Conf)}
  BY DEF EffectiveProjectId
<1> QED  BY <1>1, <1>2 DEF Record, SyncRecord, Fingerprint

LEMMA RequestKinds ==
  ASSUME NEW r \in Request
  PROVE  \/ r.call = "remember" /\ r.entry \in Entries /\ r.of \in Targets
         \/ /\ r.call = "update" /\ r.entry \in Entries /\ r.of \in Targets
            /\ r.id \in Id /\ r.at \in Id
         \/ r.call = "forget" /\ r.id \in Id /\ r.at \in Id
BY DEF Request

\* A request leaves the memories in their type and drops none.
LEMMA PerformTyped ==
  ASSUME mems \in Seq(Memory), likened \in BOOLEAN,
         NEW r \in Request, NEW id \in Ids, Perform(r, id)
  PROVE  /\ mems' \in Seq(Memory)
         /\ DOMAIN mems \subseteq DOMAIN mems'
         /\ id \in Id
         /\ likened' \in BOOLEAN
<1>1. Len(mems) \in Nat /\ DOMAIN mems = 1..Len(mems) /\ id \in Id
  BY DEF Ids, Id
<1>2. likened' \in BOOLEAN
  BY RequestKinds DEF Perform, Remembers, Updates, Forgets
<1>3. CASE r.call = "remember"
  <2>1. Remembers(r, id)  BY <1>3 DEF Perform
  <2>2. CASE UNCHANGED mems  BY <1>1, <1>2, <2>2
  <2>3. CASE mems' = Append(mems, [body |-> r.entry, of |-> r.of, active |-> TRUE])
    <3>1. [body |-> r.entry, of |-> r.of, active |-> TRUE] \in Memory
      BY <1>3, RequestKinds DEF Memory
    <3> QED  BY <1>1, <1>2, <2>3, <3>1
  <2> QED  BY <2>1, <2>2, <2>3 DEF Remembers
<1>4. CASE r.call = "update"
  <2>1. mems' = [mems EXCEPT ![id] = [body |-> r.entry, of |-> r.of, active |-> TRUE]]
    BY <1>4 DEF Perform, Updates
  <2>2. [body |-> r.entry, of |-> r.of, active |-> TRUE] \in Memory
    BY <1>4, RequestKinds DEF Memory
  <2> QED  BY <1>1, <1>2, <2>1, <2>2, OverwrittenIs
<1>5. CASE r.call = "forget"
  <2>1. mems' = [mems EXCEPT ![id] = [mems[id] EXCEPT !.active = FALSE]]
    BY <1>5 DEF Perform, Forgets
  <2>2. ASSUME id \in DOMAIN mems  PROVE [mems[id] EXCEPT !.active = FALSE] \in Memory
    <3>1. mems[id] \in Memory  BY <1>1, <2>2
    <3> QED  BY <3>1 DEF Memory
  <2> QED  BY <1>1, <1>2, <2>1, <2>2, OverwrittenIs
<1> QED  BY <1>3, <1>4, <1>5, RequestKinds

LEMMA NewMapTyped ==
  ASSUME TypeOK, Posed, NEW a \in Agents, pc[a] = "back", got[a] # 0
  PROVE  NewMap(a) \in Seq(SyncRecord)
<1>1. /\ held[a] \in Seq(SyncRecord) /\ target[a] \in Targets /\ got[a] \in Id
      /\ req[a] \in Request
      /\ req[a].call # "remember" => req[a].at \in DOMAIN held[a]
  BY DEF TypeOK, Posed, Waiting, Id
<1>2. CASE req[a].call = "remember"
  <2>1. Record(target[a], req[a].entry, got[a]) \in SyncRecord
    BY <1>1, <1>2, RecordTyped, RequestKinds
  <2> QED  BY <1>1, <1>2, <2>1 DEF NewMap
<1>3. CASE req[a].call = "update"
  <2>1. Record(target[a], req[a].entry, got[a]) \in SyncRecord
    BY <1>1, <1>3, RecordTyped, RequestKinds
  <2>2. NewMap(a) = [held[a] EXCEPT ![req[a].at] = Record(target[a], req[a].entry, got[a])]
    BY <1>3 DEF NewMap
  <2> QED  BY <1>1, <1>3, <2>1, <2>2
<1>4. CASE req[a].call = "forget"
  <2>1. NewMap(a) = RemoveAt(held[a], req[a].at)
    BY <1>4 DEF NewMap
  <2> QED  BY <1>1, <1>4, <2>1, RemovedIs
<1> QED  BY <1>1, <1>2, <1>3, <1>4, RequestKinds

LEMMA LineTyped ==
  ASSUME TypeOK, Posed, NEW a \in Agents, pc[a] = "back"
  PROVE  /\ Line(a) \in QueueLine
         /\ Head(todo[a]) \in Change1 /\ Tail(todo[a]) \in Seq(Change1)
         /\ Line(a).entry = Head(todo[a]).entry /\ Line(a).target = target[a]
         /\ req[a].call # "remember" => Line(a).id = req[a].id
<1>1. /\ todo[a] \in Seq(Change1) /\ todo[a] # <<>> /\ target[a] \in Targets
      /\ req[a] \in Request
  BY DEF TypeOK, Posed, Waiting
<1>2. Head(todo[a]) \in Change1 /\ Tail(todo[a]) \in Seq(Change1)
  BY <1>1
<1>3. Head(todo[a]).entry \in Entries  BY <1>2 DEF Change1
<1>4. (IF req[a].call = "remember" THEN 0 ELSE req[a].id) \in Nat
  BY <1>1, RequestKinds DEF Id
<1>5. (CASE req[a].call = "remember" -> "add"
         [] req[a].call = "update" -> "replace"
         [] req[a].call = "forget" -> "remove") \in {"add", "remove", "replace"}
  BY <1>1, RequestKinds
<1> QED  BY <1>1, <1>2, <1>3, <1>4, <1>5 DEF Line, QueueLine

LEMMA QueuedTyped ==
  ASSUME queue \in Seq(QueueLine), Len(queue) <= QueueLimit, NEW line \in QueueLine
  PROVE  /\ Queued(line) \in Seq(QueueLine)
         /\ Len(Queued(line)) <= QueueLimit
         /\ Queued(line) # <<>>
         /\ ~(Len(queue) >= QueueLimit) => Queued(line) = Append(queue, line)
<1> DEFINE lines == Append(queue, line)
           n == Len(lines)
<1>1. lines \in Seq(QueueLine) /\ n = Len(queue) + 1 /\ Len(queue) \in Nat
  OBVIOUS
<1>2. QueueLimit \in Nat \ {0}  BY ConstantsAssumption
<1>3. Queued(line) = IF n > QueueLimit THEN SubSeq(lines, n - QueueLimit + 1, n) ELSE lines
  BY DEF Queued
<1> HIDE DEF lines
<1>4. CASE n > QueueLimit
  <2>1. n = QueueLimit + 1  BY <1>1, <1>2, <1>4
  <2>2. n - QueueLimit + 1 = 2  BY <1>1, <1>2, <2>1
  <2>3. Queued(line) = SubSeq(lines, 2, n)  BY <1>3, <1>4, <2>2
  <2>4. SubSeq(lines, 2, n) \in Seq(QueueLine) /\ Len(SubSeq(lines, 2, n)) = n - 1
    BY <1>1, <1>2, <2>1
  <2> QED  BY <1>1, <1>2, <2>1, <2>3, <2>4
<1>5. CASE ~(n > QueueLimit)
  <2>1. Queued(line) = lines  BY <1>3, <1>5
  <2>2. Len(lines) <= QueueLimit /\ lines # <<>>  BY <1>1, <1>2, <1>5
  <2> QED  BY <1>1, <2>1, <2>2 DEF lines
<1> QED  BY <1>4, <1>5

\* The records of an entry, or of entries that are gone, are finitely many.
LEMMA FoundIsFinite ==
  ASSUME map \in Seq(SyncRecord), NEW S \in SUBSET DOMAIN map
  PROVE  IsFiniteSet(S)
<1>1. DOMAIN map = 1..Len(map) /\ Len(map) \in Nat  OBVIOUS
<1>2. IsFiniteSet(DOMAIN map)  BY <1>1, FS_Interval
<1> QED  BY <1>2, FS_Subset

\* What a comparison plans.
LEMMA CompareTyped ==
  ASSUME TypeOK, NEW a \in Agents, NEW t \in Targets, Compare(a, t)
  PROVE  /\ target' \in [Agents -> Targets]
         /\ now' \in [Agents -> SUBSET Entries]
         /\ todo' \in [Agents -> Seq(Change1)]
         /\ owed' \in [Targets -> SUBSET Entries]
         /\ crossed' \in BOOLEAN
         /\ \A b \in Agents \ {a} : target'[b] = target[b] /\ todo'[b] = todo[b]
<1> DEFINE removed == snap[Host[a]][t] \ file[t]
           added == file[t] \ snap[Host[a]][t]
<1>1. Host[a] \in Processes  BY ConstantsAssumption
<1>2. removed \subseteq Entries /\ added \subseteq Entries
  BY <1>1 DEF TypeOK
<1>3. IsFiniteSet(removed) /\ IsFiniteSet(added)
  BY <1>2, ConstantsAssumption, FS_Subset
<1> HIDE DEF removed, added
<1>4. PICK gone \in SetToSeqs(removed), fresh \in SetToSeqs(added) :
        todo' = [todo EXCEPT ![a] = Plan(gone, fresh)]
  BY DEF Compare, removed, added
<1>5. gone \in Seq(removed) /\ fresh \in Seq(added)
  BY <1>3, ListIs
<1>6. gone \in Seq(Entries) /\ fresh \in Seq(Entries)
  BY <1>2, <1>5
<1>7. Plan(gone, fresh) \in Seq(Change1)
  BY <1>6, PlanIs
<1>8. todo' \in [Agents -> Seq(Change1)] /\ \A b \in Agents \ {a} : todo'[b] = todo[b]
  BY <1>4, <1>7 DEF TypeOK
<1>9. /\ target' = [target EXCEPT ![a] = t]
      /\ now' = [now EXCEPT ![a] = file[t]]
      /\ owed' = [owed EXCEPT ![t] = (owed[t] \cup added) \ removed]
      /\ crossed' = (crossed \/ (Cardinality(removed) > 1 /\ added # {}))
  BY DEF Compare, removed, added, TypeOK
<1>10. crossed' \in BOOLEAN  BY <1>9
<1> QED  BY <1>2, <1>8, <1>9, <1>10 DEF TypeOK

LEMMA TypesInit == Init => Types
<1> SUFFICES ASSUME Init PROVE Types  OBVIOUS
<1>1. TypeOK
  <2>1. /\ Len(<<>>) = 0 /\ map \in Seq(SyncRecord) /\ mems \in Seq(Memory)
        /\ queue \in Seq(QueueLine) /\ queue = <<>>
    BY DEF Init
  <2>2. Len(queue) <= QueueLimit  BY <2>1, ConstantsAssumption
  <2>3. todo \in [Agents -> Seq(Change1)] /\ held \in [Agents -> Seq(SyncRecord)]
    BY DEF Init
  <2>4. /\ file \in [Targets -> SUBSET Entries]
        /\ snap \in [Processes -> [Targets -> SUBSET Entries]]
        /\ owed \in [Targets -> SUBSET Entries]
        /\ target \in [Agents -> Targets]
    BY ConstantsAssumption DEF Init, Blank, Targets
  <2> QED  BY <2>1, <2>2, <2>3, <2>4 DEF Init, TypeOK, QueueLine, Memory
<1>2. Posed  BY DEF Init, Posed, Waiting
<1> QED  BY <1>1, <1>2 DEF Types

LEMMA TypesEdit ==
  ASSUME Types, NEW t \in Targets, NEW entries \in SUBSET MayHold[t], Edit(t, entries)
  PROVE  Types'
<1>1. entries \subseteq Entries  BY ConstantsAssumption
<1>2. astray' \in BOOLEAN  BY DEF Edit, Types, TypeOK
<1>3. TypeOK'
  BY <1>1, <1>2 DEF Edit, handler, Types, TypeOK
<1>4. Posed'  BY DEF Edit, handler, Types, Posed, Waiting
<1> QED  BY <1>3, <1>4 DEF Types

LEMMA TypesStart ==
  ASSUME Types, NEW a \in Agents, BeforeAgentStart(a)
  PROVE  Types'
<1>1. Host[a] \in Processes  BY ConstantsAssumption
<1>2. mixed' \in BOOLEAN  BY DEF BeforeAgentStart, Types, TypeOK
<1>3. TypeOK'
  BY <1>1, <1>2 DEF BeforeAgentStart, disk, Types, TypeOK
<1>4. Posed'
  BY DEF BeforeAgentStart, disk, Types, Posed, Waiting, TypeOK
<1> QED  BY <1>3, <1>4 DEF Types

LEMMA TypesEnd ==
  ASSUME Types, NEW a \in Agents, AgentEnd(a)
  PROVE  Types'
<1>1. "memory" \in Targets  BY DEF Targets
<1>2. Compare(a, "memory") /\ TypeOK  BY DEF AgentEnd, Types
<1>3. /\ target' \in [Agents -> Targets]
      /\ now' \in [Agents -> SUBSET Entries]
      /\ todo' \in [Agents -> Seq(Change1)]
      /\ owed' \in [Targets -> SUBSET Entries]
      /\ crossed' \in BOOLEAN
      /\ \A b \in Agents \ {a} : target'[b] = target[b] /\ todo'[b] = todo[b]
  BY <1>1, <1>2, CompareTyped
<1>4. TypeOK'
  BY <1>3 DEF AgentEnd, disk, budget, Types, TypeOK
<1>5. Posed'
  BY <1>3 DEF AgentEnd, disk, budget, Types, Posed, Waiting, TypeOK
<1> QED  BY <1>4, <1>5 DEF Types

LEMMA TypesNextFile ==
  ASSUME Types, NEW a \in Agents, NextFile(a)
  PROVE  Types'
<1>1. "memory" \in Targets /\ "user" \in Targets  BY DEF Targets
<1>2. Host[a] \in Processes  BY ConstantsAssumption
<1>3. snap' \in [Processes -> [Targets -> SUBSET Entries]]
  <2>1. target[a] \in Targets /\ now[a] \in SUBSET Entries
    BY DEF Types, TypeOK
  <2>2. snap' = [snap EXCEPT ![Host[a]] = [snap[Host[a]] EXCEPT ![target[a]] = now[a]]]
    BY DEF NextFile
  <2> QED  BY <1>2, <2>1, <2>2 DEF Types, TypeOK
<1>4. /\ target' \in [Agents -> Targets]
      /\ now' \in [Agents -> SUBSET Entries]
      /\ todo' \in [Agents -> Seq(Change1)]
      /\ owed' \in [Targets -> SUBSET Entries]
      /\ crossed' \in BOOLEAN
      /\ pc' \in [Agents -> {"off", "on", "pick", "sent", "back"}]
      /\ \A b \in Agents \ {a} : target'[b] = target[b] /\ todo'[b] = todo[b]
      /\ ~(pc'[a] \in {"sent", "back"}) /\ \A b \in Agents \ {a} : pc'[b] = pc[b]
  <2>1. CASE target[a] = "memory"
    <3>1. Compare(a, "user") /\ UNCHANGED pc /\ TypeOK
      BY <2>1 DEF NextFile, Types
    <3> QED  BY <1>1, <3>1, CompareTyped DEF NextFile, TypeOK
  <2>2. CASE target[a] # "memory"
    BY <1>1, <2>2 DEF NextFile, Types, TypeOK
  <2> QED  BY <2>1, <2>2
<1>5. TypeOK'
  BY <1>3, <1>4 DEF NextFile, disk, budget, Types, TypeOK
<1>6. Posed'
  BY <1>4 DEF NextFile, disk, budget, Types, Posed, Waiting, TypeOK
<1> QED  BY <1>5, <1>6 DEF Types

\* A request that is sent is typed, and about a record the handler holds.
LEMMA TypesSend ==
  ASSUME Types, NEW a \in Agents, todo[a] # <<>>, NEW r \in Request,
         r.call # "remember" => r.at \in DOMAIN map, Send(a, r), Otherwise
  PROVE  Types'
<1>1. mixed' \in BOOLEAN  BY DEF Send, Types, TypeOK
<1>2. TypeOK'
  BY <1>1 DEF Send, Otherwise, disk, budget, Types, TypeOK
<1>3. Posed'
  BY DEF Send, Otherwise, disk, Types, Posed, Waiting, TypeOK
<1> QED  BY <1>2, <1>3 DEF Types

LEMMA TypesSkip ==
  ASSUME Types, NEW a \in Agents, pc[a] = "pick", todo[a] # <<>>, Skip(a), Otherwise
  PROVE  Types'
<1>1. todo[a] \in Seq(Change1) /\ todo[a] # <<>>  BY DEF Types, TypeOK
<1>2. Tail(todo[a]) \in Seq(Change1)  BY <1>1
<1>3. todo' \in [Agents -> Seq(Change1)]  BY <1>2 DEF Skip, Types, TypeOK
<1>4. TypeOK'
  BY <1>3 DEF Skip, Otherwise, disk, budget, Types, TypeOK
<1>5. Posed'
  BY DEF Skip, Otherwise, disk, Types, Posed, Waiting, TypeOK
<1> QED  BY <1>4, <1>5 DEF Types

\* The three requests of a handler.
LEMMA AddRequest ==
  ASSUME Types, NEW a \in Agents, todo[a] # <<>>
  PROVE  [call |-> "remember", entry |-> Head(todo[a]).entry,
          of |-> target[a]] \in Request
<1>1. Head(todo[a]) \in Change1 /\ target[a] \in Targets
  BY DEF Types, TypeOK
<1> QED  BY <1>1 DEF Request, Change1

LEMMA FoundRequest ==
  ASSUME Types, NEW a \in Agents, todo[a] # <<>>,
         NEW S \in SUBSET DOMAIN map, Cardinality(S) = 1
  PROVE  /\ The(S) \in S
         /\ [call |-> "forget", id |-> map[The(S)].id, at |-> The(S)] \in Request
         /\ [call |-> "update", id |-> map[The(S)].id, at |-> The(S),
             entry |-> Head(todo[a]).entry, of |-> target[a]] \in Request
<1>1. Head(todo[a]) \in Change1 /\ target[a] \in Targets /\ map \in Seq(SyncRecord)
  BY DEF Types, TypeOK
<1>2. The(S) \in S  BY <1>1, FoundIsFinite, TheIsFound
<1>3. The(S) \in Id  BY <1>1, <1>2 DEF Id
<1>4. map[The(S)] \in SyncRecord  BY <1>1, <1>2
<1>5. map[The(S)].id \in Id  BY <1>4 DEF SyncRecord
<1> QED  BY <1>1, <1>2, <1>3, <1>5 DEF Request, Change1

\* What a change at hand leads to: nothing, or one of three requests.
LEMMA SyncCases ==
  ASSUME Types, NEW a \in Agents, SyncAdd(a) \/ SyncRemove(a) \/ SyncReplace(a)
  PROVE  /\ pc[a] = "pick" /\ todo[a] # <<>> /\ Otherwise
         /\ \/ /\ Skip(a)
               /\ \/ /\ Head(todo[a]).do # "remove"
                     /\ Recorded(target[a], Head(todo[a]).entry)
                  \/ /\ Head(todo[a]).do = "remove"
                     /\ Cardinality(Matches(target[a], Head(todo[a]).entry)) # 1
            \/ \E r \in Request :
                 /\ Send(a, r)
                 /\ \/ /\ r.call = "remember" /\ Head(todo[a]).do # "remove"
                       /\ r.entry = Head(todo[a]).entry
                       /\ r.of = target[a]
                       /\ \A n \in DOMAIN map :
                            map[n].fp # Fingerprint(target[a], r.entry)
                       /\ Head(todo[a]).do = "replace" =>
                            Cardinality(Disappeared(target[a])) # 1
                    \/ /\ r.call = "update" /\ Head(todo[a]).do = "replace"
                       /\ r.entry = Head(todo[a]).entry
                       /\ r.of = target[a]
                       /\ r.at \in Disappeared(target[a]) /\ r.id = map[r.at].id
                    \/ /\ r.call = "forget" /\ Head(todo[a]).do = "remove"
                       /\ r.at \in Matches(target[a], Head(todo[a]).entry)
                       /\ r.id = map[r.at].id
<1>1. pc[a] = "pick" /\ todo[a] # <<>> /\ Otherwise
  BY DEF SyncAdd, SyncRemove, SyncReplace, AtHand
<1> DEFINE M == Matches(target[a], Head(todo[a]).entry)
           D == Disappeared(target[a])
           m == [call |-> "remember", entry |-> Head(todo[a]).entry,
                 of |-> target[a]]
           f == [call |-> "forget", id |-> map[The(M)].id, at |-> The(M)]
           u == [call |-> "update", id |-> map[The(D)].id, at |-> The(D),
                 entry |-> Head(todo[a]).entry, of |-> target[a]]
<1>2. M \subseteq DOMAIN map /\ D \subseteq DOMAIN map
  BY DEF Matches, Disappeared
<1>3. m \in Request  BY <1>1, AddRequest
<1>4. ASSUME Add(a)
      PROVE  \/ Skip(a) /\ Recorded(target[a], Head(todo[a]).entry)
             \/ /\ Send(a, m)
                /\ \A n \in DOMAIN map : map[n].fp # Fingerprint(target[a], m.entry)
  BY <1>4 DEF Add, Recorded
<1>5. CASE SyncAdd(a)
  <2>1. Add(a) /\ Head(todo[a]).do = "add"  BY <1>5 DEF SyncAdd, AtHand
  <2> QED  BY <1>1, <1>3, <1>4, <2>1
<1>6. CASE SyncRemove(a)
  <2>1. Head(todo[a]).do = "remove"  BY <1>6 DEF SyncRemove, AtHand
  <2>2. CASE Cardinality(M) # 1
    <3>1. Skip(a)  BY <1>6, <2>2 DEF SyncRemove
    <3> QED  BY <1>1, <2>1, <2>2, <3>1
  <2>3. CASE Cardinality(M) = 1
    <3>1. Send(a, f)  BY <1>6, <2>3 DEF SyncRemove
    <3>2. The(M) \in M /\ f \in Request  BY <1>1, <1>2, <2>3, FoundRequest
    <3>3. f.call = "forget" /\ f.at = The(M) /\ f.id = map[f.at].id  OBVIOUS
    <3> HIDE DEF f, M
    <3> QED  BY <1>1, <2>1, <3>1, <3>2, <3>3 DEF M
  <2> QED  BY <2>2, <2>3
<1>7. CASE SyncReplace(a)
  <2>1. Head(todo[a]).do = "replace"  BY <1>7 DEF SyncReplace, AtHand
  <2>2. CASE Cardinality(D) # 1
    <3>1. Add(a)  BY <1>7, <2>2 DEF SyncReplace
    <3> QED  BY <1>1, <1>3, <1>4, <2>1, <2>2, <3>1
  <2>3. CASE Cardinality(D) = 1
    <3>1. Send(a, u)  BY <1>7, <2>3 DEF SyncReplace
    <3>2. The(D) \in D /\ u \in Request  BY <1>1, <1>2, <2>3, FoundRequest
    <3>3. /\ u.call = "update" /\ u.at = The(D) /\ u.id = map[u.at].id
          /\ u.entry = Head(todo[a]).entry /\ u.of = target[a]
      OBVIOUS
    <3> HIDE DEF u, D
    <3> QED  BY <1>1, <2>1, <3>1, <3>2, <3>3 DEF D
  <2> QED  BY <2>2, <2>3
<1> QED  BY <1>5, <1>6, <1>7

LEMMA TypesSync ==
  ASSUME Types, NEW a \in Agents, SyncAdd(a) \/ SyncRemove(a) \/ SyncReplace(a)
  PROVE  Types'
<1>1. pc[a] = "pick" /\ todo[a] # <<>> /\ Otherwise  BY SyncCases
<1>2. CASE Skip(a)  BY <1>1, <1>2, TypesSkip
<1>3. CASE \E r \in Request : Send(a, r) /\ (r.call # "remember" => r.at \in DOMAIN map)
  BY <1>1, <1>3, TypesSend
<1> QED  BY <1>2, <1>3, SyncCases DEF Matches, Disappeared

LEMMA TypesServe ==
  ASSUME Types, NEW a \in Agents, Serve(a)
  PROVE  Types'
<1>1. /\ mems \in Seq(Memory) /\ likened \in BOOLEAN
      /\ req[a] \in Request /\ pc[a] = "sent"
  BY DEF Serve, Types, TypeOK, Memory, Posed, Waiting
<1>2. /\ mems' \in Seq(Memory) /\ late' \subseteq Request /\ faults' \in Nat
      /\ {refused', lost', likened'} \subseteq BOOLEAN
      /\ \E id \in Nat : Answer(a, id)
  <2>1. CASE /\ \E id \in Ids : Perform(req[a], id) /\ Answer(a, id)
             /\ UNCHANGED <<late, faults, refused, lost>>
    BY <1>1, <2>1, PerformTyped DEF Types, TypeOK, Id
  <2>2. CASE /\ IF Way(Build, Conf) = "none" THEN UNCHANGED faults ELSE Fault
             /\ refused' = TRUE
             /\ Answer(a, 0)
             /\ UNCHANGED <<mems, likened, late, lost>>
    BY <1>1, <2>2 DEF Fault, Types, TypeOK
  <2>3. CASE /\ Fault /\ lost' = TRUE
             /\ \E id \in Ids : Perform(req[a], id)
             /\ Answer(a, 0)
             /\ UNCHANGED <<late, refused>>
    BY <1>1, <2>3, PerformTyped DEF Fault, Types, TypeOK
  <2>4. CASE /\ Fault /\ lost' = TRUE
             /\ late' = late \cup {req[a]}
             /\ Answer(a, 0)
             /\ UNCHANGED <<mems, likened, refused>>
    BY <1>1, <2>4 DEF Fault, Types, TypeOK
  <2> QED  BY <2>1, <2>2, <2>3, <2>4 DEF Serve
<1>3. PICK id \in Nat : Answer(a, id)  BY <1>2
<1>4. TypeOK'
  BY <1>2, <1>3 DEF Answer, disk, Types, TypeOK, Memory
<1>5. Posed'
  BY <1>1, <1>3 DEF Answer, disk, Types, Posed, Waiting, TypeOK
<1> QED  BY <1>4, <1>5 DEF Types

LEMMA TypesServeLate ==
  ASSUME Types, NEW r \in late, ServeLate(r)
  PROVE  Types'
<1>1. mems \in Seq(Memory) /\ likened \in BOOLEAN /\ r \in Request
  BY DEF Types, TypeOK, Memory
<1>2. mems' \in Seq(Memory) /\ likened' \in BOOLEAN
  BY <1>1, PerformTyped DEF ServeLate
<1>3. TypeOK'
  BY <1>2 DEF ServeLate, disk, handler, budget, history, Types, TypeOK, Memory
<1>4. Posed'
  BY DEF ServeLate, disk, handler, Types, Posed, Waiting
<1> QED  BY <1>3, <1>4 DEF Types

LEMMA TypesFinish ==
  ASSUME Types, NEW a \in Agents, Finish(a)
  PROVE  Types'
<1>1. map' \in Seq(SyncRecord)
  BY NewMapTyped DEF Finish, Types
<1>2. Tail(todo[a]) \in Seq(Change1)
  BY LineTyped DEF Finish, Types
<1>3. todo' \in [Agents -> Seq(Change1)]
  BY <1>2 DEF Finish, Types, TypeOK
<1>4. TypeOK'
  BY <1>1, <1>3 DEF Finish, Settle, budget, history, Types, TypeOK
<1>5. Posed'
  BY DEF Finish, Settle, Types, Posed, Waiting, TypeOK
<1> QED  BY <1>4, <1>5 DEF Types

LEMMA TypesFinishFailed ==
  ASSUME Types, NEW a \in Agents, FinishFailed(a)
  PROVE  Types'
<1>1. /\ queue \in Seq(QueueLine) /\ Len(queue) <= QueueLimit
      /\ pc[a] = "back"
      /\ queue' = Queued(Line(a))
  BY DEF FinishFailed, Types, TypeOK, QueueLine
<1>2. /\ Line(a) \in QueueLine /\ Head(todo[a]) \in Change1
      /\ Tail(todo[a]) \in Seq(Change1)
  BY <1>1, LineTyped DEF Types
<1>3. queue' \in Seq(QueueLine) /\ Len(queue') <= QueueLimit
  BY <1>1, <1>2, QueuedTyped
<1>4. todo' \in [Agents -> Seq(Change1)]
  <2> DEFINE again == Change("add", <<Head(todo[a]).entry>>)
  <2>1. <<Head(todo[a]).entry>> \in Seq(Entries)  BY <1>2 DEF Change1
  <2>2. again \in Seq(Change1)  BY <2>1, ChangeIs
  <2> HIDE DEF again
  <2>3. again \o Tail(todo[a]) \in Seq(Change1)  BY <1>2, <2>2
  <2>4. todo' = [todo EXCEPT ![a] =
                   IF req[a].call = "update" THEN again \o Tail(todo[a]) ELSE Tail(todo[a])]
    BY DEF FinishFailed, again, Types, TypeOK
  <2> QED  BY <1>2, <2>3, <2>4 DEF Types, TypeOK
<1>5. spilled' \in BOOLEAN  BY DEF FinishFailed, Types, TypeOK
<1>6. TypeOK'
  BY <1>3, <1>4, <1>5 DEF FinishFailed, Settle, budget, Types, TypeOK, QueueLine
<1>7. Posed'
  BY DEF FinishFailed, Settle, Types, Posed, Waiting, TypeOK
<1> QED  BY <1>6, <1>7 DEF Types

LEMMA TypesThrow ==
  ASSUME Types, NEW a \in Agents, Throw(a)
  PROVE  Types'
<1>1. <<>> \in Seq(Change1) /\ <<>> \in Seq(SyncRecord) /\ "memory" \in Targets
  BY DEF Targets
<1>2. TypeOK'
  BY <1>1 DEF Throw, Fault, disk, Types, TypeOK
<1>3. Posed'
  BY DEF Throw, disk, Types, Posed, Waiting, TypeOK
<1> QED  BY <1>2, <1>3 DEF Types

LEMMA TypesCrash ==
  ASSUME Types, NEW p \in Processes, Crash(p)
  PROVE  Types'
<1> DEFINE Here == {a \in Agents : Host[a] = p /\ pc[a] # "off"}
<1>1. <<>> \in Seq(Change1) /\ <<>> \in Seq(SyncRecord) /\ "memory" \in Targets
      /\ Blank \in [Targets -> SUBSET Entries]
  BY DEF Targets, Blank
<1>2. late' \subseteq Request
  <2>1. \A a \in Agents : pc[a] = "sent" => req[a] \in Request
    BY DEF Types, Posed, Waiting
  <2>2. PICK S \in SUBSET {req[a] : a \in {b \in Here : pc[b] = "sent"}} :
          late' = late \cup S
    BY DEF Crash
  <2> QED  BY <2>1, <2>2 DEF Types, TypeOK
<1>3. TypeOK'
  BY <1>1, <1>2 DEF Crash, Fault, disk, Types, TypeOK
<1>4. Posed'
  BY DEF Crash, disk, Types, Posed, Waiting, TypeOK
<1> QED  BY <1>3, <1>4 DEF Types

LEMMA TypesNext ==
  ASSUME Types, [Next]_vars
  PROVE  Types'
<1>1. ASSUME NEW t \in Targets, NEW entries \in SUBSET MayHold[t], Edit(t, entries)
      PROVE  Types'
  BY <1>1, TypesEdit
<1>2. ASSUME NEW a \in Agents, BeforeAgentStart(a) \/ AgentEnd(a) \/ Throw(a)
      PROVE  Types'
  BY <1>2, TypesStart, TypesEnd, TypesThrow
<1>3. ASSUME NEW a \in Agents, Work(a)  PROVE Types'
  BY <1>3, TypesNextFile, TypesSync, TypesServe, TypesFinish, TypesFinishFailed DEF Work
<1>4. ASSUME NEW p \in Processes, Crash(p)  PROVE Types'
  BY <1>4, TypesCrash
<1>5. ASSUME NEW r \in late, ServeLate(r)  PROVE Types'
  BY <1>5, TypesServeLate
<1>6. CASE UNCHANGED vars
  BY <1>6 DEF vars, disk, handler, budget, history, Types, TypeOK, Posed, Waiting
<1> QED  BY <1>1, <1>2, <1>3, <1>4, <1>5, <1>6 DEF Next

\* Every variable keeps its type, whatever is asked, answered, saved or lost:
\* a handler that is answered still holds the record it has asked about.
THEOREM TypeCorrect == Spec => []TypeOK
<1>1. Init => Types  BY TypesInit
<1>2. Types /\ [Next]_vars => Types'  BY TypesNext
<1>3. Types => TypeOK  BY DEF Types
<1> QED  BY <1>1, <1>2, <1>3, PTL DEF Spec

-----------------------------------------------------------------------------
(* What a handler holds and asks for.                                      *)

\* The map a handler will save, of what it holds, asks, and is answered.
Saved(h, r, t, id) ==
  CASE r.call = "remember" -> Append(h, Record(t, r.entry, id))
    [] r.call = "update" -> [h EXCEPT ![r.at] = Record(t, r.entry, id)]
    [] r.call = "forget" -> RemoveAt(h, r.at)

LEMMA SavedIs ==
  ASSUME NEW a \in Agents
  PROVE  NewMap(a) = Saved(held[a], req[a], target[a], got[a])
BY DEF NewMap, Saved

\* Its records are those that were held, and perhaps a new one.
LEMMA SavedHas ==
  ASSUME NEW h \in Seq(SyncRecord), NEW r \in Request,
         r.call # "remember" => r.at \in DOMAIN h,
         NEW t, NEW id, NEW n \in DOMAIN Saved(h, r, t, id)
  PROVE  \/ \E k \in DOMAIN h : Saved(h, r, t, id)[n] = h[k]
         \/ r.call # "forget" /\ Saved(h, r, t, id)[n] = Record(t, r.entry, id)
<1> DEFINE R == Record(t, r.entry, id)
<1>1. DOMAIN h = 1..Len(h) /\ Len(h) \in Nat  OBVIOUS
<1> HIDE DEF R
<1>2. CASE r.call = "remember"
  <2>1. Saved(h, r, t, id) = Append(h, R)  BY <1>2 DEF Saved, R
  <2>2. n \in 1..(Len(h) + 1)  BY <1>1, <2>1
  <2>3. CASE n = Len(h) + 1  BY <1>1, <1>2, <2>1, <2>3 DEF R
  <2>4. CASE n # Len(h) + 1
    <3>1. n \in DOMAIN h  BY <1>1, <2>2, <2>4
    <3>2. Append(h, R)[n] = h[n]  BY <1>1, <3>1
    <3> QED  BY <2>1, <3>1, <3>2
  <2> QED  BY <2>3, <2>4
<1>3. CASE r.call = "update"
  <2>1. Saved(h, r, t, id) = [h EXCEPT ![r.at] = R]  BY <1>3 DEF Saved, R
  <2> QED  BY <1>1, <1>3, <2>1 DEF R
<1>4. CASE r.call = "forget"
  <2>1. Saved(h, r, t, id) = RemoveAt(h, r.at)  BY <1>4 DEF Saved
  <2> QED  BY <1>4, <2>1, Remains
<1> QED  BY <1>2, <1>3, <1>4, RequestKinds

LEMMA RecordIs ==
  ASSUME NEW t, NEW e, NEW id
  PROVE  /\ Record(t, e, id).target = t /\ Record(t, e, id).entry = e
         /\ Record(t, e, id).id = id /\ Record(t, e, id).fp = Fingerprint(t, e)
BY DEF Record

LEMMA HeldInit == Init => Held
BY DEF Init, Held, Known, Marked, FpOf, Single, Asked, Failures, Waiting

\* Steps that neither send nor answer a request, nor write the map.
LEMMA HeldCalm ==
  ASSUME Held, UNCHANGED <<map, mems, queue, refused, lost, spilled>>,
         ~mixed' => ~mixed,
         \A r \in late' : r \in late \/ \E a \in Agents : Waiting(a) /\ r = req[a],
         Types,
         \A a \in Agents : held'[a] \in {held[a], <<>>},
         \A a \in Agents : pc'[a] \in {"sent", "back"} =>
           /\ pc'[a] = pc[a] /\ req'[a] = req[a] /\ held'[a] = held[a]
           /\ got'[a] = got[a] /\ target'[a] = target[a] /\ todo'[a] = todo[a]
  PROVE  Held'
<1>1. Known'
  <2>1. \A a \in Agents : \A n \in DOMAIN held'[a] : held'[a][n].id \in DOMAIN mems
    BY DEF Held, Known
  <2>2. \A a \in Agents : Waiting(a) /\ req[a].call # "remember" =>
          req[a].id \in DOMAIN mems
    BY DEF Held, Known, Types, Posed
  <2>3. \A r \in late' : r.call # "remember" => r.id \in DOMAIN mems
    BY <2>2 DEF Held, Known
  <2> QED  BY <2>1, <2>3 DEF Held, Known, Waiting
<1>2. Marked'
  <2>1. \A a \in Agents : FpOf(held[a])'
    BY DEF Held, Marked, FpOf, Fingerprint
  <2>2. FpOf(map)'  BY DEF Held, Marked, FpOf, Fingerprint
  <2> QED  BY <2>1, <2>2 DEF Marked
<1>3. Single'  BY DEF Held, Single, Waiting
<1>4. Asked'  BY DEF Held, Asked, Waiting
<1>5. Failures'  BY DEF Held, Failures
<1> QED  BY <1>1, <1>2, <1>3, <1>4, <1>5 DEF Held

LEMMA HeldSend ==
  ASSUME Types, Held, NEW a \in Agents, pc[a] = "pick", todo[a] # <<>>,
         NEW r \in Request,
         r.call # "remember" => r.id = map[r.at].id,
         r.call # "forget" =>
           r.entry = Head(todo[a]).entry /\ r.of = target[a],
         r.call = "remember" =>
           \A n \in DOMAIN map : map[n].fp # Fingerprint(target[a], r.entry),
         Send(a, r), Otherwise
  PROVE  Held'
<1>1. /\ held' = [held EXCEPT ![a] = map] /\ req' = [req EXCEPT ![a] = r]
      /\ pc' = [pc EXCEPT ![a] = "sent"]
      /\ UNCHANGED <<map, mems, late, queue, got, target, todo, refused, lost, spilled>>
      /\ (~mixed' => ~mixed /\ \A b \in Agents \ {a} : ~Waiting(b))
  BY DEF Send, Otherwise, disk, Waiting
<1>2. /\ held'[a] = map /\ req'[a] = r /\ pc'[a] = "sent"
      /\ \A b \in Agents \ {a} : held'[b] = held[b] /\ req'[b] = req[b] /\ pc'[b] = pc[b]
  BY <1>1 DEF Types, TypeOK
<1>3. Known'  BY <1>1, <1>2 DEF Held, Known, Waiting
<1>4. Marked'  BY <1>1, <1>2 DEF Held, Marked, FpOf, Fingerprint
<1>5. Single'  BY <1>1, <1>2 DEF Held, Single, Waiting
<1>6. Asked'  BY <1>1, <1>2 DEF Held, Asked, Waiting
<1>7. Failures'  BY <1>1, <1>2 DEF Held, Failures
<1> QED  BY <1>3, <1>4, <1>5, <1>6, <1>7 DEF Held


LEMMA HeldSync ==
  ASSUME Types, Held, NEW a \in Agents, SyncAdd(a) \/ SyncRemove(a) \/ SyncReplace(a)
  PROVE  Held'
<1>1. pc[a] = "pick" /\ todo[a] # <<>> /\ Otherwise  BY SyncCases
<1>2. CASE Skip(a)
  <2>1. \A b \in Agents : pc[b] \in {"sent", "back"} => todo'[b] = todo[b]
    BY <1>1, <1>2 DEF Skip, Types, TypeOK
  <2> QED  BY <1>1, <1>2, <2>1, HeldCalm DEF Skip, Otherwise, disk
<1>3. ASSUME NEW r \in Request, Send(a, r),
             \/ /\ r.call = "remember" /\ r.entry = Head(todo[a]).entry
                /\ r.of = target[a]
                /\ \A n \in DOMAIN map : map[n].fp # Fingerprint(target[a], r.entry)
             \/ /\ r.call = "update" /\ r.entry = Head(todo[a]).entry
                /\ r.of = target[a] /\ r.id = map[r.at].id
             \/ r.call = "forget" /\ r.id = map[r.at].id
      PROVE  Held'
  BY <1>1, <1>3, HeldSend
<1> QED  BY <1>2, <1>3, SyncCases

LEMMA PerformKnown ==
  ASSUME mems \in Seq(Memory), likened \in BOOLEAN,
         NEW r \in Request, NEW id \in Ids, Perform(r, id),
         r.call # "remember" => r.id \in DOMAIN mems
  PROVE  id \in DOMAIN mems'
<1>1. Len(mems) \in Nat /\ DOMAIN mems = 1..Len(mems) /\ DOMAIN mems \subseteq DOMAIN mems'
  BY PerformTyped
<1>2. CASE r.call = "remember"
  <2>1. Remembers(r, id)  BY <1>2 DEF Perform
  <2>2. CASE id \in Resembled(r)  BY <1>1, <2>2 DEF Resembled
  <2>3. CASE /\ id = Len(mems) + 1
             /\ mems' = Append(mems, [body |-> r.entry, of |-> r.of, active |-> TRUE])
    BY <1>1, <2>3
  <2> QED  BY <2>1, <2>2, <2>3 DEF Remembers
<1>3. CASE r.call # "remember"
  BY <1>1, <1>3, RequestKinds DEF Perform, Updates, Forgets
<1> QED  BY <1>2, <1>3

\* What may become of a call.
LEMMA ServeCases ==
  ASSUME Types, NEW a \in Agents, Serve(a)
  PROVE  /\ pc[a] = "sent" /\ req[a] \in Request /\ mems \in Seq(Memory)
         /\ \/ /\ \E id \in Ids : Perform(req[a], id) /\ Answer(a, id)
               /\ UNCHANGED <<late, refused, lost>>
            \/ /\ refused' = TRUE /\ Answer(a, 0) /\ UNCHANGED <<mems, likened, late, lost>>
            \/ /\ lost' = TRUE /\ Answer(a, 0) /\ UNCHANGED <<late, refused>>
               /\ \E id \in Ids : Perform(req[a], id)
            \/ /\ lost' = TRUE /\ Answer(a, 0) /\ UNCHANGED <<mems, likened, refused>>
               /\ late' = late \cup {req[a]}
BY DEF Serve, Types, TypeOK, Posed, Waiting, Memory

LEMMA HeldServe ==
  ASSUME Types, Held, NEW a \in Agents, Serve(a)
  PROVE  Held'
<1>1. /\ pc[a] = "sent" /\ req[a] \in Request /\ mems \in Seq(Memory)
      /\ likened \in BOOLEAN
      /\ req[a].call # "remember" => req[a].id \in DOMAIN mems
  BY ServeCases DEF Held, Known, Types, TypeOK, Posed, Waiting
<1>2. PICK id \in Nat : Answer(a, id)
  <2>1. Ids \subseteq Nat  BY <1>1 DEF Ids
  <2> QED  BY <2>1, ServeCases
<1>3. /\ UNCHANGED <<map, queue, target, todo, held, req, mixed, spilled>>
      /\ pc' = [pc EXCEPT ![a] = "back"] /\ got' = [got EXCEPT ![a] = id]
  BY <1>2 DEF Answer, disk
<1>4. /\ pc'[a] = "back" /\ got'[a] = id
      /\ \A b \in Agents \ {a} : pc'[b] = pc[b] /\ got'[b] = got[b]
      /\ \A b \in Agents : Waiting(b)' <=> Waiting(b)
  BY <1>1, <1>3 DEF Types, TypeOK, Waiting
<1>5. /\ DOMAIN mems \subseteq DOMAIN mems'
      /\ id # 0 => id \in DOMAIN mems'
      /\ \A r \in late' : r \in late \/ r = req[a]
      /\ id = 0 => refused' \/ lost'
      /\ (refused \/ lost) => (refused' \/ lost')
  <2>1. CASE \E j \in Ids : Perform(req[a], j) /\ Answer(a, j) /\ UNCHANGED <<late, refused, lost>>
    <3>1. PICK j \in Ids : Perform(req[a], j) /\ Answer(a, j) /\ UNCHANGED <<late, refused, lost>>
      BY <2>1
    <3>2. j = id  BY <1>4, <3>1 DEF Answer, Types, TypeOK
    <3>3. id # 0  BY <3>1, <3>2 DEF Ids
    <3> QED  BY <1>1, <3>1, <3>2, <3>3, PerformTyped, PerformKnown
  <2>2. CASE refused' = TRUE /\ Answer(a, 0) /\ UNCHANGED <<mems, likened, late, lost>>
    <3>1. id = 0  BY <1>4, <2>2 DEF Answer, Types, TypeOK
    <3> QED  BY <2>2, <3>1
  <2>3. CASE /\ lost' = TRUE /\ Answer(a, 0) /\ UNCHANGED <<late, refused>>
             /\ \E j \in Ids : Perform(req[a], j)
    <3>1. id = 0  BY <1>4, <2>3 DEF Answer, Types, TypeOK
    <3> QED  BY <1>1, <2>3, <3>1, PerformTyped
  <2>4. CASE /\ lost' = TRUE /\ Answer(a, 0) /\ UNCHANGED <<mems, likened, refused>>
             /\ late' = late \cup {req[a]}
    <3>1. id = 0  BY <1>4, <2>4 DEF Answer, Types, TypeOK
    <3> QED  BY <2>4, <3>1
  <2> QED  BY <2>1, <2>2, <2>3, <2>4, ServeCases
<1>6. Known'
  <2>1. \A b \in Agents : pc'[b] = "back" /\ got'[b] # 0 => got'[b] \in DOMAIN mems'
    BY <1>4, <1>5 DEF Held, Known
  <2>2. \A r \in late' : r.call # "remember" => r.id \in DOMAIN mems'
    BY <1>1, <1>5 DEF Held, Known
  <2> QED  BY <1>3, <1>4, <1>5, <2>1, <2>2 DEF Held, Known
<1>7. Marked'  BY <1>3 DEF Held, Marked, FpOf, Fingerprint
<1>8. Single'  BY <1>3, <1>4 DEF Held, Single
<1>9. Asked'  BY <1>3, <1>4 DEF Held, Asked
<1>10. Failures'  BY <1>3, <1>4, <1>5 DEF Held, Failures
<1> QED  BY <1>6, <1>7, <1>8, <1>9, <1>10 DEF Held

LEMMA HeldServeLate ==
  ASSUME Types, Held, NEW r \in late, ServeLate(r)
  PROVE  Held'
<1>1. mems \in Seq(Memory) /\ likened \in BOOLEAN /\ r \in Request
  BY DEF Types, TypeOK, Memory
<1>2. DOMAIN mems \subseteq DOMAIN mems'
  BY <1>1, PerformTyped DEF ServeLate
<1>3. UNCHANGED <<map, queue, handler, history>> /\ late' \subseteq late
  BY DEF ServeLate, disk
<1>4. Known'  BY <1>2, <1>3 DEF handler, Held, Known, Waiting
<1>5. Marked' /\ Single' /\ Asked' /\ Failures'
  BY <1>3 DEF handler, history, Held, Marked, FpOf, Fingerprint, Single, Asked, Failures, Waiting
<1> QED  BY <1>4, <1>5 DEF Held

\* A handler that goes on waits no longer, and no other one waits if none mixes.
LEMMA HeldFinish ==
  ASSUME Types, Held, NEW a \in Agents, Finish(a)
  PROVE  Held'
<1> DEFINE t == target[a]
           N == Saved(held[a], req[a], t, got[a])
<1>1. /\ map' = N /\ pc[a] = "back" /\ got[a] # 0
      /\ UNCHANGED <<queue, mems, late, target, refused, lost, mixed, spilled>>
      /\ todo' = [todo EXCEPT ![a] = Tail(todo[a])]
      /\ pc' = [pc EXCEPT ![a] = "pick"] /\ held' = [held EXCEPT ![a] = <<>>]
      /\ req' = [req EXCEPT ![a] = NoRequest] /\ got' = [got EXCEPT ![a] = 0]
  BY SavedIs DEF Finish, Settle, history, Types, TypeOK
<1>2. /\ pc'[a] = "pick" /\ held'[a] = <<>>
      /\ \A b \in Agents \ {a} :
           /\ pc'[b] = pc[b] /\ held'[b] = held[b] /\ req'[b] = req[b]
           /\ got'[b] = got[b] /\ todo'[b] = todo[b]
  BY <1>1 DEF Types, TypeOK
<1>3. /\ held[a] \in Seq(SyncRecord) /\ req[a] \in Request
      /\ req[a].call # "remember" => req[a].at \in DOMAIN held[a]
  BY <1>1 DEF Types, TypeOK, Posed, Waiting
<1>4. ASSUME NEW n \in DOMAIN N
      PROVE  N[n].id \in DOMAIN mems /\ N[n].fp = Fingerprint(N[n].target, N[n].entry)
  <2>1. CASE \E k \in DOMAIN held[a] : N[n] = held[a][k]
    BY <2>1 DEF Held, Known, Marked, FpOf
  <2>2. CASE N[n] = Record(t, req[a].entry, got[a])
    BY <1>1, <2>2, RecordIs DEF Held, Known
  <2> QED  BY <1>3, <2>1, <2>2, SavedHas
<1> HIDE DEF N, t
<1>5. Known'  BY <1>1, <1>2, <1>4 DEF Held, Known, Waiting
<1>6. Marked'
  <2>1. FpOf(map)'  BY <1>1, <1>4 DEF FpOf, Fingerprint
  <2>2. \A b \in Agents : FpOf(held[b])'
    BY <1>2 DEF Held, Marked, FpOf, Fingerprint
  <2> QED  BY <2>1, <2>2 DEF Marked
<1>7. Single'  BY <1>1, <1>2 DEF Held, Single, Waiting
<1>8. Asked'  BY <1>1, <1>2 DEF Held, Asked, Waiting
<1>9. Failures'  BY <1>1, <1>2 DEF Held, Failures
<1> QED  BY <1>5, <1>6, <1>7, <1>8, <1>9 DEF Held

LEMMA HeldFinishFailed ==
  ASSUME Types, Held, NEW a \in Agents, FinishFailed(a)
  PROVE  Held'
<1>1. /\ pc[a] = "back" /\ got[a] = 0
      /\ UNCHANGED <<map, mems, late, target, refused, lost, mixed>>
      /\ pc' = [pc EXCEPT ![a] = "pick"] /\ held' = [held EXCEPT ![a] = <<>>]
      /\ req' = [req EXCEPT ![a] = NoRequest] /\ got' = [got EXCEPT ![a] = 0]
      /\ \A b \in Agents \ {a} : todo'[b] = todo[b]
  BY DEF FinishFailed, Settle, Types, TypeOK
<1>2. /\ pc'[a] = "pick" /\ held'[a] = <<>>
      /\ \A b \in Agents \ {a} :
           /\ pc'[b] = pc[b] /\ held'[b] = held[b] /\ req'[b] = req[b]
           /\ got'[b] = got[b] /\ todo'[b] = todo[b]
  BY <1>1 DEF Types, TypeOK
<1>3. refused \/ lost  BY <1>1 DEF Held, Failures
<1>4. Known'  BY <1>1, <1>2 DEF Held, Known, Waiting
<1>5. Marked'  BY <1>1, <1>2 DEF Held, Marked, FpOf, Fingerprint
<1>6. Single'  BY <1>1, <1>2 DEF Held, Single, Waiting
<1>7. Asked'  BY <1>1, <1>2 DEF Held, Asked, Waiting
<1>8. Failures'  BY <1>1, <1>2, <1>3 DEF Held, Failures
<1> QED  BY <1>4, <1>5, <1>6, <1>7, <1>8 DEF Held

LEMMA HeldThrow ==
  ASSUME Types, Held, NEW a \in Agents, Throw(a)
  PROVE  Held'
<1>1. \A b \in Agents : held'[b] \in {held[b], <<>>}
  BY DEF Throw, Types, TypeOK
<1>2. \A b \in Agents : pc'[b] \in {"sent", "back"} =>
        /\ pc'[b] = pc[b] /\ req'[b] = req[b] /\ held'[b] = held[b]
        /\ got'[b] = got[b] /\ target'[b] = target[b] /\ todo'[b] = todo[b]
  BY DEF Throw, Types, TypeOK
<1> QED  BY <1>1, <1>2, HeldCalm DEF Throw, disk

LEMMA HeldCrash ==
  ASSUME Types, Held, NEW p \in Processes, Crash(p)
  PROVE  Held'
<1>1. \A b \in Agents : held'[b] \in {held[b], <<>>}
  BY DEF Crash
<1>2. \A b \in Agents : pc'[b] \in {"sent", "back"} =>
        /\ pc'[b] = pc[b] /\ req'[b] = req[b] /\ held'[b] = held[b]
        /\ got'[b] = got[b] /\ target'[b] = target[b] /\ todo'[b] = todo[b]
  BY DEF Crash
<1>3. \A r \in late' : r \in late \/ \E a \in Agents : Waiting(a) /\ r = req[a]
  BY DEF Crash, Waiting
<1> QED  BY <1>1, <1>2, <1>3, HeldCalm DEF Crash, disk

LEMMA HeldNext ==
  ASSUME Types, Held, [Next]_vars
  PROVE  Held'
<1>1. ASSUME NEW t \in Targets, NEW entries \in SUBSET MayHold[t], Edit(t, entries)
      PROVE  Held'
  BY <1>1, HeldCalm DEF Edit, handler
<1>2. ASSUME NEW a \in Agents, BeforeAgentStart(a)  PROVE Held'
  <2>1. \A b \in Agents : pc'[b] \in {"sent", "back"} => pc'[b] = pc[b]
    BY <1>2 DEF BeforeAgentStart, Types, TypeOK
  <2> QED  BY <1>2, <2>1, HeldCalm DEF BeforeAgentStart, disk
<1>3. ASSUME NEW a \in Agents, AgentEnd(a)  PROVE Held'
  <2>1. \A b \in Agents : pc'[b] \in {"sent", "back"} => b # a /\ pc'[b] = pc[b]
    BY <1>3 DEF AgentEnd, Types, TypeOK
  <2>2. \A b \in Agents \ {a} : target'[b] = target[b] /\ todo'[b] = todo[b]
    BY <1>3, CompareTyped DEF AgentEnd, Types, Targets
  <2> QED  BY <1>3, <2>1, <2>2, HeldCalm DEF AgentEnd, disk
<1>4. ASSUME NEW a \in Agents, NextFile(a)  PROVE Held'
  <2>1. pc[a] = "pick"  BY <1>4 DEF NextFile
  <2>2. /\ ~(pc'[a] \in {"sent", "back"})
        /\ \A b \in Agents \ {a} :
             pc'[b] = pc[b] /\ target'[b] = target[b] /\ todo'[b] = todo[b]
    <3>1. CASE target[a] = "memory"
      <4>1. Compare(a, "user") /\ UNCHANGED pc  BY <1>4, <3>1 DEF NextFile
      <4> QED  BY <2>1, <4>1, CompareTyped DEF Types, Targets
    <3>2. CASE target[a] # "memory"
      BY <1>4, <3>2 DEF NextFile, Types, TypeOK
    <3> QED  BY <3>1, <3>2
  <2>3. UNCHANGED <<map, mems, queue, late, held, req, got, refused, lost, mixed, spilled>>
    BY <1>4 DEF NextFile, disk
  <2> QED  BY <2>2, <2>3, HeldCalm
<1>5. ASSUME NEW a \in Agents, Work(a), ~NextFile(a)  PROVE Held'
  BY <1>5, HeldSync, HeldServe, HeldFinish, HeldFinishFailed DEF Work
<1>6. CASE UNCHANGED vars
  BY <1>6, HeldCalm DEF vars, disk, handler, history
<1> QED
  BY <1>1, <1>2, <1>3, <1>4, <1>5, <1>6, HeldThrow, HeldCrash, HeldServeLate DEF Next, Work

-----------------------------------------------------------------------------
(* The map and AMM.                                                        *)

\* What a request does to the memories ms; id is the one it is about, and odd2
\* whether AMM has by then taken an entry for another one.
New(r) == [body |-> r.entry, of |-> r.of, active |-> TRUE]

Effect(r, id, ms, ms2, odd2) ==
  \/ /\ r.call = "remember" /\ id \in DOMAIN ms /\ ms2 = ms
     /\ odd2 \/ ms[id] = New(r)
  \/ r.call = "remember" /\ id = Len(ms) + 1 /\ ms2 = Append(ms, New(r))
  \/ r.call = "update" /\ id = r.id /\ ms2 = [ms EXCEPT ![id] = New(r)]
  \/ /\ r.call = "forget" /\ id = r.id
     /\ ms2 = [ms EXCEPT ![id] = [ms[id] EXCEPT !.active = FALSE]]

LEMMA PerformHasEffect ==
  ASSUME NEW r \in Request, NEW id, Perform(r, id)
  PROVE  Effect(r, id, mems, mems', likened') /\ (likened => likened')
<1>1. CASE r.call = "remember"
  <2>1. Remembers(r, id)  BY <1>1 DEF Perform
  <2>2. CASE /\ id \in Resembled(r)
             /\ likened' = (likened \/ id \notin Same(r))
             /\ UNCHANGED mems
    BY <1>1, <2>2 DEF Resembled, Same, Effect, New
  <2>3. CASE /\ id = Len(mems) + 1
             /\ likened' = (likened \/ Same(r) # {})
             /\ mems' = Append(mems, [body |-> r.entry, of |-> r.of, active |-> TRUE])
    BY <1>1, <2>3 DEF Effect, New
  <2> QED  BY <2>1, <2>2, <2>3 DEF Remembers
<1>2. CASE r.call = "update"  BY <1>2 DEF Perform, Updates, Effect, New
<1>3. CASE r.call = "forget"  BY <1>3 DEF Perform, Forgets, Effect
<1> QED  BY <1>1, <1>2, <1>3, RequestKinds

LEMMA TrueMore ==
  ASSUME NEW m, NEW ms, NEW odd, NEW outs, NEW lists,
         TrueOf(m, ms, odd, outs, lists),
         NEW outs2, NEW lists2, outs \subseteq outs2, lists \subseteq lists2
  PROVE  TrueOf(m, ms, odd, outs2, lists2)
BY DEF TrueOf

\* What has its effect while a line tells of it leaves the map true.
LEMMA TrueTold ==
  ASSUME NEW m, NEW ms \in Seq(Memory), NEW ms2, NEW odd, NEW odd2, odd => odd2,
         NEW outs, NEW lists,
         TrueOf(m, ms, odd, outs, lists), \A n \in DOMAIN m : m[n].id \in DOMAIN ms,
         NEW r \in Request, NEW id, Effect(r, id, ms, ms2, odd2), Told(r, outs, lists)
  PROVE  TrueOf(m, ms2, odd2, outs, lists)
<1>1. DOMAIN ms = 1..Len(ms) /\ Len(ms) \in Nat  OBVIOUS
<1>2. CASE ms2 = ms  BY <1>2 DEF TrueOf
<1>3. CASE r.call = "remember" /\ id = Len(ms) + 1 /\ ms2 = Append(ms, New(r))
  <2>1. /\ DOMAIN ms2 = 1..(Len(ms) + 1) /\ ms2[Len(ms) + 1] = New(r)
        /\ \A i \in DOMAIN ms : ms2[i] = ms[i]
    BY <1>1, <1>3
  <2>2. New(r).body \in lists  BY <1>3 DEF Told, New
  <2>3. \A n \in DOMAIN m : Fits(m[n], ms2) <=> Fits(m[n], ms)
    BY <2>1 DEF Fits
  <2>4. \A i \in DOMAIN ms2 : i \in DOMAIN ms \/ ms2[i].body \in lists
    BY <1>1, <2>1, <2>2
  <2> QED  BY <2>1, <2>3, <2>4 DEF TrueOf
<1>4. CASE r.call # "remember"
  <2>1. /\ id = r.id /\ id \in outs /\ DOMAIN ms2 = DOMAIN ms
        /\ \A i \in DOMAIN ms \ {id} : ms2[i] = ms[i]
    BY <1>1, <1>4 DEF Effect, Told
  <2>2. \A n \in DOMAIN m : m[n].id = id \/ (Fits(m[n], ms2) <=> Fits(m[n], ms))
    BY <2>1 DEF Fits
  <2> QED  BY <2>1, <2>2 DEF TrueOf
<1> QED  BY <1>2, <1>3, <1>4 DEF Effect

\* A call that is answered, and its record saved, leaves the map true.
LEMMA TrueAnswered ==
  ASSUME NEW m \in Seq(SyncRecord), FpOf(m),
         NEW ms \in Seq(Memory), NEW ms2, NEW odd, NEW odd2, odd => odd2,
         NEW outs, NEW lists,
         TrueOf(m, ms, odd, outs, lists), \A n \in DOMAIN m : m[n].id \in DOMAIN ms,
         NEW r \in Request, NEW id, Effect(r, id, ms, ms2, odd2), NEW t \in Targets,
         r.call # "remember" => r.at \in DOMAIN m /\ r.id = m[r.at].id,
         r.call # "forget" => r.of = t,
         r.call = "remember" => \A n \in DOMAIN m : m[n].fp # Fingerprint(t, r.entry)
  PROVE  TrueOf(Saved(m, r, t, id), ms2, odd2, outs, lists)
<1> DEFINE N == Saved(m, r, t, id)
           R == Record(t, r.entry, id)
<1>1. /\ DOMAIN ms = 1..Len(ms) /\ Len(ms) \in Nat
      /\ DOMAIN m = 1..Len(m) /\ Len(m) \in Nat
  OBVIOUS
<1>2. R.target = t /\ R.entry = r.entry /\ R.id = id  BY RecordIs
<1>3. r.call # "forget" =>
        New(r) = [body |-> R.entry, of |-> R.target, active |-> TRUE]
  BY <1>2 DEF New
<1> HIDE DEF R
<1>4. CASE r.call = "remember"
  <2>1. N = Append(m, R)  BY <1>4 DEF Saved, R
  <2> HIDE DEF N
  <2>2. /\ DOMAIN N = 1..(Len(m) + 1) /\ N[Len(m) + 1] = R
        /\ \A n \in DOMAIN m : N[n] = m[n]
    BY <1>1, <2>1
  <2>3. \A n \in DOMAIN m : Fits(m[n], ms) /\ m[n].id = id => ms[id] # New(r)
    <3>1. SUFFICES ASSUME NEW n \in DOMAIN m, Fits(m[n], ms), m[n].id = id, ms[id] = New(r)
                   PROVE  FALSE
      OBVIOUS
    <3>2. m[n].entry = r.entry /\ m[n].target = t
      BY <1>4, <3>1 DEF Fits, New
    <3>3. m[n].fp = Fingerprint(t, r.entry)  BY <3>1, <3>2 DEF FpOf
    <3> QED  BY <1>4, <3>1, <3>3
  <2>4. CASE id \in DOMAIN ms /\ (odd2 \/ ms[id] = New(r)) /\ ms2 = ms
    <3>1. odd2 \/ Fits(R, ms2)  BY <1>2, <1>3, <1>4, <2>4 DEF Fits
    <3>2. ~odd2 => \A n \in DOMAIN m : m[n].id = id => id \in outs
      BY <2>3, <2>4 DEF TrueOf
    <3>3. \A n \in DOMAIN N : n \in DOMAIN m \/ n = Len(m) + 1
      BY <1>1, <2>2
    <3>4. ~odd2 => \A n \in DOMAIN N : Fits(N[n], ms2) \/ N[n].id \in outs
      BY <2>2, <2>4, <3>1, <3>3 DEF TrueOf
    <3>5. ~odd2 => \A n, k \in DOMAIN N : N[n].id = N[k].id => n = k \/ N[n].id \in outs
      BY <1>2, <2>2, <3>2, <3>3 DEF TrueOf
    <3>6. \A i \in DOMAIN ms2 : ms2[i].active =>
            (\E n \in DOMAIN N : N[n].id = i) \/ i \in outs \/ ms2[i].body \in lists
      <4>1. \A n \in DOMAIN m : n \in DOMAIN N  BY <1>1, <2>2
      <4> QED  BY <2>2, <2>4, <4>1 DEF TrueOf
    <3> QED  BY <3>4, <3>5, <3>6 DEF TrueOf, N
  <2>5. CASE id = Len(ms) + 1 /\ ms2 = Append(ms, New(r))
    <3>1. /\ DOMAIN ms2 = 1..(Len(ms) + 1) /\ ms2[id] = New(r)
          /\ \A i \in DOMAIN ms : ms2[i] = ms[i]
      BY <1>1, <2>5
    <3>2. Fits(R, ms2)  BY <1>2, <1>3, <1>4, <3>1 DEF Fits
    <3>3. \A n \in DOMAIN m : m[n].id # id  BY <1>1, <2>5
    <3>4. \A n \in DOMAIN N : n \in DOMAIN m \/ n = Len(m) + 1
      BY <1>1, <2>2
    <3>5. \A n \in DOMAIN m : Fits(m[n], ms2) <=> Fits(m[n], ms)
      BY <3>1 DEF Fits
    <3>6. ~odd2 => \A n \in DOMAIN N : Fits(N[n], ms2) \/ N[n].id \in outs
      BY <2>2, <3>2, <3>4, <3>5 DEF TrueOf
    <3>7. ~odd2 => \A n, k \in DOMAIN N : N[n].id = N[k].id => n = k \/ N[n].id \in outs
      BY <1>2, <2>2, <3>3, <3>4 DEF TrueOf
    <3>8. \A i \in DOMAIN ms2 : ms2[i].active =>
            (\E n \in DOMAIN N : N[n].id = i) \/ i \in outs \/ ms2[i].body \in lists
      <4>1. \A n \in DOMAIN m : n \in DOMAIN N  BY <1>1, <2>2
      <4>2. Len(m) + 1 \in DOMAIN N  BY <1>1, <2>2
      <4>3. \A i \in DOMAIN ms2 : i \in DOMAIN ms \/ i = id  BY <1>1, <2>5, <3>1
      <4> QED  BY <1>2, <2>2, <3>1, <4>1, <4>2, <4>3 DEF TrueOf
    <3> QED  BY <3>6, <3>7, <3>8 DEF TrueOf, N
  <2> QED  BY <1>4, <2>4, <2>5 DEF Effect, N
<1>5. CASE r.call = "update"
  <2>1. N = [m EXCEPT ![r.at] = R]  BY <1>5 DEF Saved, R
  <2>2. id = r.id /\ id = m[r.at].id /\ id \in DOMAIN ms /\ r.at \in DOMAIN m
    BY <1>5 DEF Effect
  <2>3. /\ DOMAIN ms2 = DOMAIN ms /\ ms2[id] = New(r)
        /\ \A i \in DOMAIN ms \ {id} : ms2[i] = ms[i]
    BY <1>1, <1>5, <2>2 DEF Effect
  <2>4. /\ DOMAIN N = DOMAIN m /\ N[r.at] = R
        /\ \A n \in DOMAIN m \ {r.at} : N[n] = m[n]
        /\ \A n \in DOMAIN m : N[n].id = m[n].id
    BY <1>2, <2>1, <2>2
  <2> HIDE DEF N
  <2>5. Fits(R, ms2)  BY <1>2, <1>3, <1>5, <2>3 DEF Fits
  <2>6. \A n \in DOMAIN m : m[n].id = id \/ (Fits(m[n], ms2) <=> Fits(m[n], ms))
    BY <2>3 DEF Fits
  <2>7. ~odd2 => \A n \in DOMAIN m \ {r.at} : m[n].id = id => id \in outs
    BY <2>2 DEF TrueOf
  <2>8. ~odd2 => \A n \in DOMAIN N : Fits(N[n], ms2) \/ N[n].id \in outs
    BY <2>4, <2>5, <2>6, <2>7 DEF TrueOf
  <2>9. \A i \in DOMAIN ms2 : ms2[i].active =>
          (\E n \in DOMAIN N : N[n].id = i) \/ i \in outs \/ ms2[i].body \in lists
    <3>1. \E n \in DOMAIN N : N[n].id = id  BY <2>2, <2>4
    <3> QED  BY <2>3, <2>4, <3>1 DEF TrueOf
  <2> QED  BY <2>4, <2>8, <2>9 DEF TrueOf, N
<1>6. CASE r.call = "forget"
  <2>1. N = RemoveAt(m, r.at)  BY <1>6 DEF Saved
  <2>2. id = r.id /\ id = m[r.at].id /\ id \in DOMAIN ms /\ r.at \in DOMAIN m
    BY <1>6 DEF Effect
  <2>3. /\ DOMAIN ms2 = DOMAIN ms /\ ms2[id].active = FALSE
        /\ \A i \in DOMAIN ms \ {id} : ms2[i] = ms[i]
    <3>1. ms2 = [ms EXCEPT ![id] = [ms[id] EXCEPT !.active = FALSE]]
      BY <1>6 DEF Effect
    <3>2. ms[id] \in Memory  BY <2>2
    <3>3. [ms[id] EXCEPT !.active = FALSE].active = FALSE
      BY <3>2 DEF Memory
    <3> QED  BY <2>2, <3>1, <3>3
  <2>4. /\ \A n \in DOMAIN N : \E k \in DOMAIN m : k # r.at /\ N[n] = m[k]
        /\ \A k \in DOMAIN m \ {r.at} : \E n \in DOMAIN N : N[n] = m[k]
        /\ \A n, o \in DOMAIN N : n # o =>
             \E k, l \in DOMAIN m \ {r.at} : k # l /\ N[n] = m[k] /\ N[o] = m[l]
    BY <2>1, <2>2, Remains
  <2> HIDE DEF N
  <2>5. \A n \in DOMAIN m : m[n].id = id \/ (Fits(m[n], ms2) <=> Fits(m[n], ms))
    BY <2>3 DEF Fits
  <2>6. ~odd2 => \A n \in DOMAIN m \ {r.at} : m[n].id = id => id \in outs
    BY <2>2 DEF TrueOf
  <2>7. ~odd2 => \A n \in DOMAIN N : Fits(N[n], ms2) \/ N[n].id \in outs
    BY <2>4, <2>5, <2>6 DEF TrueOf
  <2>8. ASSUME ~odd2, NEW n \in DOMAIN N, NEW o \in DOMAIN N, N[n].id = N[o].id, n # o
        PROVE  N[n].id \in outs
    <3>1. PICK k \in DOMAIN m \ {r.at}, l \in DOMAIN m \ {r.at} :
            k # l /\ N[n] = m[k] /\ N[o] = m[l]
      BY <2>4, <2>8
    <3> QED  BY <2>8, <3>1 DEF TrueOf
  <2>9. ASSUME NEW i \in DOMAIN ms2, ms2[i].active
        PROVE  (\E n \in DOMAIN N : N[n].id = i) \/ i \in outs \/ ms2[i].body \in lists
    <3>1. i \in DOMAIN ms /\ i # id /\ ms2[i] = ms[i]  BY <2>3, <2>9
    <3>2. CASE \E k \in DOMAIN m : m[k].id = i
      <4>1. PICK k \in DOMAIN m : m[k].id = i  BY <3>2
      <4>2. k # r.at  BY <2>2, <3>1, <4>1
      <4> QED  BY <2>4, <4>1, <4>2
    <3> QED  BY <2>9, <3>1, <3>2 DEF TrueOf
  <2> QED  BY <2>7, <2>8, <2>9 DEF TrueOf, N
<1> QED  BY <1>4, <1>5, <1>6, RequestKinds

LEMMA MapUnanswered ==
  ASSUME \A b \in Agents : ~(pc[b] = "back" /\ got[b] # 0)
  PROVE  MapToBe = map
BY DEF MapToBe, Answered

LEMMA MapUnansweredNext ==
  ASSUME \A b \in Agents : ~(pc'[b] = "back" /\ got'[b] # 0)
  PROVE  MapToBe' = map'
BY DEF MapToBe, Answered

LEMMA MapAnswered ==
  ASSUME NEW a \in Agents, pc[a] = "back", got[a] # 0,
         \A b \in Agents : Waiting(b) => b = a
  PROVE  MapToBe = Saved(held[a], req[a], target[a], got[a])
<1>1. Answered = {a}  BY DEF Answered, Waiting
<1>2. The(Answered) = a  BY <1>1 DEF The
<1> QED  BY <1>1, <1>2, SavedIs DEF MapToBe

LEMMA MapAnsweredNext ==
  ASSUME NEW a \in Agents, pc'[a] = "back", got'[a] # 0,
         \A b \in Agents : Waiting(b)' => b = a
  PROVE  MapToBe' = Saved(held'[a], req'[a], target'[a], got'[a])
<1>1. Answered' = {a}  BY DEF Answered, Waiting
<1>2. The(Answered') = a  BY <1>1 DEF The
<1>3. NewMap(a)' = Saved(held'[a], req'[a], target'[a], got'[a])
  BY DEF NewMap, Saved, Record, Fingerprint
<1>4. MapToBe' = IF Answered' = {} THEN map' ELSE NewMap(The(Answered))'
  BY DEF MapToBe
<1>5. NewMap(The(Answered))' = NewMap(a)'
  BY <1>2 DEF NewMap
<1> QED  BY <1>1, <1>3, <1>4, <1>5

\* The map to be has ids that are known, and fingerprints of what it says.
LEMMA MapToBeKnown ==
  ASSUME Types, Held, ~mixed
  PROVE  \A n \in DOMAIN MapToBe : MapToBe[n].id \in DOMAIN mems
<1>1. CASE \A b \in Agents : ~(pc[b] = "back" /\ got[b] # 0)
  BY <1>1, MapUnanswered DEF Held, Known
<1>2. ASSUME NEW a \in Agents, pc[a] = "back", got[a] # 0
      PROVE  \A n \in DOMAIN MapToBe : MapToBe[n].id \in DOMAIN mems
  <2>1. MapToBe = Saved(held[a], req[a], target[a], got[a])
    BY <1>2, MapAnswered DEF Held, Single, Waiting
  <2>2. /\ held[a] \in Seq(SyncRecord) /\ req[a] \in Request
        /\ req[a].call # "remember" => req[a].at \in DOMAIN held[a]
    BY <1>2 DEF Types, TypeOK, Posed, Waiting
  <2>3. SUFFICES ASSUME NEW n \in DOMAIN Saved(held[a], req[a], target[a], got[a])
                 PROVE  Saved(held[a], req[a], target[a], got[a])[n].id \in DOMAIN mems
    BY <2>1
  <2>4. \/ \E k \in DOMAIN held[a] : Saved(held[a], req[a], target[a], got[a])[n] = held[a][k]
        \/ Saved(held[a], req[a], target[a], got[a])[n]
             = Record(target[a], req[a].entry, got[a])
    BY <2>2, SavedHas
  <2> QED  BY <1>2, <2>4, RecordIs DEF Held, Known
<1> QED  BY <1>1, <1>2

LEMMA TypesLine ==
  ASSUME Types, NEW a \in Agents, Waiting(a)
  PROVE  /\ Line(a).entry = Head(todo[a]).entry /\ Line(a).entry \in Entries
         /\ Line(a).target = target[a]
         /\ req[a].call # "remember" => Line(a).id = req[a].id /\ req[a].id \in Nat
<1>1. /\ todo[a] \in Seq(Change1) /\ todo[a] # <<>> /\ req[a] \in Request
  BY DEF Types, TypeOK, Posed, Waiting
<1>2. Head(todo[a]) \in Change1  BY <1>1
<1> QED  BY <1>1, <1>2, RequestKinds DEF Line, Change1, Id

LEMMA ExplainedInit == Init => Explained
<1> SUFFICES ASSUME Init PROVE Explained  OBVIOUS
<1>1. \A b \in Agents : ~(pc[b] = "back" /\ got[b] # 0)  BY DEF Init
<1>2. MapToBe = <<>> /\ mems = <<>> /\ late = {}  BY <1>1, MapUnanswered DEF Init
<1> QED  BY <1>2 DEF Explained, TrueOf

\* Steps that touch neither the map, the memories, the queue nor an answer.
LEMMA ExplainedCalm ==
  ASSUME Explained, UNCHANGED <<map, mems, likened, queue, late, lost>>,
         Sound' => Sound,
         \A a \in Agents : pc'[a] = "back" <=> pc[a] = "back",
         \A a \in Agents : pc[a] = "back" =>
           /\ req'[a] = req[a] /\ held'[a] = held[a] /\ got'[a] = got[a]
           /\ target'[a] = target[a] /\ todo'[a] = todo[a]
  PROVE  Explained'
<1>1. Answered' = Answered  BY DEF Answered
<1>2. MapToBe' = MapToBe
  <2>1. CASE Answered = {}  BY <1>1, <2>1 DEF MapToBe
  <2>2. CASE Answered # {}
    <3>1. The(Answered) \in Answered  BY <2>2 DEF The
    <3>2. pc[The(Answered)] = "back" /\ The(Answered) \in Agents
      BY <3>1 DEF Answered
    <3>3. NewMap(The(Answered))' = NewMap(The(Answered))
      BY <1>1, <3>2 DEF NewMap, Record, Fingerprint
    <3> QED  BY <1>1, <2>2, <3>3 DEF MapToBe
  <2> QED  BY <2>1, <2>2
<1>3. \A a \in Agents : Failing(a)' <=> Failing(a)  BY DEF Failing
<1>4. \A a \in Agents : Failing(a) => Line(a)' = Line(a)  BY DEF Failing, Line
<1>5. Outs' = Outs
  <2>1. ASSUME NEW i \in Nat  PROVE Named(i)' <=> Named(i)
    BY <1>3, <1>4 DEF Named
  <2> QED  BY <2>1 DEF Outs
<1>6. Lists' = Lists
  <2>1. ASSUME NEW e \in Entries  PROVE Listed(e)' <=> Listed(e)
    BY <1>3, <1>4 DEF Listed
  <2> QED  BY <2>1 DEF Lists
<1> QED  BY <1>2, <1>5, <1>6 DEF Explained

\* While no other handler waits, the queue alone tells what has gone missing.
LEMMA LinesGrow ==
  ASSUME \A a \in Agents : ~Failing(a), UNCHANGED queue, lost => lost'
  PROVE  Outs \subseteq Outs' /\ Lists \subseteq Lists'
<1>1. \A i \in Nat : Named(i) => Named(i)'  BY DEF Named
<1>2. \A e \in Entries : Listed(e) => Listed(e)'  BY DEF Listed
<1> QED  BY <1>1, <1>2 DEF Outs, Lists

LEMMA ToldMore ==
  ASSUME NEW r, NEW outs, NEW lists, Told(r, outs, lists),
         NEW outs2, NEW lists2, outs \subseteq outs2, lists \subseteq lists2
  PROVE  Told(r, outs2, lists2)
BY DEF Told

LEMMA ExplainedServe ==
  ASSUME Types, Held, Explained, NEW a \in Agents, Serve(a)
  PROVE  Explained'
<1>1. SUFFICES ASSUME Sound'
               PROVE  /\ TrueOf(MapToBe, mems, likened, Outs, Lists)'
                      /\ \A r \in late' : Told(r, Outs', Lists')
  BY DEF Explained
<1> DEFINE r == req[a]
           t == target[a]
<1>2. PICK id \in Nat : Answer(a, id)
  <2>1. mems \in Seq(Memory)  BY DEF Types, TypeOK, Memory
  <2>2. Ids \subseteq Nat  BY <2>1 DEF Ids
  <2> QED  BY <2>2, ServeCases
<1>3. /\ UNCHANGED <<map, queue, target, todo, held, req, mixed, broken, spilled>>
      /\ pc' = [pc EXCEPT ![a] = "back"] /\ got' = [got EXCEPT ![a] = id]
      /\ pc[a] = "sent"
  BY <1>2 DEF Answer, disk, Serve
<1>4. /\ pc'[a] = "back" /\ got'[a] = id
      /\ \A b \in Agents \ {a} : pc'[b] = pc[b] /\ got'[b] = got[b]
  BY <1>3 DEF Types, TypeOK
<1>5. lost => lost'  BY ServeCases
<1>6. Sound /\ ~mixed  BY <1>1, <1>3, <1>5 DEF Sound
<1>7. /\ \A b \in Agents : Waiting(b) => b = a
      /\ \A b \in Agents : Waiting(b)' => b = a
      /\ held[a] = map
  BY <1>3, <1>4, <1>6 DEF Held, Single, Waiting
<1>8. MapToBe = map
  BY <1>3, <1>7, MapUnanswered DEF Waiting
<1>9. Outs \subseteq Outs' /\ Lists \subseteq Lists'
  <2>1. \A b \in Agents : ~Failing(b)  BY <1>3, <1>7 DEF Failing, Waiting
  <2> QED  BY <1>3, <1>5, <2>1, LinesGrow
<1>10. /\ TrueOf(map, mems, likened, Outs, Lists) /\ \A q \in late : Told(q, Outs, Lists)
       /\ mems \in Seq(Memory) /\ map \in Seq(SyncRecord) /\ r \in Request /\ t \in Targets
       /\ \A n \in DOMAIN map : map[n].id \in DOMAIN mems
  BY <1>3, <1>6, <1>8 DEF Explained, Types, TypeOK, Memory, Posed, Waiting, Held, Known
<1>11. /\ TrueOf(map, mems, likened, Outs', Lists') /\ \A q \in late : Told(q, Outs', Lists')
  BY <1>9, <1>10, TrueMore, ToldMore
<1>12. ASSUME id = 0, lost'  PROVE Told(r, Outs', Lists')
  <2>1. Failing(a)'  BY <1>4, <1>12 DEF Failing
  <2>2. Line(a)' = Line(a)  BY <1>3 DEF Line
  <2>3. /\ Line(a).entry = Head(todo[a]).entry /\ Line(a).entry \in Entries
        /\ r.call # "remember" => Line(a).id = r.id /\ r.id \in Nat
    BY <1>3, TypesLine DEF Waiting
  <2>4. r.call = "remember" => r.entry = Line(a).entry
    BY <1>3, <2>3 DEF Held, Asked, Waiting
  <2>5. CASE r.call = "remember"
    <3>1. PICK e \in Entries : e = Line(a).entry  BY <2>3
    <3>2. Listed(e)'  BY <2>1, <2>2, <3>1 DEF Listed
    <3>3. e \in Lists'  BY <1>12, <3>2 DEF Lists
    <3> QED  BY <2>4, <2>5, <3>1, <3>3 DEF Told
  <2>6. CASE r.call # "remember"
    <3>1. PICK i \in Nat : i = r.id /\ i = Line(a).id  BY <2>3, <2>6
    <3>2. Named(i)'  BY <2>1, <2>2, <3>1 DEF Named
    <3>3. i \in Outs'  BY <1>12, <3>2 DEF Outs
    <3> QED  BY <2>6, <3>1, <3>3 DEF Told
  <2> QED  BY <2>5, <2>6
<1>13. id = 0 => MapToBe' = map
  BY <1>3, <1>4, <1>7, MapUnansweredNext DEF Waiting
<1>14. CASE \E j \in Ids : Perform(r, j) /\ Answer(a, j) /\ UNCHANGED <<late, refused, lost>>
  <2>1. PICK j \in Ids : Perform(r, j) /\ Answer(a, j) /\ UNCHANGED <<late, refused, lost>>
    BY <1>14
  <2>2. j = id /\ id # 0  BY <1>4, <2>1 DEF Answer, Types, TypeOK, Ids
  <2>3. MapToBe' = Saved(map, r, t, id)
    <3>1. MapToBe' = Saved(held'[a], req'[a], target'[a], got'[a])
      BY <1>4, <1>7, <2>2, MapAnsweredNext
    <3> QED  BY <1>3, <1>4, <1>7, <3>1
  <2>4. Effect(r, id, mems, mems', likened') /\ (likened => likened')
    BY <1>10, <2>1, <2>2, PerformHasEffect
  <2>5. /\ r.call # "remember" => r.at \in DOMAIN map /\ r.id = map[r.at].id
        /\ r.call # "forget" => r.of = t
        /\ r.call = "remember" => \A n \in DOMAIN map : map[n].fp # Fingerprint(t, r.entry)
        /\ FpOf(map)
    BY <1>3, <1>7 DEF Held, Known, Asked, Marked, Types, Posed, Waiting
  <2> HIDE DEF r, t
  <2>6. TrueOf(Saved(map, r, t, id), mems', likened', Outs', Lists')
    BY <1>10, <1>11, <2>4, <2>5, TrueAnswered
  <2> QED  BY <1>11, <2>1, <2>3, <2>6
<1>15. CASE refused' = TRUE /\ Answer(a, 0) /\ UNCHANGED <<mems, likened, late, lost>>
  <2>1. id = 0  BY <1>4, <1>15 DEF Answer, Types, TypeOK
  <2> QED  BY <1>11, <1>13, <1>15, <2>1
<1>16. CASE /\ lost' = TRUE /\ Answer(a, 0) /\ UNCHANGED <<late, refused>>
            /\ \E j \in Ids : Perform(r, j)
  <2>1. id = 0  BY <1>4, <1>16 DEF Answer, Types, TypeOK
  <2>2. PICK j \in Ids : Perform(r, j)  BY <1>16
  <2>3. Effect(r, j, mems, mems', likened') /\ (likened => likened')
    BY <1>10, <2>2, PerformHasEffect
  <2>4. Told(r, Outs', Lists')  BY <1>12, <1>16, <2>1
  <2> HIDE DEF r
  <2>5. TrueOf(map, mems', likened', Outs', Lists')
    BY <1>10, <1>11, <2>3, <2>4, TrueTold
  <2> QED  BY <1>11, <1>13, <1>16, <2>1, <2>5
<1>17. CASE /\ lost' = TRUE /\ Answer(a, 0) /\ UNCHANGED <<mems, likened, refused>>
            /\ late' = late \cup {r}
  <2>1. id = 0  BY <1>4, <1>17 DEF Answer, Types, TypeOK
  <2>2. Told(r, Outs', Lists')  BY <1>12, <1>17, <2>1
  <2> QED  BY <1>11, <1>13, <1>17, <2>1, <2>2
<1> QED  BY <1>14, <1>15, <1>16, <1>17, ServeCases

LEMMA ExplainedServeLate ==
  ASSUME Types, Held, Explained, NEW r \in late, ServeLate(r)
  PROVE  Explained'
<1>1. SUFFICES ASSUME Sound'
               PROVE  /\ TrueOf(MapToBe, mems, likened, Outs, Lists)'
                      /\ \A q \in late' : Told(q, Outs', Lists')
  BY DEF Explained
<1>2. UNCHANGED <<map, queue, handler, history>> /\ late' \subseteq late
  BY DEF ServeLate, disk
<1>3. Sound  BY <1>1, <1>2 DEF Sound, history
<1>4. MapToBe' = MapToBe
  BY <1>2 DEF MapToBe, Answered, NewMap, Record, Fingerprint, handler
<1>5. Outs' = Outs /\ Lists' = Lists
  BY <1>2 DEF Outs, Lists, Named, Listed, Failing, Line, handler, history
<1>6. mems \in Seq(Memory) /\ r \in Request  BY DEF Types, TypeOK, Memory
<1>7. PICK id \in Ids : Perform(r, id)  BY DEF ServeLate
<1>8. Effect(r, id, mems, mems', likened') /\ (likened => likened')
  BY <1>6, <1>7, PerformHasEffect
<1>9. TrueOf(MapToBe, mems, likened, Outs, Lists) /\ \A q \in late : Told(q, Outs, Lists)
  BY <1>3 DEF Explained
<1>10. \A n \in DOMAIN MapToBe : MapToBe[n].id \in DOMAIN mems
  BY <1>3, MapToBeKnown DEF Sound
<1>11. TrueOf(MapToBe, mems', likened', Outs, Lists)
  BY <1>6, <1>8, <1>9, <1>10, TrueTold
<1> QED  BY <1>2, <1>4, <1>5, <1>9, <1>11

LEMMA ExplainedFinish ==
  ASSUME Types, Held, Explained, NEW a \in Agents, Finish(a)
  PROVE  Explained'
<1>1. SUFFICES ASSUME Sound'
               PROVE  /\ TrueOf(MapToBe, mems, likened, Outs, Lists)'
                      /\ \A q \in late' : Told(q, Outs', Lists')
  BY DEF Explained
<1>2. /\ map' = NewMap(a) /\ pc[a] = "back" /\ got[a] # 0
      /\ UNCHANGED <<queue, mems, likened, late, history>>
      /\ pc' = [pc EXCEPT ![a] = "pick"]
  BY DEF Finish, Settle
<1>3. Sound /\ ~mixed  BY <1>1, <1>2 DEF Sound, history
<1>4. /\ \A b \in Agents : Waiting(b) => b = a
      /\ \A b \in Agents : ~Waiting(b)'
  BY <1>2, <1>3 DEF Held, Single, Waiting, Types, TypeOK
<1>5. MapToBe = NewMap(a)
  BY <1>2, <1>4, MapAnswered, SavedIs
<1>6. MapToBe' = map'  BY <1>4, MapUnansweredNext DEF Waiting
<1>7. Outs \subseteq Outs' /\ Lists \subseteq Lists'
  <2>1. \A b \in Agents : ~Failing(b)  BY <1>2, <1>4 DEF Failing, Waiting
  <2> QED  BY <1>2, <2>1, LinesGrow DEF history
<1>8. TrueOf(MapToBe, mems, likened, Outs, Lists) /\ \A q \in late : Told(q, Outs, Lists)
  BY <1>3 DEF Explained
<1>9. TrueOf(MapToBe, mems, likened, Outs', Lists') /\ \A q \in late : Told(q, Outs', Lists')
  BY <1>7, <1>8, TrueMore, ToldMore
<1> QED  BY <1>2, <1>5, <1>6, <1>9

LEMMA ExplainedFinishFailed ==
  ASSUME Types, Held, Explained, NEW a \in Agents, FinishFailed(a)
  PROVE  Explained'
<1>1. SUFFICES ASSUME Sound'
               PROVE  /\ TrueOf(MapToBe, mems, likened, Outs, Lists)'
                      /\ \A q \in late' : Told(q, Outs', Lists')
  BY DEF Explained
<1>2. /\ pc[a] = "back" /\ got[a] = 0
      /\ UNCHANGED <<map, mems, likened, late, lost, broken, mixed>>
      /\ pc' = [pc EXCEPT ![a] = "pick"]
      /\ queue' = Queued(Line(a)) /\ spilled' = (spilled \/ Len(queue) >= QueueLimit)
  BY DEF FinishFailed, Settle
<1>3. Sound /\ ~mixed  BY <1>1, <1>2 DEF Sound
<1>4. /\ \A b \in Agents : Waiting(b) => b = a
      /\ \A b \in Agents : ~Waiting(b)'
  BY <1>2, <1>3 DEF Held, Single, Waiting, Types, TypeOK
<1>5. MapToBe = map /\ MapToBe' = map'
  BY <1>2, <1>4, MapUnanswered, MapUnansweredNext DEF Waiting
<1>6. Outs \subseteq Outs' /\ Lists \subseteq Lists'
  <2>1. CASE ~lost  BY <2>1 DEF Outs, Lists
  <2>2. CASE lost
    <3>1. ~(Len(queue) >= QueueLimit)  BY <1>1, <1>2, <2>2 DEF Sound
    <3>2. queue \in Seq(QueueLine) /\ Len(queue) <= QueueLimit
      BY DEF Types, TypeOK, QueueLine
    <3>3. Line(a) \in QueueLine  BY <1>2, LineTyped DEF Types
    <3>4. queue' = Append(queue, Line(a))  BY <1>2, <3>1, <3>2, <3>3, QueuedTyped
    <3> HIDE DEF Line
    <3>5. /\ \A n \in DOMAIN queue : n \in DOMAIN queue' /\ queue'[n] = queue[n]
          /\ \E n \in DOMAIN queue' : queue'[n] = Line(a)
      <4>1. /\ DOMAIN queue = 1..Len(queue) /\ DOMAIN queue' = 1..(Len(queue) + 1)
            /\ Len(queue) \in Nat /\ queue'[Len(queue) + 1] = Line(a)
            /\ \A n \in 1..Len(queue) : queue'[n] = queue[n]
        BY <3>2, <3>4
      <4> QED  BY <4>1
    <3>6. \A b \in Agents : Failing(b) => b = a  BY <1>4 DEF Failing, Waiting
    <3>7. \A i \in Nat : Named(i) => Named(i)'  BY <3>5, <3>6 DEF Named
    <3>8. \A e \in Entries : Listed(e) => Listed(e)'  BY <3>5, <3>6 DEF Listed
    <3> QED  BY <1>2, <3>7, <3>8 DEF Outs, Lists
  <2> QED  BY <2>1, <2>2
<1>7. TrueOf(MapToBe, mems, likened, Outs, Lists) /\ \A q \in late : Told(q, Outs, Lists)
  BY <1>3 DEF Explained
<1>8. TrueOf(MapToBe, mems, likened, Outs', Lists') /\ \A q \in late : Told(q, Outs', Lists')
  BY <1>6, <1>7, TrueMore, ToldMore
<1> QED  BY <1>2, <1>5, <1>8

LEMMA ExplainedNext ==
  ASSUME Types, Held, Explained, [Next]_vars
  PROVE  Explained'
<1>1. ASSUME NEW t \in Targets, NEW entries \in SUBSET MayHold[t], Edit(t, entries)
      PROVE  Explained'
  BY <1>1, ExplainedCalm DEF Edit, handler, Sound
<1>2. ASSUME NEW a \in Agents, BeforeAgentStart(a)  PROVE Explained'
  <2>1. \A b \in Agents : pc'[b] = "back" <=> pc[b] = "back"
    BY <1>2 DEF BeforeAgentStart, Types, TypeOK
  <2> QED  BY <1>2, <2>1, ExplainedCalm DEF BeforeAgentStart, disk, Sound
<1>3. ASSUME NEW a \in Agents, AgentEnd(a)  PROVE Explained'
  <2>1. \A b \in Agents : /\ pc'[b] = "back" <=> pc[b] = "back"
                          /\ pc[b] = "back" => b # a
    BY <1>3 DEF AgentEnd, Types, TypeOK
  <2>2. \A b \in Agents \ {a} : target'[b] = target[b] /\ todo'[b] = todo[b]
    BY <1>3, CompareTyped DEF AgentEnd, Types, Targets
  <2> QED  BY <1>3, <2>1, <2>2, ExplainedCalm DEF AgentEnd, disk, Sound
<1>4. ASSUME NEW a \in Agents, NextFile(a)  PROVE Explained'
  <2>1. pc[a] = "pick"  BY <1>4 DEF NextFile
  <2>2. /\ pc'[a] # "back"
        /\ \A b \in Agents \ {a} :
             pc'[b] = pc[b] /\ target'[b] = target[b] /\ todo'[b] = todo[b]
    <3>1. CASE target[a] = "memory"
      <4>1. Compare(a, "user") /\ UNCHANGED pc  BY <1>4, <3>1 DEF NextFile
      <4> QED  BY <2>1, <4>1, CompareTyped DEF Types, Targets
    <3>2. CASE target[a] # "memory"
      BY <1>4, <3>2 DEF NextFile, Types, TypeOK
    <3> QED  BY <3>1, <3>2
  <2>3. UNCHANGED <<map, mems, likened, queue, late, held, req, got, lost, broken,
                    mixed, spilled>>
    BY <1>4 DEF NextFile, disk
  <2> QED  BY <2>1, <2>2, <2>3, ExplainedCalm DEF Sound
<1>5. ASSUME NEW a \in Agents, SyncAdd(a) \/ SyncRemove(a) \/ SyncReplace(a)
      PROVE  Explained'
  <2>1. pc[a] = "pick" /\ Otherwise  BY <1>5, SyncCases
  <2>2. CASE Skip(a)
    <3>1. \A b \in Agents : pc[b] = "back" => todo'[b] = todo[b]
      BY <2>1, <2>2 DEF Skip, Types, TypeOK
    <3> QED  BY <2>1, <2>2, <3>1, ExplainedCalm DEF Skip, Otherwise, disk, Sound
  <2>3. ASSUME NEW r \in Request, Send(a, r)  PROVE Explained'
    <3>1. \A b \in Agents :
            /\ pc'[b] = "back" <=> pc[b] = "back"
            /\ pc[b] = "back" => held'[b] = held[b] /\ req'[b] = req[b]
      BY <2>1, <2>3 DEF Send, Types, TypeOK
    <3> QED  BY <2>1, <2>3, <3>1, ExplainedCalm DEF Send, Otherwise, disk, Sound
  <2> QED  BY <1>5, <2>2, <2>3, SyncCases
<1>6. ASSUME NEW a \in Agents, Throw(a)  PROVE Explained'
  BY <1>6 DEF Throw, Explained, Sound
<1>7. ASSUME NEW p \in Processes, Crash(p)  PROVE Explained'
  BY <1>7 DEF Crash, Explained, Sound
<1>8. CASE UNCHANGED vars
  BY <1>8, ExplainedCalm DEF vars, disk, handler, history, Sound
<1> QED
  BY <1>1, <1>2, <1>3, <1>4, <1>5, <1>6, <1>7, <1>8, ExplainedServe,
     ExplainedServeLate, ExplainedFinish, ExplainedFinishFailed DEF Next, Work

\* What the invariant says in the words of the two properties.
LEMMA ExplainedMeansTrue ==
  ASSUME Types, Held, Explained
  PROVE  MapIsTrue
<1> SUFFICES ASSUME ~lost, ~broken, ~mixed
             PROVE  /\ \A i \in DOMAIN mems : mems[i].active =>
                         \E n \in DOMAIN MapToBe : MapToBe[n].id = i
                    /\ ~likened =>
                         /\ \A n \in DOMAIN MapToBe :
                              \E i \in DOMAIN mems : Tells(MapToBe[n], i)
                         /\ \A n, k \in DOMAIN MapToBe :
                              MapToBe[n].id = MapToBe[k].id => n = k
  BY DEF MapIsTrue
<1>1. TrueOf(MapToBe, mems, likened, Outs, Lists) /\ Outs = {} /\ Lists = {}
  BY DEF Explained, Sound, Outs, Lists
<1>2. \A n \in DOMAIN MapToBe : MapToBe[n].id \in DOMAIN mems
  BY MapToBeKnown
<1>3. ~likened => \A n \in DOMAIN MapToBe : Tells(MapToBe[n], MapToBe[n].id)
  BY <1>1 DEF TrueOf, Fits, Tells
<1> QED  BY <1>1, <1>2, <1>3 DEF TrueOf

LEMMA ExplainedMeansReported ==
  ASSUME Types, Held, Explained
  PROVE  QueueExplains
<1> SUFFICES ASSUME ~broken, ~mixed, ~spilled
             PROVE  /\ \A i \in DOMAIN mems : mems[i].active =>
                         (\E n \in DOMAIN MapToBe : MapToBe[n].id = i)
                           \/ Reports(mems[i].body, i)
                    /\ ~likened =>
                         \A n \in DOMAIN MapToBe :
                           (\E i \in DOMAIN mems : Tells(MapToBe[n], i))
                             \/ Reports(MapToBe[n].entry, MapToBe[n].id)
  BY DEF QueueExplains
<1>1. TrueOf(MapToBe, mems, likened, Outs, Lists)  BY DEF Explained, Sound
<1>2. mems \in Seq(Memory)  BY DEF Types, TypeOK, Memory
<1>3. DOMAIN mems = 1..Len(mems) /\ Len(mems) \in Nat  BY <1>2
<1>4. \A n \in DOMAIN MapToBe : MapToBe[n].id \in DOMAIN mems
  BY MapToBeKnown
<1>5. \A e, i : i \in Outs /\ i # 0 => Reports(e, i)
  BY DEF Outs, Named, Failing, Reports
<1>6. \A e, i : e \in Lists => Reports(e, i)
  BY DEF Lists, Listed, Failing, Reports
<1>7. ASSUME ~likened, NEW n \in DOMAIN MapToBe
      PROVE  \/ \E i \in DOMAIN mems : Tells(MapToBe[n], i)
             \/ Reports(MapToBe[n].entry, MapToBe[n].id)
  <2>1. MapToBe[n].id \in DOMAIN mems /\ MapToBe[n].id # 0  BY <1>3, <1>4
  <2>2. CASE Fits(MapToBe[n], mems)
    <3>1. Tells(MapToBe[n], MapToBe[n].id)  BY <2>2 DEF Fits, Tells
    <3> QED  BY <2>1, <3>1
  <2>3. CASE MapToBe[n].id \in Outs  BY <1>5, <2>1, <2>3
  <2> QED  BY <1>1, <1>7, <2>2, <2>3 DEF TrueOf
<1>8. \A i \in DOMAIN mems : i # 0  BY <1>3
<1>9. \A i \in DOMAIN mems : mems[i].active =>
        (\E n \in DOMAIN MapToBe : MapToBe[n].id = i) \/ Reports(mems[i].body, i)
  BY <1>1, <1>5, <1>6, <1>8 DEF TrueOf
<1> QED  BY <1>7, <1>9

MapInv == Types /\ Held /\ Explained

LEMMA MapInvariant == Spec => []MapInv
<1>1. Init => MapInv
  BY TypesInit, HeldInit, ExplainedInit DEF MapInv
<1>2. MapInv /\ [Next]_vars => MapInv'
  BY TypesNext, HeldNext, ExplainedNext DEF MapInv
<1> QED  BY <1>1, <1>2, PTL DEF Spec

\* For any entries, agents and processes, however calls fail and files change:
\* as long as no answer goes missing, no handler is cut short and none mix, every
\* memory has a record, and the records are true unless AMM has taken an entry
\* for another one.
THEOREM MapTrue == Spec => []MapIsTrue
<1>1. MapInv => MapIsTrue  BY ExplainedMeansTrue DEF MapInv
<1> QED  BY <1>1, MapInvariant, PTL

\* And when answers do go missing, and are served late, the queue names the
\* memory or the entry over which the map and AMM have parted, with the same
\* exception: of an entry taken for another one no line tells.
THEOREM PartingsQueued == Spec => []QueueExplains
<1>1. MapInv => QueueExplains  BY ExplainedMeansReported DEF MapInv
<1> QED  BY <1>1, MapInvariant, PTL

-----------------------------------------------------------------------------
(* Files, snapshots and what is owed.                                      *)

\* What a comparison plans: the entries gone are removed or replaced, the new
\* ones added or put in their place.
PlanFor(T, removed, added) ==
  /\ T \in Seq(Change1)
  /\ removed = {} /\ added = {} => T = <<>>
  /\ \A i \in DOMAIN T :
       IF T[i].do = "remove" THEN T[i].entry \in removed ELSE T[i].entry \in added
  /\ \A e \in added : \E i \in DOMAIN T : T[i].do # "remove" /\ T[i].entry = e
  /\ \A e \in removed : \E i \in DOMAIN T :
       T[i].do = "replace" \/ (T[i].do = "remove" /\ T[i].entry = e)
  /\ \A i, j \in DOMAIN T :
       T[i].do # "remove" /\ T[j].do # "remove" /\ T[i].entry = T[j].entry => i = j
  /\ ~(Cardinality(removed) > 1 /\ added # {}) =>
       \A i \in DOMAIN T : T[i].do = "replace" => i = 1

LEMMA PlanIsFor ==
  ASSUME NEW removed \in SUBSET Entries, NEW added \in SUBSET Entries,
         NEW gone \in SetToSeqs(removed), NEW fresh \in SetToSeqs(added)
  PROVE  PlanFor(Plan(gone, fresh), removed, added)
<1> DEFINE m == Len(gone)
           n == Len(fresh)
           T == Plan(gone, fresh)
<1>1. IsFiniteSet(removed) /\ IsFiniteSet(added)
  BY ConstantsAssumption, FS_Subset
<1>2. /\ gone \in Seq(removed) /\ fresh \in Seq(added)
      /\ m = Cardinality(removed) /\ n = Cardinality(added)
      /\ \A i, j \in 1..n : fresh[i] = fresh[j] => i = j
      /\ \A e \in removed : \E i \in 1..m : gone[i] = e
      /\ \A e \in added : \E i \in 1..n : fresh[i] = e
  BY <1>1, ListIs
<1>3. /\ gone \in Seq(Entries) /\ fresh \in Seq(Entries) /\ m \in Nat /\ n \in Nat
      /\ \A i \in 1..m : gone[i] \in removed
      /\ \A i \in 1..n : fresh[i] \in added
  BY <1>2
<1>4. PICK p \in Nat :
        /\ p <= m /\ p <= n /\ (p = m \/ p = n)
        /\ T \in Seq(Change1) /\ Len(T) = m + (n - p)
        /\ \A i \in 1..p : T[i] = [do |-> "replace", entry |-> fresh[i]]
        /\ \A i \in (p + 1)..m : T[i] = [do |-> "remove", entry |-> gone[i]]
        /\ \A i \in (p + 1)..n : T[(m - p) + i] = [do |-> "add", entry |-> fresh[i]]
  BY <1>3, PlanIs
<1> HIDE DEF T, m, n
<1>5. DOMAIN T = 1..(m + (n - p))  BY <1>3, <1>4
\* The three parts of the plan.
<1>6. ASSUME NEW i \in DOMAIN T
      PROVE  \/ i \in 1..p /\ T[i].do = "replace" /\ T[i].entry = fresh[i]
             \/ i \in (p + 1)..m /\ T[i].do = "remove" /\ T[i].entry = gone[i]
             \/ \E j \in (p + 1)..n :
                  i = (m - p) + j /\ T[i].do = "add" /\ T[i].entry = fresh[j]
  <2>1. CASE i \in 1..p
    <3>1. T[i] = [do |-> "replace", entry |-> fresh[i]]  BY <1>4, <2>1
    <3> QED  BY <2>1, <3>1
  <2>2. CASE i \in (p + 1)..m
    <3>1. T[i] = [do |-> "remove", entry |-> gone[i]]  BY <1>4, <2>2
    <3> QED  BY <2>2, <3>1
  <2>3. CASE i > m
    <3> DEFINE j == i - (m - p)
    <3>1. j \in (p + 1)..n /\ i = (m - p) + j  BY <1>3, <1>4, <1>5, <2>3
    <3>2. T[(m - p) + j] = [do |-> "add", entry |-> fresh[j]]  BY <1>4, <3>1
    <3> QED  BY <3>1, <3>2
  <2> QED  BY <1>3, <1>4, <1>5, <2>1, <2>2, <2>3
<1>7. removed = {} /\ added = {} => T = <<>>
  BY <1>1, <1>2, <1>3, <1>4, FS_EmptySet
<1>8. \A i \in DOMAIN T :
        IF T[i].do = "remove" THEN T[i].entry \in removed ELSE T[i].entry \in added
  <2> SUFFICES ASSUME NEW i \in DOMAIN T
               PROVE  IF T[i].do = "remove" THEN T[i].entry \in removed
                      ELSE T[i].entry \in added
    OBVIOUS
  <2>1. CASE i \in 1..p /\ T[i].do = "replace" /\ T[i].entry = fresh[i]
    <3>1. i \in 1..n  BY <1>3, <1>4, <2>1
    <3> QED  BY <1>3, <2>1, <3>1
  <2>2. CASE i \in (p + 1)..m /\ T[i].do = "remove" /\ T[i].entry = gone[i]
    <3>1. i \in 1..m  BY <1>3, <1>4, <2>2
    <3> QED  BY <1>3, <2>2, <3>1
  <2>3. ASSUME NEW j \in (p + 1)..n, T[i].do = "add", T[i].entry = fresh[j]
        PROVE  IF T[i].do = "remove" THEN T[i].entry \in removed
               ELSE T[i].entry \in added
    <3>1. j \in 1..n  BY <1>3, <1>4
    <3> QED  BY <1>3, <2>3, <3>1
  <2> QED  BY <1>6, <2>1, <2>2, <2>3
<1>9. ASSUME NEW e \in added
      PROVE  \E i \in DOMAIN T : T[i].do # "remove" /\ T[i].entry = e
  <2>1. PICK j \in 1..n : fresh[j] = e  BY <1>2
  <2>2. CASE j <= p
    <3>1. j \in 1..p /\ j \in DOMAIN T  BY <1>3, <1>4, <1>5, <2>2
    <3>2. T[j] = [do |-> "replace", entry |-> fresh[j]]  BY <1>4, <3>1
    <3> QED  BY <2>1, <3>1, <3>2
  <2>3. CASE ~(j <= p)
    <3>1. j \in (p + 1)..n /\ (m - p) + j \in DOMAIN T  BY <1>3, <1>4, <1>5, <2>3
    <3>2. T[(m - p) + j] = [do |-> "add", entry |-> fresh[j]]  BY <1>4, <3>1
    <3> QED  BY <2>1, <3>1, <3>2
  <2> QED  BY <2>2, <2>3
<1>10. ASSUME NEW e \in removed
       PROVE  \E i \in DOMAIN T :
                T[i].do = "replace" \/ (T[i].do = "remove" /\ T[i].entry = e)
  <2>1. PICK j \in 1..m : gone[j] = e  BY <1>2
  <2>2. CASE p >= 1
    <3>1. 1 \in 1..p /\ 1 \in DOMAIN T  BY <1>3, <1>4, <1>5, <2>2
    <3>2. T[1] = [do |-> "replace", entry |-> fresh[1]]  BY <1>4, <3>1
    <3> QED  BY <3>1, <3>2
  <2>3. CASE p = 0
    <3>1. j \in (p + 1)..m /\ j \in DOMAIN T  BY <1>3, <1>4, <1>5, <2>3
    <3>2. T[j] = [do |-> "remove", entry |-> gone[j]]  BY <1>4, <3>1
    <3> QED  BY <2>1, <3>1, <3>2
  <2> QED  BY <1>4, <2>2, <2>3
<1>11. ASSUME NEW i \in DOMAIN T, NEW j \in DOMAIN T,
              T[i].do # "remove", T[j].do # "remove", T[i].entry = T[j].entry
       PROVE  i = j
  <2> DEFINE at(k) == IF k <= p THEN k ELSE k - (m - p)
  <2>1. ASSUME NEW k \in DOMAIN T, T[k].do # "remove"
        PROVE  /\ at(k) \in 1..n /\ T[k].entry = fresh[at(k)]
               /\ k <= p \/ k > m
    <3>1. CASE k \in 1..p /\ T[k].entry = fresh[k]
      BY <1>3, <1>4, <3>1
    <3>2. ASSUME NEW l \in (p + 1)..n, k = (m - p) + l, T[k].entry = fresh[l]
          PROVE  at(k) \in 1..n /\ T[k].entry = fresh[at(k)] /\ (k <= p \/ k > m)
      <4>1. p \in Nat /\ p <= m /\ p <= n /\ m \in Nat /\ n \in Nat  BY <1>3, <1>4
      <4>2. k > m /\ ~(k <= p) /\ k - (m - p) = l /\ l \in 1..n
        BY ONLY <3>2, <4>1
      <4>3. at(k) = l  BY ONLY <4>2
      <4> QED  BY <3>2, <4>2, <4>3
    <3> QED  BY <1>6, <2>1, <3>1, <3>2
  <2>2. /\ at(i) \in 1..n /\ T[i].entry = fresh[at(i)] /\ (i <= p \/ i > m)
        /\ at(j) \in 1..n /\ T[j].entry = fresh[at(j)] /\ (j <= p \/ j > m)
    BY <1>11, <2>1
  <2>3. at(i) = at(j)
    <3> HIDE DEF at
    <3> QED  BY <1>2, <1>11, <2>2
  <2>4. i \in 1..(m + (n - p)) /\ j \in 1..(m + (n - p)) /\ m \in Nat /\ n \in Nat
        /\ p <= m /\ p <= n
    BY <1>3, <1>4, <1>5
  <2> QED  BY ONLY <2>2, <2>3, <2>4
<1>12. ASSUME ~(Cardinality(removed) > 1 /\ added # {}),
              NEW i \in DOMAIN T, T[i].do = "replace"
       PROVE  i = 1
  <2>1. i \in 1..p  BY <1>6, <1>12
  <2>2. added = {} => n = 0  BY <1>2, FS_EmptySet
  <2>3. p <= 1  BY <1>2, <1>3, <1>4, <1>12, <2>2
  <2> QED  BY <1>4, <2>1, <2>3
<1> QED  BY <1>4, <1>7, <1>8, <1>9, <1>10, <1>11, <1>12 DEF PlanFor, T

LEMMA CompareIs ==
  ASSUME Types, NEW a \in Agents, NEW t \in Targets, Compare(a, t)
  PROVE  /\ PlanFor(todo'[a], Snap(a)[t] \ file[t], file[t] \ Snap(a)[t])
         /\ target'[a] = t /\ now'[a] = file[t]
         /\ owed' = [owed EXCEPT ![t] = (owed[t] \cup (file[t] \ Snap(a)[t]))
                                           \ (Snap(a)[t] \ file[t])]
         /\ crossed' = (crossed \/ (Cardinality(Snap(a)[t] \ file[t]) > 1
                                      /\ file[t] \ Snap(a)[t] # {}))
         /\ \A b \in Agents \ {a} :
              target'[b] = target[b] /\ now'[b] = now[b] /\ todo'[b] = todo[b]
<1> DEFINE removed == Snap(a)[t] \ file[t]
           added == file[t] \ Snap(a)[t]
<1>1. Host[a] \in Processes  BY ConstantsAssumption
<1>2. removed \in SUBSET Entries /\ added \in SUBSET Entries
  BY <1>1 DEF Types, TypeOK, Snap
<1>3. PICK gone \in SetToSeqs(removed), fresh \in SetToSeqs(added) :
        todo' = [todo EXCEPT ![a] = Plan(gone, fresh)]
  BY DEF Compare, Snap
<1>4. todo'[a] = Plan(gone, fresh) /\ \A b \in Agents \ {a} : todo'[b] = todo[b]
  BY <1>3 DEF Types, TypeOK
<1>5. PlanFor(Plan(gone, fresh), removed, added)
  BY <1>2, <1>3, PlanIsFor
<1>6. /\ target'[a] = t /\ now'[a] = file[t]
      /\ owed' = [owed EXCEPT ![t] = (owed[t] \cup added) \ removed]
      /\ crossed' = (crossed \/ (Cardinality(removed) > 1 /\ added # {}))
      /\ \A b \in Agents \ {a} : target'[b] = target[b] /\ now'[b] = now[b]
  BY DEF Compare, Snap, Types, TypeOK
<1> QED  BY <1>4, <1>5, <1>6

\* A handler goes on with its changes, and has none but those it had.
Toils ==
  /\ UNCHANGED <<file, snap, owed, target, now, broken, astray>>
  /\ mixed => mixed'
  /\ \A a \in Agents :
       /\ (pc'[a] = "off" <=> pc[a] = "off") /\ (pc'[a] = "on" <=> pc[a] = "on")
       /\ \A i \in DOMAIN todo'[a] : \E j \in DOMAIN todo[a] :
            /\ todo'[a][i].entry = todo[a][j].entry
            /\ todo'[a][i].do = "remove" <=> todo[a][j].do = "remove"

LEMMA TailIs ==
  ASSUME NEW S, NEW s \in Seq(S), s # <<>>
  PROVE  /\ Tail(s) \in Seq(S) /\ DOMAIN s = 1..Len(s) /\ Len(s) \in Nat
         /\ \A i \in DOMAIN Tail(s) : i + 1 \in DOMAIN s /\ Tail(s)[i] = s[i + 1]
         /\ \A i \in DOMAIN s : i = 1 \/ (i - 1 \in DOMAIN Tail(s) /\ Tail(s)[i - 1] = s[i])
         /\ 1 \in DOMAIN s /\ Head(s) = s[1] /\ s[1] \in S
OBVIOUS

\* Every place of a sequence but the first is found in its tail.
LEMMA TailHas ==
  ASSUME NEW S, NEW s \in Seq(S), s # <<>>, NEW i \in DOMAIN s, i # 1
  PROVE  \E j \in DOMAIN Tail(s) : Tail(s)[j] = s[i]
<1>1. i - 1 \in DOMAIN Tail(s) /\ Tail(s)[i - 1] = s[i]  BY TailIs
<1> QED  BY <1>1

\* Where a failed replacement leaves an addition.
LEMMA InsteadIs ==
  ASSUME NEW s \in Seq(Change1), s # <<>>
  PROVE  LET T == Change("add", <<Head(s).entry>>) \o Tail(s) IN
         /\ T \in Seq(Change1) /\ DOMAIN T = DOMAIN s
         /\ T[1] = [do |-> "add", entry |-> s[1].entry]
         /\ \A i \in DOMAIN s : i = 1 \/ T[i] = s[i]
<1> DEFINE C == Change("add", <<Head(s).entry>>)
           U == Tail(s)
           T == C \o U
<1>1. /\ U \in Seq(Change1) /\ Len(s) \in Nat /\ Len(s) >= 1 /\ DOMAIN s = 1..Len(s)
      /\ Len(U) = Len(s) - 1 /\ \A i \in 1..Len(U) : U[i] = s[i + 1]
      /\ Head(s) = s[1] /\ s[1] \in Change1
  OBVIOUS
<1>2. s[1].entry \in Entries  BY <1>1 DEF Change1
<1>3. C \in Seq(Change1) /\ Len(C) = 1 /\ C[1] = [do |-> "add", entry |-> s[1].entry]
  <2> DEFINE one == <<Head(s).entry>>
  <2>1. one \in Seq(Entries) /\ Len(one) = 1 /\ one[1] = s[1].entry  BY <1>1, <1>2
  <2> HIDE DEF one
  <2>2. /\ Change("add", one) \in Seq(Change1) /\ Len(Change("add", one)) = 1
        /\ \A i \in 1..1 : Change("add", one)[i] = [do |-> "add", entry |-> one[i]]
    BY <2>1, ChangeIs
  <2>3. Change("add", one)[1] = [do |-> "add", entry |-> one[1]]  BY <2>2
  <2> QED  BY <2>1, <2>2, <2>3 DEF one
<1> HIDE DEF C, U
<1>4. /\ T \in Seq(Change1) /\ Len(T) = 1 + Len(U)
      /\ \A i \in 1..1 : T[i] = C[i]
      /\ \A i \in 1..Len(U) : T[1 + i] = U[i]
  <2>1. C \in Seq(Change1) /\ U \in Seq(Change1)  BY <1>1, <1>3
  <2>2. /\ T \in Seq(Change1) /\ Len(T) = Len(C) + Len(U)
        /\ \A i \in 1..Len(C) : T[i] = C[i]
        /\ \A i \in 1..Len(U) : T[Len(C) + i] = U[i]
    BY ONLY <2>1, JoinIs DEF T
  <2> HIDE DEF T
  <2> QED  BY <1>3, <2>2
<1> HIDE DEF T
<1>5. DOMAIN T = 1..Len(s)  BY <1>1, <1>4
<1>6. ASSUME NEW i \in 1..Len(s), i # 1  PROVE T[i] = s[i]
  <2>1. i - 1 \in 1..Len(U) /\ 1 + (i - 1) = i /\ (i - 1) + 1 = i  BY <1>1, <1>6
  <2>2. T[1 + (i - 1)] = U[i - 1] /\ U[i - 1] = s[(i - 1) + 1]  BY <1>1, <1>4, <2>1
  <2> QED  BY <2>1, <2>2
<1>7. T[1] = C[1]  BY <1>4
<1> QED  BY <1>1, <1>3, <1>4, <1>5, <1>6, <1>7 DEF T, C, U

LEMMA ToilsSync ==
  ASSUME Types, NEW a \in Agents, SyncAdd(a) \/ SyncRemove(a) \/ SyncReplace(a)
  PROVE  Toils
<1>1. pc[a] = "pick" /\ todo[a] # <<>> /\ Otherwise  BY SyncCases
<1>2. /\ UNCHANGED <<file, snap, owed, target, now, broken, astray>> /\ (mixed => mixed')
      /\ \A b \in Agents : /\ pc'[b] = "off" <=> pc[b] = "off"
                           /\ pc'[b] = "on" <=> pc[b] = "on"
      /\ \A b \in Agents \ {a} : todo'[b] = todo[b]
      /\ todo'[a] = todo[a] \/ todo'[a] = Tail(todo[a])
  BY <1>1, SyncCases DEF Otherwise, Send, Skip, disk, Types, TypeOK
<1>3. todo[a] \in Seq(Change1)  BY DEF Types, TypeOK
<1>4. \A i \in DOMAIN todo'[a] : \E j \in DOMAIN todo[a] : todo'[a][i] = todo[a][j]
  <2>1. CASE todo'[a] = Tail(todo[a])  BY <1>1, <1>3, <2>1, TailIs
  <2>2. CASE todo'[a] = todo[a]  BY <2>2
  <2> QED  BY <1>2, <2>1, <2>2
<1> QED  BY <1>2, <1>4 DEF Toils

LEMMA ToilsServe ==
  ASSUME Types, NEW a \in Agents, Serve(a)
  PROVE  Toils
<1>1. pc[a] = "sent" /\ \E id \in Nat : Answer(a, id)
  <2>1. \A id \in Ids : id \in Nat  BY DEF Ids, Types, TypeOK
  <2> QED  BY <2>1, ServeCases
<1>2. \A b \in Agents : /\ pc'[b] = "off" <=> pc[b] = "off"
                        /\ pc'[b] = "on" <=> pc[b] = "on"
  BY <1>1 DEF Answer, Types, TypeOK
<1> QED  BY <1>1, <1>2 DEF Toils, Answer, disk

LEMMA ToilsFinish ==
  ASSUME Types, Meant, NEW a \in Agents, Finish(a) \/ FinishFailed(a)
  PROVE  Toils
<1>1. /\ pc[a] = "back" /\ pc' = [pc EXCEPT ![a] = "pick"]
      /\ UNCHANGED <<file, snap, owed, target, now, broken, astray, mixed>>
      /\ \A b \in Agents \ {a} : todo'[b] = todo[b]
  BY DEF Finish, FinishFailed, Settle, history, Types, TypeOK
<1>2. \A b \in Agents : /\ pc'[b] = "off" <=> pc[b] = "off"
                        /\ pc'[b] = "on" <=> pc[b] = "on"
  BY <1>1 DEF Types, TypeOK
<1>3. todo[a] \in Seq(Change1) /\ todo[a] # <<>>
  BY <1>1 DEF Types, TypeOK, Posed, Waiting
<1>4. ASSUME NEW i \in DOMAIN todo'[a]
      PROVE  \E j \in DOMAIN todo[a] :
               /\ todo'[a][i].entry = todo[a][j].entry
               /\ todo'[a][i].do = "remove" <=> todo[a][j].do = "remove"
  <2>1. CASE todo'[a] = Tail(todo[a])  BY <1>3, <2>1, TailIs
  <2>2. CASE /\ req[a].call = "update"
             /\ todo'[a] = Change("add", <<Head(todo[a]).entry>>) \o Tail(todo[a])
    <3>1. i \in DOMAIN todo[a]  BY <1>3, <2>2, InsteadIs
    <3>2. CASE i = 1
      <4>1. Head(todo[a]).do = "replace" /\ Head(todo[a]) = todo[a][1]
        BY <1>1, <1>3, <2>2, TailIs DEF Meant, Waiting
      <4>2. todo'[a][i] = [do |-> "add", entry |-> todo[a][1].entry]
        BY <1>3, <2>2, <3>2, InsteadIs
      <4> QED  BY <3>1, <3>2, <4>1, <4>2
    <3>3. CASE i # 1
      <4>1. \A j \in DOMAIN todo[a] : j = 1 \/
              (Change("add", <<Head(todo[a]).entry>>) \o Tail(todo[a]))[j] = todo[a][j]
        BY ONLY <1>3, InsteadIs
      <4>2. todo'[a][i] = todo[a][i]  BY <2>2, <3>1, <3>3, <4>1
      <4> QED  BY <3>1, <4>2
    <3> QED  BY <3>2, <3>3
  <2>3. CASE Finish(a)
    <3>1. todo'[a] = Tail(todo[a])  BY <2>3 DEF Finish, Types, TypeOK
    <3> QED  BY <2>1, <3>1
  <2>4. CASE FinishFailed(a)
    <3>1. \/ todo'[a] = Tail(todo[a])
          \/ /\ req[a].call = "update"
             /\ todo'[a] = Change("add", <<Head(todo[a]).entry>>) \o Tail(todo[a])
      BY <2>4 DEF FinishFailed, Types, TypeOK
    <3> QED  BY <2>1, <2>2, <3>1
  <2> QED  BY <2>3, <2>4
<1> QED  BY <1>1, <1>2, <1>4 DEF Toils

LEMMA ToilsServeLate ==
  ASSUME NEW r \in late, ServeLate(r)
  PROVE  Toils
BY DEF ServeLate, disk, handler, history, Toils

\* What is known of files and snapshots stands while handlers go on.
LEMMA FiledToils ==
  ASSUME Types, Types', Filed, Toils, Steady'
  PROVE  Steady /\ (\A t \in Targets : OneBehind(t)' /\ OwedIsSeen(t)') /\ TodoIsRight'
<1>1. Steady  BY DEF Steady, Toils
<1>2. \A a \in Agents : Handling(a)' <=> Handling(a)
  BY DEF Toils, Handling, Types, TypeOK
<1>3. \A a \in Agents : Snap(a)' = Snap(a)  BY DEF Toils, Snap
<1>4. \A a \in Agents, t \in Targets : Uncompared(a, t)' <=> Uncompared(a, t)
  BY <1>2 DEF Toils, Uncompared
<1>5. \A a \in Agents : todo'[a] # <<>> => todo[a] # <<>>
  <2> SUFFICES ASSUME NEW a \in Agents, todo'[a] # <<>>, todo[a] = <<>>  PROVE FALSE
    OBVIOUS
  <2>1. todo'[a] \in Seq(Change1)  BY DEF Types, TypeOK
  <2>2. 1 \in DOMAIN todo'[a]  BY <2>1
  <2> QED  BY <2>2 DEF Toils
<1>6. \A a \in Agents, t \in Targets : Busy(a, t)' => Busy(a, t)
  BY <1>2, <1>5 DEF Toils, Busy
<1>7. ASSUME NEW t \in Targets  PROVE OneBehind(t)' /\ OwedIsSeen(t)'
  <2>1. OneBehind(t) /\ OwedIsSeen(t) /\ UNCHANGED <<file, owed>>
    BY <1>1 DEF Filed, Toils
  <2> QED  BY <1>3, <1>4, <1>6, <2>1 DEF OneBehind, OwedIsSeen
<1>8. TodoIsRight'
  <2>1. TodoIsRight /\ UNCHANGED <<file, owed, target, now>>  BY <1>1 DEF Filed, Toils
  <2> QED  BY <1>2, <2>1 DEF TodoIsRight, Toils
<1> QED  BY <1>1, <1>7, <1>8

\* Steps by which no handler starts to wait.
LEMMA MeantCalm ==
  ASSUME \A a \in Agents : pc'[a] \in {"sent", "back"} =>
           /\ pc[a] \in {"sent", "back"} /\ req'[a] = req[a] /\ held'[a] = held[a]
           /\ target'[a] = target[a] /\ todo'[a] = todo[a]
  PROVE  /\ Meant => Meant'
         /\ Aimed /\ UNCHANGED file => Aimed'
<1>1. ASSUME Meant  PROVE Meant'  BY <1>1 DEF Meant, Waiting
<1>2. ASSUME Aimed, UNCHANGED file  PROVE Aimed'  BY <1>2 DEF Aimed, Waiting
<1> QED  BY <1>1, <1>2

LEMMA MeantSync ==
  ASSUME Types, Meant, NEW a \in Agents, SyncAdd(a) \/ SyncRemove(a) \/ SyncReplace(a)
  PROVE  /\ Meant'
         /\ Aimed /\ TodoIsRight => Aimed'
<1>1. pc[a] = "pick" /\ todo[a] # <<>> /\ Otherwise  BY SyncCases
<1>2. CASE Skip(a)
  <2>1. \A b \in Agents : pc'[b] \in {"sent", "back"} => todo'[b] = todo[b]
    BY <1>1, <1>2 DEF Skip, Types, TypeOK
  <2> QED  BY <1>1, <1>2, <2>1, MeantCalm DEF Skip, Otherwise, disk
<1>3. ASSUME NEW r \in Request, Send(a, r),
             \/ r.call = "remember" /\ Head(todo[a]).do # "remove"
             \/ /\ r.call = "update" /\ Head(todo[a]).do = "replace"
                /\ r.at \in Disappeared(target[a])
             \/ /\ r.call = "forget" /\ Head(todo[a]).do = "remove"
                /\ r.at \in Matches(target[a], Head(todo[a]).entry)
      PROVE  Meant' /\ (Aimed /\ TodoIsRight => Aimed')
  <2>1. /\ held'[a] = map /\ req'[a] = r /\ UNCHANGED <<file, target, todo>>
        /\ \A b \in Agents \ {a} : held'[b] = held[b] /\ req'[b] = req[b] /\ pc'[b] = pc[b]
    BY <1>1, <1>3 DEF Send, Otherwise, disk, Types, TypeOK
  <2>2. r.call = "forget" => map[r.at].entry = Head(todo[a]).entry
    BY <1>3 DEF Matches
  <2>3. Meant'  BY <1>3, <2>1, <2>2 DEF Meant, Waiting
  <2>4. ASSUME Aimed, TodoIsRight  PROVE Aimed'
    <3>1. todo[a] \in Seq(Change1)  BY DEF Types, TypeOK
    <3>2. 1 \in DOMAIN todo[a] /\ Head(todo[a]) = todo[a][1]  BY <1>1, <3>1, TailIs
    <3>3. Head(todo[a]).do = "remove" => Head(todo[a]).entry \notin file[target[a]]
      BY <1>1, <2>4, <3>2 DEF TodoIsRight, Handling
    <3>4. r.call # "remember" =>
            map[r.at].target = target[a] /\ map[r.at].entry \notin file[target[a]]
      BY <1>3, <3>3 DEF Matches, Disappeared
    <3> QED  BY <2>1, <2>4, <3>4 DEF Aimed, Waiting
  <2> QED  BY <2>3, <2>4
<1> QED  BY <1>2, <1>3, SyncCases

LEMMA MeantWork ==
  ASSUME Types, NEW a \in Agents, Serve(a) \/ Finish(a) \/ FinishFailed(a)
  PROVE  /\ Meant => Meant'
         /\ Aimed => Aimed'
<1>1. UNCHANGED <<file, target>>
  <2>1. Serve(a) => UNCHANGED <<file, target>>  BY DEF Serve, Answer, disk
  <2> QED  BY <2>1 DEF Finish, FinishFailed
<1>2. CASE Serve(a)
  <2>1. pc[a] = "sent" /\ UNCHANGED <<todo, held, req>>  BY <1>2 DEF Serve, Answer
  <2>2. \A b \in Agents \ {a} : pc'[b] = pc[b]
    BY <1>2 DEF Serve, Answer, Types, TypeOK
  <2> QED  BY <1>1, <2>1, <2>2, MeantCalm
<1>3. CASE Finish(a) \/ FinishFailed(a)
  <2>1. /\ pc'[a] = "pick"
        /\ \A b \in Agents \ {a} :
             pc'[b] = pc[b] /\ req'[b] = req[b] /\ held'[b] = held[b] /\ todo'[b] = todo[b]
    BY <1>3 DEF Finish, FinishFailed, Settle, Types, TypeOK
  <2> QED  BY <1>1, <2>1, MeantCalm
<1> QED  BY <1>2, <1>3

LEMMA UntangledCalm ==
  ASSUME Untangled, mixed => mixed', \A a \in Agents : pc[a] = "off" => pc'[a] = "off"
  PROVE  Untangled'
BY DEF Untangled

LEMMA FiledInit == Init => Filed
BY DEF Init, Filed, Untangled, Meant, OneBehind, OwedIsSeen, TodoIsRight, Aimed,
       Uncompared, Busy, Handling, Waiting, Blank

LEMMA FiledEdit ==
  ASSUME Types, Filed, NEW t \in Targets, NEW entries \in SUBSET MayHold[t],
         Edit(t, entries)
  PROVE  Filed'
<1>1. /\ UNCHANGED <<snap, owed, pc, target, now, todo, held, req, broken, mixed>>
      /\ file' = [file EXCEPT ![t] = entries]
      /\ astray' = (astray \/ ~\E a \in Agents : OnlyOn(a))
  BY DEF Edit, handler
<1>2. Untangled'  BY <1>1, UntangledCalm DEF Filed
<1>3. Meant'  BY <1>1, MeantCalm DEF Filed
<1>4. ASSUME Steady'
      PROVE  (\A s \in Targets : OneBehind(s)' /\ OwedIsSeen(s)') /\ TodoIsRight' /\ Aimed'
  <2>1. Steady  BY <1>1, <1>4 DEF Steady
  <2>2. PICK a \in Agents : OnlyOn(a)  BY <1>1, <1>4 DEF Steady
  <2>3. pc[a] = "on" /\ \A b \in Agents \ {a} : pc[b] = "off"  BY <2>2 DEF OnlyOn
  <2>4. /\ \A b \in Agents : ~Handling(b) /\ ~Handling(b)' /\ ~Waiting(b)'
        /\ \A b \in Agents, s \in Targets : /\ Uncompared(b, s) <=> b = a
                                            /\ Uncompared(b, s)' <=> b = a
                                            /\ ~Busy(b, s)'
    BY <1>1, <2>3 DEF Handling, Waiting, Uncompared, Busy
  <2>5. Snap(a)' = Snap(a)  BY <1>1 DEF Snap
  <2>6. ASSUME NEW s \in Targets  PROVE OneBehind(s)' /\ OwedIsSeen(s)'
    <3>1. owed[s] \subseteq Snap(a)[s]  BY <2>1, <2>4 DEF Filed, OwedIsSeen
    <3>2. owed'[s] \subseteq file'[s] \/ Snap(a)'[s] # file'[s]
      BY <1>1, <2>5, <3>1
    <3>3. OwedIsSeen(s)'  BY <1>1, <2>4, <2>5, <3>1, <3>2 DEF OwedIsSeen
    <3>4. OneBehind(s)'  BY <2>4 DEF OneBehind
    <3> QED  BY <3>3, <3>4
  <2>7. TodoIsRight'  BY <2>4 DEF TodoIsRight
  <2>8. Aimed'  BY <2>4 DEF Aimed
  <2> QED  BY <2>6, <2>7, <2>8
<1> QED  BY <1>2, <1>3, <1>4 DEF Filed

LEMMA FiledStart ==
  ASSUME Types, Filed, NEW a \in Agents, BeforeAgentStart(a)
  PROVE  Filed'
<1>1. /\ UNCHANGED <<file, owed, target, now, todo, held, req, broken, astray>>
      /\ pc[a] = "off" /\ pc' = [pc EXCEPT ![a] = "on"]
      /\ snap' = [snap EXCEPT ![Host[a]] = file]
      /\ mixed' = (mixed \/ \E b \in Agents \ {a} : Host[b] = Host[a] /\ pc[b] # "off")
  BY DEF BeforeAgentStart, disk
<1>2. pc'[a] = "on" /\ \A b \in Agents \ {a} : pc'[b] = pc[b]
  BY <1>1 DEF Types, TypeOK
<1>3. Host[a] \in Processes  BY ConstantsAssumption
<1>4. Snap(a)' = file /\ \A b \in Agents : Host[b] # Host[a] => Snap(b)' = Snap(b)
  BY <1>1, <1>3 DEF Snap, Types, TypeOK
<1>5. Untangled'
  <2> SUFFICES ASSUME ~mixed', NEW b \in Agents, NEW c \in Agents, Host[b] = Host[c],
                      pc'[b] # "off", pc'[c] # "off"
               PROVE  b = c
    BY DEF Untangled
  <2>1. ~mixed /\ \A d \in Agents \ {a} : Host[d] = Host[a] => pc[d] = "off"
    BY <1>1
  <2>2. CASE b = a \/ c = a  BY <1>2, <2>1, <2>2
  <2>3. CASE b # a /\ c # a  BY <1>2, <2>1, <2>3 DEF Filed, Untangled
  <2> QED  BY <2>2, <2>3
<1>6. Meant' /\ (Aimed => Aimed')  BY <1>1, <1>2, MeantCalm DEF Filed
<1>7. ASSUME Steady'
      PROVE  (\A s \in Targets : OneBehind(s)' /\ OwedIsSeen(s)') /\ TodoIsRight' /\ Aimed'
  <2>1. Steady /\ \A b \in Agents \ {a} : Host[b] = Host[a] => pc[b] = "off"
    BY <1>1, <1>7 DEF Steady
  <2>2. /\ \A b \in Agents : Handling(b)' <=> Handling(b)
        /\ ~Handling(a)
    BY <1>1, <1>2 DEF Handling
  <2>3. ASSUME NEW s \in Targets  PROVE OneBehind(s)' /\ OwedIsSeen(s)'
    <3>1. /\ \A b \in Agents \ {a} : Uncompared(b, s)' => Uncompared(b, s) /\ Snap(b)' = Snap(b)
          /\ \A b \in Agents : Uncompared(b, s) =>
               b # a /\ Uncompared(b, s)' /\ Snap(b)' = Snap(b)
          /\ \A b \in Agents : Busy(b, s)' <=> Busy(b, s)
      BY <1>1, <1>2, <1>4, <2>1, <2>2 DEF Uncompared, Busy, Handling
    <3>2. OneBehind(s) /\ OwedIsSeen(s)  BY <2>1 DEF Filed
    <3>3. OneBehind(s)'  BY <1>1, <1>4, <3>1, <3>2 DEF OneBehind
    <3>4. OwedIsSeen(s)'  BY <1>1, <1>4, <3>1, <3>2 DEF OwedIsSeen
    <3> QED  BY <3>3, <3>4
  <2>4. TodoIsRight'  BY <1>1, <2>1, <2>2 DEF Filed, TodoIsRight
  <2> QED  BY <1>6, <2>1, <2>3, <2>4 DEF Filed
<1> QED  BY <1>5, <1>6, <1>7 DEF Filed

\* A comparison leaves the agent with the changes of that file, and only if no
\* other handler has any.
LEMMA FiledCompare ==
  ASSUME Types, Filed, NEW a \in Agents, NEW t \in Targets, Compare(a, t),
         Steady, Steady', UNCHANGED <<file, held, req>>,
         Uncompared(a, t), pc[a] \in {"on", "pick"}, pc'[a] = "pick",
         \A s \in Targets : /\ ~Busy(a, s)
                            /\ Uncompared(a, s)' <=> Uncompared(a, s) /\ s # t
                            /\ s # t /\ Uncompared(a, s) => Snap(a)'[s] = Snap(a)[s],
         \A b \in Agents \ {a} : /\ pc'[b] = pc[b]
                                 /\ pc[b] # "off" => Snap(b)' = Snap(b)
  PROVE  /\ \A s \in Targets : OneBehind(s)' /\ OwedIsSeen(s)'
         /\ TodoIsRight'
<1> DEFINE removed == Snap(a)[t] \ file[t]
           added == file[t] \ Snap(a)[t]
<1>1. /\ PlanFor(todo'[a], removed, added)
      /\ target'[a] = t /\ now'[a] = file[t]
      /\ owed' = [owed EXCEPT ![t] = (owed[t] \cup added) \ removed]
      /\ \A b \in Agents \ {a} :
           target'[b] = target[b] /\ now'[b] = now[b] /\ todo'[b] = todo[b]
  BY CompareIs
<1>2. /\ owed'[t] = (owed[t] \cup added) \ removed
      /\ \A s \in Targets : s # t => owed'[s] = owed[s]
  BY <1>1 DEF Types, TypeOK
<1>3. /\ \A s \in Targets : OneBehind(s) /\ OwedIsSeen(s)
      /\ TodoIsRight
  BY DEF Filed
<1>4. /\ \A b \in Agents \ {a} : Handling(b)' <=> Handling(b)
      /\ Handling(a)'
  BY DEF Handling
<1>5. \A b \in Agents \ {a}, s \in Targets :
        /\ Uncompared(b, s)' <=> Uncompared(b, s)
        /\ Busy(b, s)' <=> Busy(b, s)
        /\ Uncompared(b, s) \/ Busy(b, s) => Snap(b)' = Snap(b)
  BY <1>1, <1>4 DEF Uncompared, Busy, Handling
<1>6. \A s \in Targets : s # t => ~Busy(a, s)'
  BY <1>1 DEF Busy
\* Either nothing has changed, or the agent is the one with the old snapshot.
<1>7. CASE Snap(a)[t] = file[t]
  <2>1. removed = {} /\ added = {}  BY <1>7
  <2>2. todo'[a] = <<>> /\ owed'[t] = owed[t]  BY <1>1, <1>2, <2>1 DEF PlanFor
  <2>3. \A s \in Targets : ~Busy(a, s)' /\ owed'[s] = owed[s]
    BY <1>2, <1>6, <2>2 DEF Busy
  <2>4. ASSUME NEW s \in Targets  PROVE OneBehind(s)' /\ OwedIsSeen(s)'
    <3>1. OneBehind(s)'  BY <1>3, <1>5, <2>3 DEF OneBehind
    <3>2. OwedIsSeen(s)'  BY <1>3, <1>5, <1>7, <2>3 DEF OwedIsSeen
    <3> QED  BY <3>1, <3>2
  <2>5. TodoIsRight'
    <3>1. \A b \in Agents \ {a} : Handling(b) => target[b] \in Targets
      BY DEF Types, TypeOK
    <3> QED  BY <1>1, <1>3, <1>4, <2>2, <2>3, <3>1 DEF TodoIsRight
  <2> QED  BY <2>4, <2>5
<1>8. CASE Snap(a)[t] # file[t]
  <2>1. owed[t] \subseteq Snap(a)[t]  BY <1>3, <1>8 DEF OwedIsSeen
  <2>2. owed'[t] \subseteq file[t] /\ added \subseteq owed'[t]  BY <1>2, <2>1
  <2>3. \A b \in Agents \ {a} :
          /\ Uncompared(b, t) => Snap(b)[t] = file[t]
          /\ ~Busy(b, t)
    BY <1>3, <1>8 DEF OneBehind
  <2>4. ASSUME NEW s \in Targets  PROVE OneBehind(s)' /\ OwedIsSeen(s)'
    <3>1. CASE s = t
      <4>1. /\ ~Uncompared(a, t)'
            /\ \A b \in Agents \ {a} : /\ Uncompared(b, t)' => Snap(b)'[t] = file[t]
                                       /\ ~Busy(b, t)'
        BY <1>5, <2>3
      <4>2. OneBehind(t)'
        <5> SUFFICES ASSUME NEW b \in Agents, NEW c \in Agents
                     PROVE  /\ Uncompared(b, t)' /\ Uncompared(c, t)' =>
                                 b = c \/ Snap(b)'[t] = file'[t] \/ Snap(c)'[t] = file'[t]
                            /\ Busy(b, t)' /\ Uncompared(c, t)' => Snap(c)'[t] = file'[t]
                            /\ Busy(b, t)' /\ Busy(c, t)' => b = c
          BY DEF OneBehind
        <5> QED  BY <4>1
      <4>3. OwedIsSeen(t)'  BY <2>2, <4>1 DEF OwedIsSeen
      <4> QED  BY <3>1, <4>2, <4>3
    <3>2. CASE s # t
      <4>1. ~Busy(a, s)' /\ owed'[s] = owed[s]  BY <1>2, <1>6, <3>2
      <4>2. OneBehind(s)'  BY <1>3, <1>5, <3>2, <4>1 DEF OneBehind
      <4>3. OwedIsSeen(s)'  BY <1>3, <1>5, <3>2, <4>1 DEF OwedIsSeen
      <4> QED  BY <4>2, <4>3
    <3> QED  BY <3>1, <3>2
  <2>5. TodoIsRight'
    <3>1. ASSUME NEW b \in Agents, Handling(b)', NEW i \in DOMAIN todo'[b]
          PROVE  IF todo'[b][i].do = "remove"
                 THEN todo'[b][i].entry \notin file'[target'[b]]
                 ELSE todo'[b][i].entry \in owed'[target'[b]]
      <4>1. CASE b = a  BY <1>1, <2>2, <3>1, <4>1 DEF PlanFor
      <4>2. CASE b # a
        <5>1. Handling(b) /\ target[b] \in Targets /\ todo[b] \in Seq(Change1)
          BY <1>4, <3>1, <4>2 DEF Types, TypeOK
        <5>2. todo[b] # <<>>  BY <1>1, <3>1, <4>2
        <5>3. target[b] # t  BY <2>3, <4>2, <5>1, <5>2 DEF Busy
        <5> QED  BY <1>1, <1>2, <1>3, <3>1, <4>2, <5>1, <5>3 DEF TodoIsRight
      <4> QED  BY <4>1, <4>2
    <3>2. \A b \in Agents : Handling(b)' => now'[b] = file'[target'[b]]
      BY <1>1, <1>3, <1>4 DEF TodoIsRight
    <3> QED  BY <3>1, <3>2 DEF TodoIsRight
  <2> QED  BY <2>4, <2>5
<1> QED  BY <1>7, <1>8

LEMMA FiledEnd ==
  ASSUME Types, Filed, NEW a \in Agents, AgentEnd(a)
  PROVE  Filed'
<1>1. /\ UNCHANGED <<file, snap, held, req, broken, mixed, astray>>
      /\ pc[a] = "on" /\ pc' = [pc EXCEPT ![a] = "pick"] /\ Compare(a, "memory")
  BY DEF AgentEnd, disk
<1>2. pc'[a] = "pick" /\ \A b \in Agents \ {a} : pc'[b] = pc[b]
  BY <1>1 DEF Types, TypeOK
<1>3. /\ target'[a] = "memory"
      /\ \A b \in Agents \ {a} : target'[b] = target[b] /\ todo'[b] = todo[b]
  BY <1>1, CompareIs DEF Targets
<1>4. Untangled'  BY <1>1, <1>2, UntangledCalm DEF Filed
<1>5. Meant' /\ (Aimed => Aimed')  BY <1>1, <1>2, <1>3, MeantCalm DEF Filed
<1>6. ASSUME Steady'
      PROVE  (\A s \in Targets : OneBehind(s)' /\ OwedIsSeen(s)') /\ TodoIsRight' /\ Aimed'
  <2>1. Steady  BY <1>1, <1>6 DEF Steady
  <2>2. \A s \in Targets : /\ Uncompared(a, s) /\ ~Busy(a, s)
                           /\ Uncompared(a, s)' <=> s # "memory"
    BY <1>1, <1>2, <1>3 DEF Uncompared, Busy, Handling, Targets
  <2>3. \A b \in Agents : Snap(b)' = Snap(b)  BY <1>1 DEF Snap
  <2>4. "memory" \in Targets  BY DEF Targets
  <2>5. (\A s \in Targets : OneBehind(s)' /\ OwedIsSeen(s)') /\ TodoIsRight'
    BY <1>1, <1>2, <1>6, <2>1, <2>2, <2>3, <2>4, FiledCompare
  <2> QED  BY <1>5, <2>1, <2>5 DEF Filed
<1> QED  BY <1>4, <1>5, <1>6 DEF Filed

LEMMA FiledNextFile ==
  ASSUME Types, Filed, NEW a \in Agents, NextFile(a)
  PROVE  Filed'
<1>1. /\ UNCHANGED <<file, held, req, broken, mixed, astray>>
      /\ pc[a] = "pick" /\ todo[a] = <<>>
      /\ snap' = [snap EXCEPT ![Host[a]][target[a]] = now[a]]
  BY DEF NextFile, disk
<1>2. target[a] = "memory" =>
        Compare(a, "user") /\ UNCHANGED pc /\ target'[a] = "user"
  BY CompareIs DEF NextFile, Targets
<1>3. target[a] # "memory" =>
        /\ target[a] = "user" /\ UNCHANGED <<todo, owed>>
        /\ pc' = [pc EXCEPT ![a] = "off"] /\ pc'[a] = "off"
        /\ target' = [target EXCEPT ![a] = "memory"] /\ now' = [now EXCEPT ![a] = {}]
  BY DEF NextFile, Types, TypeOK, Targets
<1>4. \A b \in Agents \ {a} :
        /\ pc'[b] = pc[b] /\ target'[b] = target[b] /\ todo'[b] = todo[b]
        /\ now'[b] = now[b]
  BY <1>2, <1>3, CompareIs DEF Types, TypeOK, Targets
<1>5. ~(pc'[a] \in {"sent", "back"}) /\ \A b \in Agents : pc[b] = "off" => pc'[b] = "off"
  BY <1>1, <1>2, <1>3, <1>4
<1>6. Untangled'  BY <1>1, <1>5, UntangledCalm DEF Filed
<1>7. Meant' /\ (Aimed => Aimed')  BY <1>1, <1>4, <1>5, MeantCalm DEF Filed
<1>8. ASSUME Steady'
      PROVE  (\A s \in Targets : OneBehind(s)' /\ OwedIsSeen(s)') /\ TodoIsRight' /\ Aimed'
  <2>1. Steady  BY <1>1, <1>8 DEF Steady
  \* Nobody else looks at that snapshot.
  <2>2. \A b \in Agents \ {a} : pc[b] # "off" => Snap(b)' = Snap(b)
    <3>1. \A b \in Agents \ {a} : pc[b] # "off" => Host[b] # Host[a]
      BY <1>1, <2>1 DEF Filed, Untangled, Steady
    <3>2. \A b \in Agents : Host[b] \in Processes  BY ConstantsAssumption
    <3> QED  BY <1>1, <3>1, <3>2 DEF Snap, Types, TypeOK
  <2>3. \A s \in Targets : s # target[a] => Snap(a)'[s] = Snap(a)[s]
    <3>1. Host[a] \in Processes  BY ConstantsAssumption
    <3> QED  BY <1>1, <3>1 DEF Snap, Types, TypeOK
  <2>4. \A s \in Targets : ~Busy(a, s)  BY <1>1 DEF Busy
  <2>5. CASE target[a] = "memory"
    <3>1. /\ Compare(a, "user") /\ pc'[a] = "pick" /\ target'[a] = "user"
      BY <1>1, <1>2, <2>5
    <3>2. \A s \in Targets : /\ Uncompared(a, s) <=> s = "user"
                             /\ ~Uncompared(a, s)'
      BY <1>1, <2>5, <3>1 DEF Uncompared, Handling, Targets
    <3>3. "user" \in Targets  BY DEF Targets
    <3>4. (\A s \in Targets : OneBehind(s)' /\ OwedIsSeen(s)') /\ TodoIsRight'
      BY <1>1, <1>4, <1>8, <2>1, <2>2, <2>3, <2>4, <2>5, <3>1, <3>2, <3>3, FiledCompare
    <3> QED  BY <1>7, <2>1, <3>4 DEF Filed
  <2>6. CASE target[a] # "memory"
    <3>1. /\ \A b \in Agents : Handling(b)' => b # a /\ Handling(b)
          /\ \A b \in Agents, s \in Targets :
               /\ Uncompared(b, s)' <=> Uncompared(b, s)
               /\ Uncompared(b, s) => Snap(b)' = Snap(b)
               /\ Busy(b, s)' => Busy(b, s)
      <4>1. \A s \in Targets : ~Uncompared(a, s) /\ ~Uncompared(a, s)' /\ ~Busy(a, s)'
        BY <1>1, <1>3, <2>6 DEF Uncompared, Busy, Handling, Targets
      <4>2. \A b \in Agents \ {a} : Uncompared(b, "user") => pc[b] # "off"
        BY DEF Uncompared, Handling
      <4> QED  BY <1>3, <1>4, <2>2, <2>6, <4>1 DEF Uncompared, Busy, Handling
    <3>2. ASSUME NEW s \in Targets  PROVE OneBehind(s)' /\ OwedIsSeen(s)'
      <4>1. OneBehind(s) /\ OwedIsSeen(s) /\ UNCHANGED <<file, owed>>
        BY <1>1, <1>3, <2>1, <2>6 DEF Filed
      <4> QED  BY <3>1, <4>1 DEF OneBehind, OwedIsSeen
    <3>3. TodoIsRight'
      <4>1. TodoIsRight /\ UNCHANGED <<file, owed>>  BY <1>1, <1>3, <2>1, <2>6 DEF Filed
      <4> QED  BY <1>4, <3>1, <4>1 DEF TodoIsRight
    <3> QED  BY <1>7, <2>1, <3>2, <3>3 DEF Filed
  <2> QED  BY <2>5, <2>6
<1> QED  BY <1>6, <1>7, <1>8 DEF Filed

LEMMA FiledCut ==
  ASSUME Types, Filed, broken', UNCHANGED mixed,
         \A a \in Agents :
           \/ pc'[a] = "off"
           \/ /\ pc'[a] = pc[a] /\ req'[a] = req[a] /\ held'[a] = held[a]
              /\ target'[a] = target[a] /\ todo'[a] = todo[a]
  PROVE  Filed'
<1>1. Untangled'  BY UntangledCalm DEF Filed
<1>2. Meant'  BY MeantCalm DEF Filed
<1> QED  BY <1>1, <1>2 DEF Filed, Steady

LEMMA FiledNext ==
  ASSUME Types, Types', Filed, [Next]_vars
  PROVE  Filed'
<1>1. ASSUME Toils, Meant', Steady' => Aimed'  PROVE Filed'
  <2>1. Untangled'  BY <1>1, UntangledCalm DEF Filed, Toils
  <2> QED  BY <1>1, <2>1, FiledToils DEF Filed
<1>2. ASSUME NEW a \in Agents, Work(a), ~NextFile(a)  PROVE Filed'
  <2>1. Toils  BY <1>2, ToilsSync, ToilsServe, ToilsFinish DEF Work, Filed
  <2>2. Steady' => Steady  BY <2>1 DEF Toils, Steady
  <2>3. Meant' /\ (Aimed /\ TodoIsRight => Aimed')
    BY <1>2, MeantSync, MeantWork DEF Work, Filed
  <2>4. Steady' => Aimed'  BY <2>2, <2>3 DEF Filed
  <2> QED  BY <1>1, <2>1, <2>3, <2>4
<1>3. ASSUME NEW r \in late, ServeLate(r)  PROVE Filed'
  <2>1. Toils /\ UNCHANGED handler /\ UNCHANGED file
    BY <1>3, ToilsServeLate DEF ServeLate, disk
  <2>2. Meant' /\ (Aimed => Aimed')  BY <2>1, MeantCalm DEF handler, Filed
  <2>3. Steady' => Steady  BY <2>1 DEF Toils, Steady
  <2>4. Steady' => Aimed'  BY <2>2, <2>3 DEF Filed
  <2> QED  BY <1>1, <2>1, <2>2, <2>4
<1>4. ASSUME NEW a \in Agents, Throw(a)  PROVE Filed'
  <2>1. \A b \in Agents :
          \/ pc'[b] = "off"
          \/ /\ pc'[b] = pc[b] /\ req'[b] = req[b] /\ held'[b] = held[b]
             /\ target'[b] = target[b] /\ todo'[b] = todo[b]
    BY <1>4 DEF Throw, Types, TypeOK
  <2> QED  BY <1>4, <2>1, FiledCut DEF Throw
<1>5. ASSUME NEW p \in Processes, Crash(p)  PROVE Filed'
  <2>1. \A b \in Agents :
          \/ pc'[b] = "off"
          \/ /\ pc'[b] = pc[b] /\ req'[b] = req[b] /\ held'[b] = held[b]
             /\ target'[b] = target[b] /\ todo'[b] = todo[b]
    BY <1>5 DEF Crash
  <2> QED  BY <1>5, <2>1, FiledCut DEF Crash
<1>6. CASE UNCHANGED vars
  <2>1. Toils /\ UNCHANGED handler /\ UNCHANGED file
    BY <1>6 DEF Toils, vars, disk, handler, history
  <2>2. Meant' /\ (Aimed => Aimed')  BY <2>1, MeantCalm DEF handler, Filed
  <2>3. Steady' => Steady  BY <2>1 DEF Toils, Steady
  <2>4. Steady' => Aimed'  BY <2>2, <2>3 DEF Filed
  <2> QED  BY <1>1, <2>1, <2>2, <2>4
<1> QED
  BY <1>2, <1>3, <1>4, <1>5, <1>6, FiledEdit, FiledStart, FiledEnd, FiledNextFile
  DEF Next, Work

-----------------------------------------------------------------------------
(* No entry is dropped.                                                    *)

\* What was held is saved, but for the record the request is about, and a new
\* record is there unless that was to be forgotten.
LEMMA SavedKeeps ==
  ASSUME NEW h \in Seq(SyncRecord), NEW r \in Request,
         r.call # "remember" => r.at \in DOMAIN h, NEW t, NEW id
  PROVE  LET N == Saved(h, r, t, id) IN
         /\ \A k \in DOMAIN h :
              (r.call # "remember" /\ k = r.at) \/ \E n \in DOMAIN N : N[n] = h[k]
         /\ r.call # "forget" => \E n \in DOMAIN N : N[n] = Record(t, r.entry, id)
<1> DEFINE N == Saved(h, r, t, id)
           R == Record(t, r.entry, id)
<1>1. DOMAIN h = 1..Len(h) /\ Len(h) \in Nat  OBVIOUS
<1>2. CASE r.call = "remember"
  <2>1. N = Append(h, R)  BY <1>2 DEF Saved
  <2> HIDE DEF N, R
  <2>2. /\ DOMAIN N = 1..(Len(h) + 1) /\ N[Len(h) + 1] = R
        /\ \A k \in 1..Len(h) : N[k] = h[k]
    BY <1>1, <2>1
  <2>3. \A k \in 1..Len(h) : k \in DOMAIN N  BY <1>1, <2>2
  <2>4. Len(h) + 1 \in DOMAIN N  BY <1>1, <2>2
  <2> QED  BY <1>1, <2>2, <2>3, <2>4 DEF N, R
<1>3. CASE r.call = "update"
  <2>1. N = [h EXCEPT ![r.at] = R]  BY <1>3 DEF Saved
  <2> HIDE DEF N, R
  <2> QED  BY <1>1, <1>3, <2>1 DEF N, R
<1>4. CASE r.call = "forget"
  <2>1. N = RemoveAt(h, r.at)  BY <1>4 DEF Saved
  <2>2. \A k \in DOMAIN h \ {r.at} : \E n \in DOMAIN N : N[n] = h[k]
    BY <1>4, <2>1, Remains
  <2> QED  BY <1>4, <2>2
<1> QED  BY <1>2, <1>3, <1>4, RequestKinds

\* Of an entry it is known by its fingerprint that it has a record.
LEMMA RecordedIs ==
  ASSUME Marked, NEW t, NEW e
  PROVE  Recorded(t, e) <=> \E n \in DOMAIN map : map[n].target = t /\ map[n].entry = e
BY DEF Marked, FpOf, Recorded, Fingerprint

\* Steps that leave the records, the lines and the changes as they are.
LEMMA TrackedCalm ==
  ASSUME Tracked, UNCHANGED <<map, queue, spilled>>, Steady' => Steady,
         \A t \in Targets : \A e \in owed'[t] :
           \/ e \in owed[t]
           \/ \E a \in Agents : Handling(a)' /\ target'[a] = t /\
                \E i \in DOMAIN todo'[a] : todo'[a][i].do # "remove" /\ todo'[a][i].entry = e,
         \A a \in Agents : Handling(a) => \/ todo[a] = <<>>
                                          \/ /\ Handling(a)'
                                             /\ target'[a] = target[a] /\ todo'[a] = todo[a]
  PROVE  Tracked'
<1> SUFFICES ASSUME Steady', ~spilled', NEW t \in Targets, NEW e \in owed'[t]
             PROVE  Kept(t, e)'
  BY DEF Tracked
<1>1. Steady /\ ~spilled  OBVIOUS
<1>2. CASE e \in owed[t]
  <2>1. Kept(t, e)  BY <1>1, <1>2 DEF Tracked
  <2> QED  BY <2>1 DEF Kept
<1>3. CASE \E a \in Agents : Handling(a)' /\ target'[a] = t /\
             \E i \in DOMAIN todo'[a] : todo'[a][i].do # "remove" /\ todo'[a][i].entry = e
  BY <1>3 DEF Kept
<1> QED  BY <1>2, <1>3

\* A change that is through leaves a record or a line.
LEMMA TrackedStep ==
  ASSUME Types, Types', Steady, Tracked, NEW a \in Agents, UNCHANGED <<owed, target>>,
         Handling(a), Handling(a)', todo[a] # <<>>, ~spilled' => ~spilled,
         \A b \in Agents \ {a} : pc'[b] = pc[b] /\ todo'[b] = todo[b],
         \A i \in DOMAIN todo[a] :
           i = 1 \/ \E j \in DOMAIN todo'[a] : todo'[a][j] = todo[a][i],
         \A t \in Targets : \A e \in owed[t] :
           (\E n \in DOMAIN map : map[n].target = t /\ map[n].entry = e) =>
             \E n \in DOMAIN map' : map'[n].target = t /\ map'[n].entry = e,
         ~spilled' => \A n \in DOMAIN queue : n \in DOMAIN queue' /\ queue'[n] = queue[n],
         ~spilled' /\ Head(todo[a]).do # "remove" =>
           \/ \E n \in DOMAIN map' :
                map'[n].target = target[a] /\ map'[n].entry = Head(todo[a]).entry
           \/ \E n \in DOMAIN queue' :
                queue'[n].target = target[a] /\ queue'[n].entry = Head(todo[a]).entry
  PROVE  Tracked'
<1> SUFFICES ASSUME ~spilled', NEW t \in Targets, NEW e \in owed'[t]
             PROVE  Kept(t, e)'
  BY DEF Tracked
<1>1. Kept(t, e) /\ e \in owed[t]  BY DEF Tracked
<1>2. CASE \E n \in DOMAIN map : map[n].target = t /\ map[n].entry = e
  BY <1>1, <1>2 DEF Kept
<1>3. CASE \E n \in DOMAIN queue : queue[n].target = t /\ queue[n].entry = e
  BY <1>3 DEF Kept
<1>4. ASSUME NEW b \in Agents, Handling(b), target[b] = t,
             NEW i \in DOMAIN todo[b], todo[b][i].do # "remove", todo[b][i].entry = e
      PROVE  Kept(t, e)'
  <2>1. CASE b # a
    <3>1. Handling(b)' /\ target'[b] = t /\ todo'[b] = todo[b]
      BY <1>4, <2>1 DEF Handling
    <3> QED  BY <1>4, <3>1 DEF Kept
  <2>2. CASE b = a /\ i = 1
    <3>1. todo[a] \in Seq(Change1)  BY DEF Types, TypeOK
    <3>2. Head(todo[a]) = todo[b][i]  BY <2>2, <3>1, TailIs
    <3> QED  BY <1>4, <2>2, <3>2 DEF Kept
  <2>3. CASE b = a /\ i # 1
    <3>1. PICK j \in DOMAIN todo'[a] : todo'[a][j] = todo[a][i]  BY <1>4, <2>3
    <3> QED  BY <1>4, <2>3, <3>1 DEF Kept
  <2> QED  BY <2>1, <2>2, <2>3
<1> QED  BY <1>1, <1>2, <1>3, <1>4 DEF Kept

LEMMA TrackedCompare ==
  ASSUME Types, Types', Tracked, NEW a \in Agents, NEW t \in Targets, Compare(a, t),
         UNCHANGED <<map, queue, spilled>>, Steady' => Steady, pc'[a] = "pick",
         \A b \in Agents \ {a} : pc'[b] = pc[b],
         ~Handling(a) \/ todo[a] = <<>>
  PROVE  Tracked'
<1>1. /\ PlanFor(todo'[a], Snap(a)[t] \ file[t], file[t] \ Snap(a)[t])
      /\ target'[a] = t
      /\ owed' = [owed EXCEPT ![t] = (owed[t] \cup (file[t] \ Snap(a)[t]))
                                        \ (Snap(a)[t] \ file[t])]
      /\ \A b \in Agents \ {a} : target'[b] = target[b] /\ todo'[b] = todo[b]
  BY CompareIs
<1>2. ASSUME NEW s \in Targets, NEW e \in owed'[s], e \notin owed[s]
      PROVE  \E b \in Agents : Handling(b)' /\ target'[b] = s /\
               \E i \in DOMAIN todo'[b] : todo'[b][i].do # "remove" /\ todo'[b][i].entry = e
  <2>1. s = t /\ e \in file[t] \ Snap(a)[t]  BY <1>1, <1>2 DEF Types, TypeOK
  <2>2. \E i \in DOMAIN todo'[a] : todo'[a][i].do # "remove" /\ todo'[a][i].entry = e
    BY <1>1, <2>1 DEF PlanFor
  <2> QED  BY <1>1, <2>1, <2>2 DEF Handling
<1>3. \A b \in Agents : Handling(b) =>
        \/ todo[b] = <<>>
        \/ Handling(b)' /\ target'[b] = target[b] /\ todo'[b] = todo[b]
  BY <1>1 DEF Handling
<1> QED  BY <1>2, <1>3, TrackedCalm

LEMMA TrackedSync ==
  ASSUME Types, Types', Marked, Tracked, Toils,
         NEW a \in Agents, SyncAdd(a) \/ SyncRemove(a) \/ SyncReplace(a)
  PROVE  Tracked'
<1>1. pc[a] = "pick" /\ todo[a] # <<>> /\ Otherwise  BY SyncCases
<1>2. UNCHANGED <<map, queue, spilled, owed>> /\ (Steady' => Steady)
  BY <1>1 DEF Otherwise, disk, Toils, Steady
<1>3. ASSUME NEW r, Send(a, r)  PROVE Tracked'
  <2>1. UNCHANGED <<target, todo>> /\ \A b \in Agents : Handling(b) => Handling(b)'
    BY <1>1, <1>3 DEF Send, Handling, Types, TypeOK
  <2> QED  BY <1>2, <2>1, TrackedCalm
<1>4. ASSUME Skip(a),
             \/ Head(todo[a]).do = "remove"
             \/ Recorded(target[a], Head(todo[a]).entry)
      PROVE  Tracked'
  <2>1. /\ UNCHANGED <<pc, target>> /\ todo'[a] = Tail(todo[a])
        /\ \A b \in Agents \ {a} : todo'[b] = todo[b]
    BY <1>4 DEF Skip, Types, TypeOK
  <2>2. todo[a] \in Seq(Change1)  BY DEF Types, TypeOK
  <2>3. \A i \in DOMAIN todo[a] :
          i = 1 \/ \E j \in DOMAIN todo'[a] : todo'[a][j] = todo[a][i]
    BY <1>1, <2>1, <2>2, TailHas
  <2>4. Handling(a) /\ Handling(a)'  BY <1>1, <2>1 DEF Handling
  <2>5. Head(todo[a]).do # "remove" =>
          \E n \in DOMAIN map :
            map[n].target = target[a] /\ map[n].entry = Head(todo[a]).entry
    BY <1>4, RecordedIs
  <2>6. CASE ~Steady'  BY <2>6 DEF Tracked
  <2>7. CASE Steady'
    BY <1>1, <1>2, <2>1, <2>3, <2>4, <2>5, <2>7, TrackedStep
  <2> QED  BY <2>6, <2>7
<1> QED  BY <1>3, <1>4, SyncCases

LEMMA TrackedFinish ==
  ASSUME Types, Types', Held, Filed, Tracked, NEW a \in Agents, Finish(a)
  PROVE  Tracked'
<1> SUFFICES ASSUME Steady'  PROVE Tracked'  BY DEF Tracked
<1> DEFINE t == target[a]
           r == req[a]
           R == Record(t, r.entry, got[a])
<1>1. /\ pc[a] = "back" /\ UNCHANGED <<owed, target, queue, spilled>> /\ Steady
      /\ map' = Saved(held[a], r, t, got[a])
      /\ pc'[a] = "pick" /\ todo'[a] = Tail(todo[a])
      /\ \A b \in Agents \ {a} : pc'[b] = pc[b] /\ todo'[b] = todo[b]
  BY SavedIs DEF Finish, Settle, history, Steady, Types, TypeOK
<1>2. /\ todo[a] \in Seq(Change1) /\ todo[a] # <<>> /\ r \in Request
      /\ held[a] \in Seq(SyncRecord) /\ (r.call # "remember" => r.at \in DOMAIN held[a])
  BY <1>1 DEF Types, TypeOK, Posed, Waiting
<1>3. held[a] = map  BY <1>1 DEF Held, Single, Waiting, Steady
<1>4. Handling(a) /\ Handling(a)' /\ Busy(a, t)  BY <1>1, <1>2 DEF Handling, Busy
<1>5. \A i \in DOMAIN todo[a] :
        i = 1 \/ \E j \in DOMAIN todo'[a] : todo'[a][j] = todo[a][i]
  BY <1>1, <1>2, TailHas
\* The record that is overwritten or goes is not of an entry that is owed.
<1>6. ASSUME NEW s \in Targets, NEW e \in owed[s],
             NEW k \in DOMAIN map, map[k].target = s, map[k].entry = e
      PROVE  \E n \in DOMAIN map' : map'[n].target = s /\ map'[n].entry = e
  <2>1. ~(r.call # "remember" /\ k = r.at)
    <3>1. t \in Targets  BY DEF Types, TypeOK
    <3>2. owed[t] \subseteq file[t]  BY <1>1, <1>4, <3>1 DEF Filed, OwedIsSeen
    <3>3. r.call # "remember" =>
            map[r.at].target = t /\ map[r.at].entry \notin file[t]
      BY <1>1, <1>3 DEF Filed, Aimed, Waiting
    <3> QED  BY <1>6, <3>2, <3>3
  <2>2. \E n \in DOMAIN map' : map'[n] = map[k]
    BY <1>1, <1>2, <1>3, <2>1, SavedKeeps
  <2> QED  BY <1>6, <2>2
<1>7. Head(todo[a]).do # "remove" =>
        \E n \in DOMAIN map' : map'[n].target = t /\ map'[n].entry = Head(todo[a]).entry
  <2> SUFFICES ASSUME Head(todo[a]).do # "remove"
               PROVE  \E n \in DOMAIN map' :
                        map'[n].target = t /\ map'[n].entry = Head(todo[a]).entry
    OBVIOUS
  <2>1. r.call # "forget" /\ r.entry = Head(todo[a]).entry
    BY <1>1 DEF Filed, Meant, Held, Asked, Waiting
  <2>2. \E n \in DOMAIN map' : map'[n] = Record(t, r.entry, got[a])
    BY <1>1, <1>2, <2>1, SavedKeeps
  <2> QED  BY <2>1, <2>2, RecordIs
<1> QED  BY <1>1, <1>2, <1>4, <1>5, <1>6, <1>7, TrackedStep

LEMMA TrackedFinishFailed ==
  ASSUME Types, Types', Filed, Tracked, NEW a \in Agents, FinishFailed(a)
  PROVE  Tracked'
<1> SUFFICES ASSUME Steady'  PROVE Tracked'  BY DEF Tracked
<1>1. /\ pc[a] = "back" /\ UNCHANGED <<owed, target, map>> /\ Steady
      /\ queue' = Queued(Line(a)) /\ spilled' = (spilled \/ Len(queue) >= QueueLimit)
      /\ pc'[a] = "pick"
      /\ todo'[a] = IF req[a].call = "update"
                    THEN Change("add", <<Head(todo[a]).entry>>) \o Tail(todo[a])
                    ELSE Tail(todo[a])
      /\ \A b \in Agents \ {a} : pc'[b] = pc[b] /\ todo'[b] = todo[b]
  BY DEF FinishFailed, Settle, Steady, Types, TypeOK
<1>2. todo[a] \in Seq(Change1) /\ todo[a] # <<>>
  BY <1>1 DEF Types, TypeOK, Posed, Waiting
<1>3. Handling(a) /\ Handling(a)'  BY <1>1 DEF Handling
<1>4. ASSUME NEW i \in DOMAIN todo[a], i # 1
      PROVE  \E j \in DOMAIN todo'[a] : todo'[a][j] = todo[a][i]
  <2>1. CASE req[a].call = "update"
    <3>1. LET T == Change("add", <<Head(todo[a]).entry>>) \o Tail(todo[a]) IN
          DOMAIN T = DOMAIN todo[a] /\ \A j \in DOMAIN todo[a] : j = 1 \/ T[j] = todo[a][j]
      BY ONLY <1>2, InsteadIs
    <3> QED  BY <1>1, <1>4, <2>1, <3>1
  <2>2. CASE req[a].call # "update"  BY <1>1, <1>2, <1>4, <2>2, TailHas
  <2> QED  BY <2>1, <2>2
\* As long as the queue is not full a line joins the others.
<1>5. ASSUME ~spilled'
      PROVE  /\ \A n \in DOMAIN queue : n \in DOMAIN queue' /\ queue'[n] = queue[n]
             /\ \E n \in DOMAIN queue' : queue'[n].target = target[a]
                                           /\ queue'[n].entry = Head(todo[a]).entry
  <2>1. Line(a) \in QueueLine
    BY <1>1, LineTyped DEF Types
  <2>2. queue' = Append(queue, Line(a)) /\ queue \in Seq(QueueLine)
    <3>1. queue \in Seq(QueueLine) /\ Len(queue) <= QueueLimit
      BY DEF Types, TypeOK, QueueLine
    <3> QED  BY <1>1, <1>5, <2>1, <3>1, QueuedTyped
  <2>3. Line(a).target = target[a] /\ Line(a).entry = Head(todo[a]).entry
    BY <1>1, TypesLine DEF Waiting
  <2> DEFINE line == Line(a)
  <2> HIDE DEF line
  <2>4. /\ \A n \in DOMAIN queue : n \in DOMAIN queue' /\ queue'[n] = queue[n]
        /\ Len(queue) + 1 \in DOMAIN queue' /\ queue'[Len(queue) + 1] = line
    BY <2>1, <2>2 DEF line
  <2> QED  BY <2>3, <2>4 DEF line
<1> QED
  BY <1>1, <1>2, <1>3, <1>4, <1>5, TrackedStep

LEMMA TrackedInit == Init => Tracked
BY DEF Init, Tracked, Blank

LEMMA TrackedNext ==
  ASSUME Types, Types', Held, Filed, Tracked, [Next]_vars
  PROVE  Tracked'
<1>1. ASSUME NEW t \in Targets, NEW entries \in SUBSET MayHold[t], Edit(t, entries)
      PROVE  Tracked'
  <2>1. UNCHANGED <<owed, pc, target, todo, map, queue, spilled>> /\ (Steady' => Steady)
    BY <1>1 DEF Edit, handler, Steady
  <2> QED  BY <2>1, TrackedCalm DEF Handling
<1>2. ASSUME NEW a \in Agents, BeforeAgentStart(a)  PROVE Tracked'
  <2>1. UNCHANGED <<owed, target, todo, map, queue, spilled>> /\ (Steady' => Steady)
    BY <1>2 DEF BeforeAgentStart, disk, Steady
  <2>2. \A b \in Agents : Handling(b) => Handling(b)'
    BY <1>2 DEF BeforeAgentStart, Handling, Types, TypeOK
  <2> QED  BY <2>1, <2>2, TrackedCalm
<1>3. ASSUME NEW a \in Agents, AgentEnd(a)  PROVE Tracked'
  <2>1. /\ UNCHANGED <<map, queue, spilled>> /\ (Steady' => Steady)
        /\ pc[a] = "on" /\ Compare(a, "memory")
        /\ pc'[a] = "pick" /\ \A b \in Agents \ {a} : pc'[b] = pc[b]
    BY <1>3 DEF AgentEnd, disk, Steady, Types, TypeOK
  <2>2. ~Handling(a) /\ "memory" \in Targets  BY <2>1 DEF Handling, Targets
  <2> QED  BY <2>1, <2>2, TrackedCompare
<1>4. ASSUME NEW a \in Agents, NextFile(a)  PROVE Tracked'
  <2>1. /\ UNCHANGED <<map, queue, spilled>> /\ (Steady' => Steady)
        /\ pc[a] = "pick" /\ todo[a] = <<>>
    BY <1>4 DEF NextFile, disk, Steady
  <2>2. CASE target[a] = "memory"
    <3>1. Compare(a, "user") /\ UNCHANGED pc /\ "user" \in Targets
      BY <1>4, <2>2 DEF NextFile, Targets
    <3> QED  BY <2>1, <3>1, TrackedCompare
  <2>3. CASE target[a] # "memory"
    <3>1. /\ UNCHANGED <<todo, owed>>
          /\ \A b \in Agents \ {a} : pc'[b] = pc[b] /\ target'[b] = target[b]
      BY <1>4, <2>3 DEF NextFile, Types, TypeOK
    <3>2. \A b \in Agents : Handling(b) => \/ todo[b] = <<>>
                                           \/ Handling(b)' /\ target'[b] = target[b]
      BY <2>1, <3>1 DEF Handling
    <3> QED  BY <2>1, <3>1, <3>2, TrackedCalm
  <2> QED  BY <2>2, <2>3
<1>5. ASSUME NEW a \in Agents, Serve(a)  PROVE Tracked'
  <2>1. Toils /\ UNCHANGED <<map, queue, todo, spilled>>
    BY <1>5, ToilsServe DEF Serve, Answer, disk
  <2>2. \A b \in Agents : Handling(b) => Handling(b)'
    BY <2>1 DEF Toils, Handling, Types, TypeOK
  <2> QED  BY <2>1, <2>2, TrackedCalm DEF Toils, Steady
<1>6. ASSUME NEW a \in Agents, Throw(a) \/ \E p \in Processes : Crash(p)  PROVE Tracked'
  BY <1>6 DEF Throw, Crash, Tracked, Steady
<1>7. ASSUME NEW p \in Processes, Crash(p)  PROVE Tracked'
  BY <1>7 DEF Crash, Tracked, Steady
<1>8. CASE UNCHANGED vars \/ \E r \in late : ServeLate(r)
  <2>1. UNCHANGED <<disk, handler, history>>  BY <1>8 DEF vars, ServeLate
  <2> QED  BY <2>1, TrackedCalm DEF disk, handler, history, Handling, Steady
<1>9. ASSUME NEW a \in Agents, SyncAdd(a) \/ SyncRemove(a) \/ SyncReplace(a)
      PROVE  Tracked'
  BY <1>9, ToilsSync, TrackedSync DEF Held
<1> QED
  BY <1>1, <1>2, <1>3, <1>4, <1>5, <1>6, <1>7, <1>8, <1>9, TrackedFinish,
     TrackedFinishFailed
  DEF Next, Work

KeptInv == Types /\ Held /\ Filed /\ Tracked

LEMMA KeptInvariant == Spec => []KeptInv
<1>1. Init => KeptInv
  BY TypesInit, HeldInit, FiledInit, TrackedInit DEF KeptInv
<1>2. KeptInv /\ [Next]_vars => KeptInv'
  BY TypesNext, HeldNext, FiledNext, TrackedNext DEF KeptInv
<1> QED  BY <1>1, <1>2, PTL DEF Spec

\* For any entries, agents and processes: when the handlers are through, what
\* a comparison found added has a record or a line in the queue, unless a
\* handler was cut short, two agents got in each other's way, a file changed
\* while not one agent alone was on, or the queue overflowed.
THEOREM NoneDropped == Spec => []NoEntryDropped
<1>1. ASSUME KeptInv  PROVE NoEntryDropped
  <2> SUFFICES ASSUME Quiet, Steady, ~spilled, NEW t \in Targets, NEW e \in owed[t]
               PROVE  Recorded(t, e) \/ \E n \in DOMAIN queue :
                        queue[n].target = t /\ queue[n].entry = e
    BY DEF NoEntryDropped, Steady
  <2>1. Kept(t, e)  BY <1>1 DEF KeptInv, Tracked
  <2>2. Recorded(t, e) <=> \E n \in DOMAIN map : map[n].target = t /\ map[n].entry = e
    BY <1>1, RecordedIs DEF KeptInv, Held
  <2> QED  BY <2>1, <2>2 DEF Kept, Quiet
<1> QED  BY <1>1, KeptInvariant, PTL

-----------------------------------------------------------------------------
(* The mirror is exact.                                                    *)

\* Where the records that are saved come from: two of them from two that were
\* held, none of them the one the request is about, or one of them is new.
LEMMA SavedFrom ==
  ASSUME NEW h \in Seq(SyncRecord), NEW r \in Request,
         r.call # "remember" => r.at \in DOMAIN h, NEW t, NEW id
  PROVE  LET N == Saved(h, r, t, id)
             R == Record(t, r.entry, id)
             Old == {k \in DOMAIN h : r.call # "remember" => k # r.at} IN
         /\ \A n \in DOMAIN N :
              (r.call # "forget" /\ N[n] = R) \/ \E k \in Old : N[n] = h[k]
         /\ \A n, m \in DOMAIN N : n # m =>
              \/ \E k, l \in Old : k # l /\ N[n] = h[k] /\ N[m] = h[l]
              \/ r.call # "forget" /\ N[n] = R /\ \E l \in Old : N[m] = h[l]
              \/ r.call # "forget" /\ N[m] = R /\ \E k \in Old : N[n] = h[k]
<1> DEFINE N == Saved(h, r, t, id)
           R == Record(t, r.entry, id)
           Old == {k \in DOMAIN h : r.call # "remember" => k # r.at}
<1>1. DOMAIN h = 1..Len(h) /\ Len(h) \in Nat  OBVIOUS
<1>2. CASE r.call # "forget"
  <2>1. PICK at \in Nat :
          /\ DOMAIN N \ {at} = Old
          /\ \A n \in DOMAIN N : N[n] = IF n = at THEN R ELSE h[n]
    <3>1. CASE r.call = "remember"
      <4>1. N = Append(h, R) /\ Old = DOMAIN h  BY <3>1 DEF Saved
      <4> HIDE DEF N, R, Old
      <4>2. /\ DOMAIN N = 1..(Len(h) + 1)
            /\ \A n \in 1..(Len(h) + 1) : N[n] = IF n = Len(h) + 1 THEN R ELSE h[n]
        BY <1>1, <4>1
      <4>3. DOMAIN N \ {Len(h) + 1} = Old  BY <1>1, <4>1, <4>2
      <4>4. /\ Len(h) + 1 \in Nat
            /\ \A n \in DOMAIN N : N[n] = IF n = Len(h) + 1 THEN R ELSE h[n]
        BY <1>1, <4>2
      <4> QED  BY <4>3, <4>4
    <3>2. CASE r.call = "update"
      <4>1. N = [h EXCEPT ![r.at] = R] /\ Old = DOMAIN h \ {r.at}  BY <3>2 DEF Saved
      <4>2. r.at \in DOMAIN h /\ r.at \in Nat  BY <1>1, <3>2
      <4> HIDE DEF N, R, Old
      <4>3. \A n \in DOMAIN N : N[n] = IF n = r.at THEN R ELSE h[n]
        BY <4>1, <4>2
      <4>4. DOMAIN N \ {r.at} = Old  BY <4>1
      <4> QED  BY <4>2, <4>3, <4>4
    <3> QED  BY <1>2, <3>1, <3>2, RequestKinds
  <2> HIDE DEF N, R, Old
  <2>2. \A n \in DOMAIN N : N[n] = R \/ (n \in Old /\ N[n] = h[n])  BY <2>1
  <2>3. ASSUME NEW n \in DOMAIN N, NEW m \in DOMAIN N, n # m
        PROVE  \/ \E k, l \in Old : k # l /\ N[n] = h[k] /\ N[m] = h[l]
               \/ N[n] = R /\ \E l \in Old : N[m] = h[l]
               \/ N[m] = R /\ \E k \in Old : N[n] = h[k]
    <3>1. n = at => N[n] = R /\ m \in Old /\ N[m] = h[m]  BY <2>1, <2>3
    <3>2. m = at => N[m] = R /\ n \in Old /\ N[n] = h[n]  BY <2>1, <2>3
    <3>3. n # at /\ m # at => n \in Old /\ m \in Old /\ N[n] = h[n] /\ N[m] = h[m]
      BY <2>1
    <3> QED  BY <2>3, <3>1, <3>2, <3>3
  <2> QED  BY <1>2, <2>2, <2>3 DEF N, R, Old
<1>3. CASE r.call = "forget"
  <2>1. N = RemoveAt(h, r.at) /\ Old = DOMAIN h \ {r.at}  BY <1>3 DEF Saved
  <2>2. /\ \A n \in DOMAIN N : \E k \in DOMAIN h : k # r.at /\ N[n] = h[k]
        /\ \A n, m \in DOMAIN N : n # m =>
             \E k, l \in DOMAIN h \ {r.at} : k # l /\ N[n] = h[k] /\ N[m] = h[l]
    <3>1. r.at \in DOMAIN h  BY <1>3
    <3> HIDE DEF N
    <3> QED  BY ONLY <2>1, <3>1, h \in Seq(SyncRecord), Remains
  <2> HIDE DEF N, Old
  <2>3. /\ \A n \in DOMAIN N : \E k \in Old : N[n] = h[k]
        /\ \A n, m \in DOMAIN N : n # m =>
             \E k, l \in Old : k # l /\ N[n] = h[k] /\ N[m] = h[l]
    BY <2>1, <2>2
  <2> QED  BY <2>3 DEF N, Old
<1> QED  BY <1>2, <1>3

LEMMA ExactInit == Init => Exact
BY DEF Init, Exact, RecordsOwed, RecordsDiffer, AddsAreNew, ReplaceIsFirst, Handling

\* Steps that leave the records, and at most cut changes that are through.
LEMMA ExactCalm ==
  ASSUME Exact, Fine' => Fine, UNCHANGED <<map, owed, file>>,
         \A a \in Agents : Handling(a) =>
           \/ todo[a] = <<>>
           \/ Handling(a)' /\ target'[a] = target[a] /\ todo'[a] = todo[a],
         \A a \in Agents : Handling(a)' =>
           \/ todo'[a] = <<>>
           \/ /\ Handling(a) /\ target'[a] = target[a] /\ todo'[a] = todo[a]
              /\ Waiting(a)' => Waiting(a) /\ req'[a] = req[a]
  PROVE  Exact'
<1> SUFFICES ASSUME Fine'
             PROVE  RecordsOwed' /\ RecordsDiffer' /\ AddsAreNew' /\ ReplaceIsFirst'
  BY DEF Exact
<1>1. RecordsOwed /\ RecordsDiffer /\ AddsAreNew /\ ReplaceIsFirst  BY DEF Exact
<1>2. RecordsOwed'  BY <1>1 DEF RecordsOwed, Takes
<1>3. RecordsDiffer'  BY <1>1 DEF RecordsDiffer
<1>4. AddsAreNew'  BY <1>1 DEF AddsAreNew
<1>5. ReplaceIsFirst'
  BY <1>1 DEF ReplaceIsFirst, Disappeared
<1> QED  BY <1>2, <1>3, <1>4, <1>5

LEMMA ExactEdit ==
  ASSUME Types, Exact, NEW t \in Targets, NEW entries \in SUBSET MayHold[t],
         Edit(t, entries)
  PROVE  Exact'
<1> SUFFICES ASSUME Fine'
             PROVE  RecordsOwed' /\ RecordsDiffer' /\ AddsAreNew' /\ ReplaceIsFirst'
  BY DEF Exact
<1>1. /\ UNCHANGED <<map, owed, pc, todo, target>> /\ Fine
      /\ \E a \in Agents : OnlyOn(a)
  BY DEF Edit, handler, Fine, Steady
<1>2. \A b \in Agents : ~Handling(b) /\ ~Handling(b)'
  BY <1>1 DEF OnlyOn, Handling
<1>3. RecordsOwed /\ RecordsDiffer  BY <1>1 DEF Exact
<1>4. RecordsOwed'
  <2>1. \A n \in DOMAIN map : map[n].entry \in owed[map[n].target]
    BY <1>2, <1>3 DEF RecordsOwed
  <2> QED  BY <1>1, <2>1 DEF RecordsOwed
<1>5. RecordsDiffer'  BY <1>1, <1>3 DEF RecordsDiffer
<1>6. AddsAreNew' /\ ReplaceIsFirst'  BY <1>2 DEF AddsAreNew, ReplaceIsFirst
<1> QED  BY <1>4, <1>5, <1>6

\* A comparison plans to take away the records of the entries that are gone,
\* and finds none of those that are new.
LEMMA ExactCompare ==
  ASSUME Types, Types', Filed, Exact, NEW a \in Agents, NEW t \in Targets, Compare(a, t),
         UNCHANGED <<file, map, req>>, Fine' => Fine, pc'[a] = "pick",
         \A b \in Agents \ {a} : pc'[b] = pc[b],
         Uncompared(a, t), ~Handling(a) \/ todo[a] = <<>>
  PROVE  Exact'
<1> SUFFICES ASSUME Fine'
             PROVE  RecordsOwed' /\ RecordsDiffer' /\ AddsAreNew' /\ ReplaceIsFirst'
  BY DEF Exact
<1> DEFINE removed == Snap(a)[t] \ file[t]
           added == file[t] \ Snap(a)[t]
<1>1. /\ PlanFor(todo'[a], removed, added)
      /\ target'[a] = t
      /\ owed' = [owed EXCEPT ![t] = (owed[t] \cup added) \ removed]
      /\ crossed' = (crossed \/ (Cardinality(removed) > 1 /\ added # {}))
      /\ \A b \in Agents \ {a} : target'[b] = target[b] /\ todo'[b] = todo[b]
  BY CompareIs
<1>2. /\ RecordsOwed /\ RecordsDiffer /\ AddsAreNew /\ ReplaceIsFirst
      /\ Fine /\ Steady
  BY DEF Exact, Fine
<1>3. /\ \A b \in Agents \ {a} : /\ Handling(b)' <=> Handling(b)
                                 /\ Waiting(b)' <=> Waiting(b)
      /\ Handling(a)' /\ ~Waiting(a)'
  BY DEF Handling, Waiting
<1>4. OneBehind(t) /\ OwedIsSeen(t)  BY <1>2 DEF Filed
<1>5. /\ owed'[t] = (owed[t] \cup added) \ removed
      /\ \A s \in Targets : s # t => owed'[s] = owed[s]
      /\ \A n \in DOMAIN map : map[n].target \in Targets
  <2>1. owed \in [Targets -> SUBSET Entries] /\ map \in Seq(SyncRecord)
    BY DEF Types, TypeOK
  <2>2. \A n \in DOMAIN map : map[n] \in SyncRecord  BY <2>1
  <2>3. \A n \in DOMAIN map : map[n].target \in Targets  BY <2>2 DEF SyncRecord
  <2> HIDE DEF removed, added
  <2> QED  BY <1>1, <2>1, <2>3
<1>6. RecordsOwed'
  <2> SUFFICES ASSUME NEW n \in DOMAIN map
               PROVE  \/ map[n].entry \in owed'[map[n].target]
                      \/ /\ map[n].entry \notin file[map[n].target]
                         /\ \E b \in Agents : Handling(b)' /\ target'[b] = map[n].target /\
                              \E i \in DOMAIN todo'[b] : Takes(todo'[b][i], map[n])
    BY DEF RecordsOwed, Takes
  <2>1. CASE map[n].entry \in owed[map[n].target]
    <3>1. CASE map[n].target = t /\ map[n].entry \in removed
      <4>1. \E i \in DOMAIN todo'[a] : Takes(todo'[a][i], map[n])
        BY <1>1, <3>1 DEF PlanFor, Takes
      <4> QED  BY <1>1, <1>3, <3>1, <4>1
    <3>2. CASE ~(map[n].target = t /\ map[n].entry \in removed)
      BY <1>5, <2>1, <3>2
    <3> QED  BY <3>1, <3>2
  <2>2. ASSUME map[n].entry \notin file[map[n].target],
               NEW b \in Agents, Handling(b), target[b] = map[n].target,
               NEW i \in DOMAIN todo[b], Takes(todo[b][i], map[n])
        PROVE  \E c \in Agents : Handling(c)' /\ target'[c] = map[n].target /\
                 \E j \in DOMAIN todo'[c] : Takes(todo'[c][j], map[n])
    <3>1. b # a  BY <2>2
    <3> QED  BY <1>1, <1>3, <2>2, <3>1
  <2> QED  BY <1>2, <2>1, <2>2 DEF RecordsOwed
<1>7. RecordsDiffer'  BY <1>2 DEF RecordsDiffer
\* If anything was added, no other handler has changes of this file, and what
\* was owed stands in the old snapshot.
<1>8. ASSUME added # {}, NEW n \in DOMAIN map, map[n].target = t
      PROVE  map[n].entry \in owed[t] /\ map[n].entry \in Snap(a)[t]
  <2>1. Snap(a)[t] # file[t]  BY <1>8
  <2>2. owed[t] \subseteq Snap(a)[t] /\ \A b \in Agents : ~Busy(b, t)
    BY <1>4, <2>1 DEF OneBehind, OwedIsSeen
  <2>3. \A b \in Agents : Handling(b) /\ target[b] = t => todo[b] = <<>>
    BY <2>2 DEF Busy
  <2>4. map[n].entry \in owed[t]  BY <1>2, <1>8, <2>3 DEF RecordsOwed
  <2> QED  BY <2>2, <2>4
<1>9. AddsAreNew'
  <2>1. ASSUME NEW i \in DOMAIN todo'[a], todo'[a][i].do # "remove",
               NEW n \in DOMAIN map, map[n].target = t, map[n].entry = todo'[a][i].entry
        PROVE  FALSE
    <3>1. map[n].entry \in added  BY <1>1, <2>1 DEF PlanFor
    <3> QED  BY <1>8, <2>1, <3>1
  <2>2. \A i, j \in DOMAIN todo'[a] :
          todo'[a][i].do # "remove" /\ todo'[a][j].do # "remove"
            /\ todo'[a][i].entry = todo'[a][j].entry => i = j
    BY <1>1 DEF PlanFor
  <2> QED  BY <1>1, <1>2, <1>3, <2>1, <2>2 DEF AddsAreNew
<1>10. ReplaceIsFirst'
  <2>1. ASSUME NEW i \in DOMAIN todo'[a], todo'[a][i].do = "replace"
        PROVE  i = 1 /\ \A n, k \in Disappeared(t) : n = k
    <3>1. added # {}  BY <1>1, <2>1 DEF PlanFor
    <3>2. ~(Cardinality(removed) > 1)  BY <1>1, <3>1 DEF Fine
    <3>3. i = 1  BY <1>1, <2>1, <3>2 DEF PlanFor
    <3>4. \A x, y \in removed : x = y
      <4>1. Host[a] \in Processes  BY ConstantsAssumption
      <4>2. removed \subseteq Entries  BY <4>1 DEF Snap, Types, TypeOK
      <4>3. IsFiniteSet(removed)  BY <4>2, ConstantsAssumption, FS_Subset
      <4> HIDE DEF removed
      <4>4. SUFFICES ASSUME NEW x \in removed, NEW y \in removed, x # y  PROVE FALSE
        OBVIOUS
      <4>5. IsFiniteSet({x, y}) /\ {x, y} \subseteq removed /\ Cardinality({x, y}) = 2
        <5>1. IsFiniteSet({x}) /\ Cardinality({x}) = 1  BY FS_Singleton
        <5>2. IsFiniteSet({x} \cup {y}) /\ Cardinality({x} \cup {y}) = 1 + 1
          BY <4>4, <5>1, FS_AddElement
        <5>3. {x} \cup {y} = {x, y}  OBVIOUS
        <5> QED  BY <5>2, <5>3
      <4>6. Cardinality(removed) \in Nat /\ 2 <= Cardinality(removed)
        BY <4>3, <4>5, FS_Subset, FS_CardinalityType
      <4> QED  BY <3>2, <4>6
    <3>5. ASSUME NEW n \in Disappeared(t), NEW k \in Disappeared(t)  PROVE n = k
      <4>1. /\ n \in DOMAIN map /\ map[n].target = t /\ map[n].entry \notin file[t]
            /\ k \in DOMAIN map /\ map[k].target = t /\ map[k].entry \notin file[t]
        BY DEF Disappeared
      <4>2. map[n].entry \in removed /\ map[k].entry \in removed
        BY <1>8, <3>1, <4>1
      <4>3. map[n].entry = map[k].entry  BY <3>4, <4>2
      <4> QED  BY <1>2, <4>1, <4>3 DEF RecordsDiffer
    <3> QED  BY <3>3, <3>5
  <2> QED  BY <1>1, <1>2, <1>3, <2>1 DEF ReplaceIsFirst, Disappeared
<1> QED  BY <1>6, <1>7, <1>9, <1>10

LEMMA NoneOrOne ==
  ASSUME NEW S, IsFiniteSet(S), Cardinality(S) # 1, \A x, y \in S : x = y
  PROVE  S = {}
<1> SUFFICES ASSUME NEW x \in S  PROVE FALSE  OBVIOUS
<1>1. S = {x}  OBVIOUS
<1>2. Cardinality({x}) = 1  BY FS_Singleton
<1> QED  BY <1>1, <1>2

LEMMA ExactSkip ==
  ASSUME Types, Held, Exact, NEW a \in Agents, pc[a] = "pick", todo[a] # <<>>,
         Otherwise, Skip(a),
         \/ /\ Head(todo[a]).do # "remove"
            /\ Recorded(target[a], Head(todo[a]).entry)
         \/ /\ Head(todo[a]).do = "remove"
            /\ Cardinality(Matches(target[a], Head(todo[a]).entry)) # 1
  PROVE  Exact'
<1> SUFFICES ASSUME Fine'
             PROVE  RecordsOwed' /\ RecordsDiffer' /\ AddsAreNew' /\ ReplaceIsFirst'
  BY DEF Exact
<1> DEFINE t == target[a]
           c == Head(todo[a])
<1>1. /\ UNCHANGED <<file, map, owed, pc, target, req>> /\ Fine
      /\ todo'[a] = Tail(todo[a]) /\ \A b \in Agents \ {a} : todo'[b] = todo[b]
  BY DEF Skip, Otherwise, disk, Fine, Steady, Types, TypeOK
<1>2. RecordsOwed /\ RecordsDiffer /\ AddsAreNew /\ ReplaceIsFirst
  BY <1>1 DEF Exact
<1>3. todo[a] \in Seq(Change1)  BY DEF Types, TypeOK
<1>4. c = todo[a][1] /\ 1 \in DOMAIN todo[a]  BY <1>3, TailIs
<1>5. /\ \A i \in DOMAIN todo'[a] :
           i + 1 \in DOMAIN todo[a] /\ todo'[a][i] = todo[a][i + 1] /\ i \in Nat \ {0}
      /\ \A i \in DOMAIN todo[a] : i = 1 \/ \E j \in DOMAIN todo'[a] : todo'[a][j] = todo[a][i]
  BY <1>1, <1>3, TailIs, TailHas
<1>6. \A b \in Agents : /\ Handling(b)' <=> Handling(b)
                        /\ Waiting(b)' <=> Waiting(b)
  BY <1>1 DEF Handling, Waiting
<1>7. Handling(a) /\ ~Waiting(a)  BY DEF Handling, Waiting
\* An entry to be added is not skipped, and one to be removed has no record.
<1>8. c.do = "remove" /\ \A n \in DOMAIN map : map[n].target = t => map[n].entry # c.entry
  <2>1. CASE Recorded(t, c.entry) /\ c.do # "remove"
    <3>1. PICK n \in DOMAIN map : map[n].target = t /\ map[n].entry = c.entry
      BY <2>1, RecordedIs DEF Held
    <3> QED  BY <1>2, <1>4, <1>7, <2>1, <3>1 DEF AddsAreNew
  <2>2. CASE c.do = "remove" /\ Cardinality(Matches(t, c.entry)) # 1
    <3>1. Matches(t, c.entry) \subseteq DOMAIN map  BY DEF Matches
    <3>2. IsFiniteSet(Matches(t, c.entry))
      BY <3>1, FoundIsFinite DEF Types, TypeOK
    <3>3. \A n, k \in Matches(t, c.entry) : n = k  BY <1>2 DEF Matches, RecordsDiffer
    <3>4. Matches(t, c.entry) = {}  BY <2>2, <3>2, <3>3, NoneOrOne
    <3> QED  BY <2>2, <3>4 DEF Matches
  <2> QED  BY <2>1, <2>2
<1>9. RecordsOwed'
  <2> SUFFICES ASSUME NEW n \in DOMAIN map, map[n].entry \notin file[map[n].target],
                      NEW b \in Agents, Handling(b), target[b] = map[n].target,
                      NEW i \in DOMAIN todo[b], Takes(todo[b][i], map[n])
               PROVE  \E j \in DOMAIN todo'[b] : Takes(todo'[b][j], map[n])
    BY <1>1, <1>2, <1>6 DEF RecordsOwed, Takes
  <2>1. CASE b # a  BY <1>1, <2>1
  <2>2. CASE b = a
    <3>1. i # 1
      <4>1. ASSUME i = 1  PROVE FALSE
        BY <1>4, <1>8, <2>2, <4>1 DEF Takes
      <4> QED  BY <4>1
    <3> QED  BY <1>5, <2>2, <3>1
  <2> QED  BY <2>1, <2>2
<1>10. RecordsDiffer'  BY <1>1, <1>2 DEF RecordsDiffer
<1>11. AddsAreNew'
  <2>1. \A i, j \in DOMAIN todo'[a] :
          todo'[a][i].do # "remove" /\ todo'[a][j].do # "remove"
            /\ todo'[a][i].entry = todo'[a][j].entry => i = j
    <3> SUFFICES ASSUME NEW i \in DOMAIN todo'[a], NEW j \in DOMAIN todo'[a],
                        todo'[a][i].do # "remove", todo'[a][j].do # "remove",
                        todo'[a][i].entry = todo'[a][j].entry
                 PROVE  i = j
      OBVIOUS
    <3>1. i + 1 = j + 1  BY <1>2, <1>5, <1>7 DEF AddsAreNew
    <3> QED  BY <1>5, <3>1
  <2>2. \A i \in DOMAIN todo'[a] : todo'[a][i].do # "remove" =>
          \A n \in DOMAIN map : map[n].target = t => map[n].entry # todo'[a][i].entry
    BY <1>2, <1>5, <1>7 DEF AddsAreNew
  <2> SUFFICES ASSUME NEW b \in Agents, Handling(b)
               PROVE  /\ \A i \in DOMAIN todo'[b] : todo'[b][i].do # "remove" =>
                           \A n \in DOMAIN map :
                             map[n].target = target[b] => map[n].entry # todo'[b][i].entry
                      /\ \A i, j \in DOMAIN todo'[b] :
                           todo'[b][i].do # "remove" /\ todo'[b][j].do # "remove"
                             /\ todo'[b][i].entry = todo'[b][j].entry => i = j
    BY <1>1, <1>6 DEF AddsAreNew
  <2>3. CASE b = a  BY <2>1, <2>2, <2>3
  <2>4. CASE b # a  BY <1>1, <1>2, <2>4 DEF AddsAreNew
  <2> QED  BY <2>3, <2>4
<1>12. ReplaceIsFirst'
  <2>1. ASSUME NEW i \in DOMAIN todo'[a], todo'[a][i].do = "replace"  PROVE FALSE
    <3>1. i + 1 = 1  BY <1>2, <1>5, <1>7, <2>1 DEF ReplaceIsFirst
    <3> QED  BY <1>5, <3>1
  <2> SUFFICES ASSUME NEW b \in Agents, Handling(b),
                      NEW i \in DOMAIN todo'[b], todo'[b][i].do = "replace"
               PROVE  /\ i = 1
                      /\ \A n, k \in Disappeared(target[b]) : n = k
                      /\ Waiting(b) /\ req[b].call = "remember" =>
                           Disappeared(target[b]) = {}
    BY <1>1, <1>6 DEF ReplaceIsFirst, Disappeared
  <2>2. b # a  BY <2>1
  <2> QED  BY <1>1, <1>2, <2>2 DEF ReplaceIsFirst
<1> QED  BY <1>9, <1>10, <1>11, <1>12

\* A replacement that is sent as an addition has found no record.
LEMMA ExactSend ==
  ASSUME Types, Exact, NEW a \in Agents, pc[a] = "pick", todo[a] # <<>>, Otherwise,
         NEW r, Send(a, r),
         r.call = "remember" /\ Head(todo[a]).do = "replace" =>
           Cardinality(Disappeared(target[a])) # 1
  PROVE  Exact'
<1> SUFFICES ASSUME Fine'
             PROVE  RecordsOwed' /\ RecordsDiffer' /\ AddsAreNew' /\ ReplaceIsFirst'
  BY DEF Exact
<1>1. /\ UNCHANGED <<file, map, owed, target, todo>> /\ Fine
      /\ pc'[a] = "sent" /\ req'[a] = r
      /\ \A b \in Agents \ {a} : pc'[b] = pc[b] /\ req'[b] = req[b]
  BY DEF Send, Otherwise, disk, Fine, Steady, Types, TypeOK
<1>2. RecordsOwed /\ RecordsDiffer /\ AddsAreNew /\ ReplaceIsFirst
  BY <1>1 DEF Exact
<1>3. \A b \in Agents : Handling(b)' <=> Handling(b)
  BY <1>1 DEF Handling
<1>4. RecordsOwed'  BY <1>1, <1>2, <1>3 DEF RecordsOwed, Takes
<1>5. RecordsDiffer'  BY <1>1, <1>2 DEF RecordsDiffer
<1>6. AddsAreNew'  BY <1>1, <1>2, <1>3 DEF AddsAreNew
<1>7. ASSUME NEW i \in DOMAIN todo[a], todo[a][i].do = "replace", r.call = "remember"
      PROVE  Disappeared(target[a]) = {}
  <2>1. i = 1 /\ \A n, k \in Disappeared(target[a]) : n = k
    BY <1>2, <1>7 DEF ReplaceIsFirst, Handling
  <2>2. todo[a] \in Seq(Change1)  BY DEF Types, TypeOK
  <2>3. Head(todo[a]).do = "replace"  BY <1>7, <2>1, <2>2, TailIs
  <2>4. Disappeared(target[a]) \subseteq DOMAIN map  BY DEF Disappeared
  <2>5. IsFiniteSet(Disappeared(target[a]))
    BY <2>4, FoundIsFinite DEF Types, TypeOK
  <2> QED  BY <1>7, <2>1, <2>3, <2>5, NoneOrOne
<1>8. ReplaceIsFirst'
  BY <1>1, <1>2, <1>3, <1>7 DEF ReplaceIsFirst, Disappeared, Waiting
<1> QED  BY <1>4, <1>5, <1>6, <1>8

LEMMA ExactFinish ==
  ASSUME Types, Held, Filed, Exact, NEW a \in Agents, Finish(a)
  PROVE  Exact'
<1> SUFFICES ASSUME Fine'
             PROVE  RecordsOwed' /\ RecordsDiffer' /\ AddsAreNew' /\ ReplaceIsFirst'
  BY DEF Exact
<1> DEFINE t == target[a]
           c == Head(todo[a])
           r == req[a]
           N == map'
           R == Record(t, r.entry, got[a])
           Old == {k \in DOMAIN map : r.call # "remember" => k # r.at}
<1>1. /\ UNCHANGED <<file, owed, target>> /\ Fine /\ Steady
      /\ pc[a] = "back" /\ pc'[a] = "pick"
      /\ N = Saved(held[a], r, t, got[a])
      /\ todo'[a] = Tail(todo[a])
      /\ \A b \in Agents \ {a} :
           pc'[b] = pc[b] /\ todo'[b] = todo[b] /\ req'[b] = req[b]
  BY SavedIs DEF Finish, Settle, history, Fine, Steady, Types, TypeOK
<1>2. /\ RecordsOwed /\ RecordsDiffer /\ AddsAreNew /\ ReplaceIsFirst
      /\ TodoIsRight /\ Aimed /\ Meant
  BY <1>1 DEF Exact, Filed
<1>3. /\ todo[a] \in Seq(Change1) /\ todo[a] # <<>> /\ t \in Targets
      /\ r \in Request /\ map \in Seq(SyncRecord)
      /\ held[a] = map /\ (r.call # "remember" => r.at \in DOMAIN map)
      /\ \A b \in Agents \ {a} : ~Waiting(b)
  BY <1>1 DEF Types, TypeOK, Posed, Held, Single, Waiting, Steady
<1>4. c = todo[a][1] /\ 1 \in DOMAIN todo[a]  BY <1>3, TailIs
<1>5. /\ \A i \in DOMAIN todo'[a] :
           i + 1 \in DOMAIN todo[a] /\ todo'[a][i] = todo[a][i + 1] /\ i \in Nat \ {0}
      /\ \A i \in DOMAIN todo[a] : i = 1 \/ \E j \in DOMAIN todo'[a] : todo'[a][j] = todo[a][i]
  BY <1>1, <1>3, TailIs, TailHas
<1>6. /\ \A b \in Agents : Handling(b)' <=> Handling(b)
      /\ Handling(a) /\ Waiting(a) /\ \A b \in Agents : ~Waiting(b)'
  BY <1>1, <1>3 DEF Handling, Waiting
<1>7. /\ \A n \in DOMAIN N :
           (r.call # "forget" /\ N[n] = R) \/ \E k \in Old : N[n] = map[k]
      /\ \A n, m \in DOMAIN N : n # m =>
           \/ \E k, l \in Old : k # l /\ N[n] = map[k] /\ N[m] = map[l]
           \/ r.call # "forget" /\ N[n] = R /\ \E l \in Old : N[m] = map[l]
           \/ r.call # "forget" /\ N[m] = R /\ \E k \in Old : N[n] = map[k]
  BY <1>1, <1>3, SavedFrom
<1>8. r.call # "forget" => R.target = t /\ R.entry = c.entry /\ c.do # "remove"
  <2>1. r.call # "forget" => r.entry = c.entry  BY <1>6 DEF Held, Asked
  <2>2. r.call # "forget" => c.do # "remove"  BY <1>2, <1>3, <1>6, RequestKinds DEF Meant
  <2> QED  BY <2>1, <2>2, RecordIs
<1>9. r.call # "remember" => map[r.at].target = t /\ map[r.at].entry \notin file[t]
  BY <1>2, <1>3, <1>6 DEF Aimed
\* The change at hand takes no other record away.
<1>10. ASSUME NEW k \in Old, map[k].target = t, map[k].entry \notin file[t], Takes(c, map[k])
       PROVE  FALSE
  <2>1. k \in Disappeared(t)  BY <1>10 DEF Disappeared
  <2>2. CASE c.do = "replace"
    <3>1. /\ \A n, m \in Disappeared(t) : n = m
          /\ r.call = "remember" => Disappeared(t) = {}
      BY <1>2, <1>4, <1>6, <2>2 DEF ReplaceIsFirst
    <3>2. r.call = "remember" \/ r.call = "update"
      BY <1>2, <1>3, <1>6, <2>2, RequestKinds DEF Meant
    <3>3. r.call # "remember" => r.at \in Disappeared(t)
      BY <1>3, <1>9 DEF Disappeared
    <3> QED  BY <2>1, <3>1, <3>2, <3>3
  <2>3. CASE c.do = "remove" /\ c.entry = map[k].entry
    <3>1. r.call = "forget" /\ map[r.at].entry = c.entry
      BY <1>2, <1>3, <1>6, <2>3, RequestKinds DEF Meant
    <3>2. k = r.at  BY <1>2, <1>3, <1>9, <1>10, <2>3, <3>1 DEF RecordsDiffer
    <3> QED  BY <3>1, <3>2
  <2> QED  BY <1>10, <2>2, <2>3 DEF Takes
\* No other handler has changes of that file.
<1>11. \A b \in Agents \ {a} : Handling(b) /\ target[b] = t => todo[b] = <<>>
  <2>1. OneBehind(t) /\ Busy(a, t)  BY <1>1, <1>3, <1>6 DEF Filed, Busy
  <2> QED  BY <2>1 DEF OneBehind, Busy
<1> HIDE DEF N, R, Old, c, r
<1>12. RecordsOwed'
  <2> SUFFICES ASSUME NEW n \in DOMAIN N
               PROVE  \/ N[n].entry \in owed[N[n].target]
                      \/ /\ N[n].entry \notin file[N[n].target]
                         /\ \E b \in Agents : Handling(b) /\ target[b] = N[n].target /\
                              \E j \in DOMAIN todo'[b] : Takes(todo'[b][j], N[n])
    BY <1>1, <1>6 DEF RecordsOwed, Takes, N
  <2>1. CASE r.call # "forget" /\ N[n] = R
    <3>1. c.entry \in owed[t]  BY <1>2, <1>4, <1>6, <1>8, <2>1 DEF TodoIsRight
    <3> QED  BY <1>8, <2>1, <3>1
  <2>2. ASSUME NEW k \in Old, N[n] = map[k], map[k].entry \notin owed[map[k].target]
        PROVE  /\ N[n].entry \notin file[N[n].target]
               /\ \E b \in Agents : Handling(b) /\ target[b] = N[n].target /\
                    \E j \in DOMAIN todo'[b] : Takes(todo'[b][j], N[n])
    <3>1. /\ k \in DOMAIN map /\ map[k].entry \notin file[map[k].target]
          /\ \E b \in Agents : Handling(b) /\ target[b] = map[k].target /\
               \E i \in DOMAIN todo[b] : Takes(todo[b][i], map[k])
      BY <1>2, <2>2 DEF RecordsOwed, Old
    <3>2. PICK b \in Agents : Handling(b) /\ target[b] = map[k].target /\
               \E i \in DOMAIN todo[b] : Takes(todo[b][i], map[k])
      BY <3>1
    <3>3. PICK i \in DOMAIN todo[b] : Takes(todo[b][i], map[k])  BY <3>2
    <3>4. CASE b # a  BY <1>1, <2>2, <3>1, <3>2, <3>4
    <3>5. CASE b = a
      <4>1. i # 1
        <5>1. ASSUME i = 1  PROVE FALSE
          BY <1>4, <1>10, <2>2, <3>1, <3>2, <3>3, <3>5, <5>1
        <5> QED  BY <5>1
      <4>2. PICK j \in DOMAIN todo'[a] : todo'[a][j] = todo[a][i]
        BY <1>5, <3>5, <4>1
      <4> QED  BY <2>2, <3>1, <3>2, <3>3, <3>5, <4>2
    <3> QED  BY <3>4, <3>5
  <2>3. ASSUME NEW k \in Old, N[n] = map[k], map[k].entry \in owed[map[k].target]
        PROVE  N[n].entry \in owed[N[n].target]
    BY <2>3
  <2> QED  BY <1>7, <2>1, <2>2, <2>3
<1>13. ASSUME NEW n \in DOMAIN N, NEW m \in DOMAIN N,
              N[n].target = N[m].target, N[n].entry = N[m].entry
       PROVE  n = m
  <2> SUFFICES ASSUME n # m  PROVE FALSE  OBVIOUS
  <2>1. ASSUME NEW k \in Old, NEW l \in Old, k # l, N[n] = map[k], N[m] = map[l]
        PROVE  FALSE
    BY <1>2, <1>13, <2>1 DEF RecordsDiffer, Old
  <2>2. ASSUME NEW l \in Old, map[l].target = R.target, map[l].entry = R.entry,
               r.call # "forget"
        PROVE  FALSE
    BY <1>2, <1>4, <1>6, <1>8, <2>2 DEF AddsAreNew, Old
  <2> QED  BY <1>7, <1>13, <2>1, <2>2
<1>14. AddsAreNew'
  <2> SUFFICES ASSUME NEW b \in Agents, Handling(b)
               PROVE  /\ \A i \in DOMAIN todo'[b] : todo'[b][i].do # "remove" =>
                           \A n \in DOMAIN N :
                             N[n].target = target[b] => N[n].entry # todo'[b][i].entry
                      /\ \A i, j \in DOMAIN todo'[b] :
                           todo'[b][i].do # "remove" /\ todo'[b][j].do # "remove"
                             /\ todo'[b][i].entry = todo'[b][j].entry => i = j
    BY <1>1, <1>6 DEF AddsAreNew, N
  <2>1. CASE b # a
    <3>1. \A i, j \in DOMAIN todo'[b] :
            todo'[b][i].do # "remove" /\ todo'[b][j].do # "remove"
              /\ todo'[b][i].entry = todo'[b][j].entry => i = j
      BY <1>1, <1>2, <2>1 DEF AddsAreNew
    <3>2. ASSUME NEW i \in DOMAIN todo'[b], todo'[b][i].do # "remove",
                 NEW n \in DOMAIN N, N[n].target = target[b],
                 N[n].entry = todo'[b][i].entry
          PROVE  FALSE
      <4>1. todo'[b] = todo[b]  BY <1>1, <2>1
      <4>2. todo[b] # <<>>  BY <3>2, <4>1
      <4>3. target[b] # t  BY <1>11, <2>1, <4>2
      <4>4. PICK k \in Old : N[n] = map[k]  BY <1>7, <1>8, <3>2, <4>3
      <4> QED  BY <1>2, <3>2, <4>1, <4>4 DEF AddsAreNew, Old
    <3> QED  BY <3>1, <3>2
  <2>2. CASE b = a
    <3>1. ASSUME NEW i \in DOMAIN todo'[a], NEW j \in DOMAIN todo'[a],
                 todo'[a][i].do # "remove", todo'[a][j].do # "remove",
                 todo'[a][i].entry = todo'[a][j].entry
          PROVE  i = j
      <4>1. i + 1 = j + 1  BY <1>2, <1>5, <1>6, <3>1 DEF AddsAreNew
      <4> QED  BY <1>5, <4>1
    <3>2. ASSUME NEW i \in DOMAIN todo'[a], todo'[a][i].do # "remove",
                 NEW n \in DOMAIN N, N[n].target = t,
                 N[n].entry = todo'[a][i].entry
          PROVE  FALSE
      <4>1. i + 1 \in DOMAIN todo[a] /\ todo'[a][i] = todo[a][i + 1] /\ i \in Nat \ {0}
        BY <1>5
      <4>2. CASE r.call # "forget" /\ N[n] = R
        <5>1. i + 1 = 1
          BY <1>2, <1>4, <1>6, <1>8, <3>2, <4>1, <4>2 DEF AddsAreNew
        <5> QED  BY <4>1, <5>1
      <4>3. CASE \E k \in Old : N[n] = map[k]
        BY <1>2, <1>6, <3>2, <4>1, <4>3 DEF AddsAreNew, Old
      <4> QED  BY <1>7, <4>2, <4>3
    <3> QED  BY <2>2, <3>1, <3>2
  <2> QED  BY <2>1, <2>2
<1>15. ReplaceIsFirst'
  <2> SUFFICES ASSUME NEW b \in Agents, Handling(b),
                      NEW i \in DOMAIN todo'[b], todo'[b][i].do = "replace"
               PROVE  /\ i = 1
                      /\ \A n, k \in DOMAIN N :
                           /\ N[n].target = target[b] /\ N[n].entry \notin file[target[b]]
                           /\ N[k].target = target[b] /\ N[k].entry \notin file[target[b]]
                           => n = k
    BY <1>1, <1>6 DEF ReplaceIsFirst, Disappeared, N
  <2>1. b # a
    <3>1. ASSUME b = a  PROVE FALSE
      <4>1. i \in DOMAIN todo'[a] /\ todo'[a][i].do = "replace"  BY <3>1
      <4>2. i \in Nat \ {0}  BY <1>5, <4>1
      <4>3. i + 1 = 1  BY <1>2, <1>5, <1>6, <4>1 DEF ReplaceIsFirst
      <4> QED  BY <4>2, <4>3
    <3> QED  BY <3>1
  <2>2. /\ todo'[b] = todo[b] /\ todo[b] # <<>>
        /\ i \in DOMAIN todo[b] /\ todo[b][i].do = "replace"
    BY <1>1, <2>1
  <2>3. target[b] # t  BY <1>11, <2>1, <2>2
  <2>4. i = 1 /\ \A n, k \in Disappeared(target[b]) : n = k
    BY <1>2, <2>2 DEF ReplaceIsFirst
  <2>5. ASSUME NEW n \in DOMAIN N, NEW k \in DOMAIN N,
               N[n].target = target[b], N[n].entry \notin file[target[b]],
               N[k].target = target[b], N[k].entry \notin file[target[b]]
        PROVE  n = k
    <3>1. PICK x \in Old : N[n] = map[x]  BY <1>7, <1>8, <2>3, <2>5
    <3>2. PICK y \in Old : N[k] = map[y]  BY <1>7, <1>8, <2>3, <2>5
    <3>3. x \in Disappeared(target[b]) /\ y \in Disappeared(target[b])
      BY <2>5, <3>1, <3>2 DEF Disappeared, Old
    <3>4. x = y  BY <2>4, <3>3
    <3> QED  BY <1>13, <3>1, <3>2, <3>4
  <2> QED  BY <2>4, <2>5
<1>16. RecordsDiffer'  BY <1>13 DEF RecordsDiffer, N
<1> QED  BY <1>12, <1>14, <1>15, <1>16

LEMMA ExactNext ==
  ASSUME Types, Types', Held, Filed, Exact, [Next]_vars
  PROVE  Exact'
<1>1. ASSUME NEW a \in Agents, BeforeAgentStart(a)  PROVE Exact'
  <2>1. UNCHANGED <<file, owed, target, todo, map, req>> /\ (Fine' => Fine)
    BY <1>1 DEF BeforeAgentStart, disk, Fine, Steady
  <2>2. \A b \in Agents : (Handling(b) <=> Handling(b)') /\ (Waiting(b) <=> Waiting(b)')
    BY <1>1 DEF BeforeAgentStart, Handling, Waiting, Types, TypeOK
  <2> QED  BY <2>1, <2>2, ExactCalm
<1>2. ASSUME NEW a \in Agents, AgentEnd(a)  PROVE Exact'
  <2>1. /\ UNCHANGED <<file, map, req>> /\ (Fine' => Fine)
        /\ pc[a] = "on" /\ Compare(a, "memory")
        /\ pc'[a] = "pick" /\ \A b \in Agents \ {a} : pc'[b] = pc[b]
    BY <1>2 DEF AgentEnd, Compare, disk, Fine, Steady, Types, TypeOK
  <2>2. ~Handling(a) /\ "memory" \in Targets /\ Uncompared(a, "memory")
    BY <2>1 DEF Handling, Targets, Uncompared
  <2> QED  BY <2>1, <2>2, ExactCompare
<1>3. ASSUME NEW a \in Agents, NextFile(a)  PROVE Exact'
  <2>1. UNCHANGED <<file, map, req>> /\ pc[a] = "pick" /\ todo[a] = <<>>
    BY <1>3 DEF NextFile, disk
  <2>2. CASE target[a] = "memory"
    <3>1. Compare(a, "user") /\ UNCHANGED pc /\ "user" \in Targets /\ (Fine' => Fine)
      BY <1>3, <2>2 DEF NextFile, Compare, Targets, Fine, Steady
    <3>2. Uncompared(a, "user")  BY <2>1, <2>2 DEF Uncompared, Handling
    <3> QED  BY <2>1, <3>1, <3>2, ExactCompare
  <2>3. CASE target[a] # "memory"
    <3>1. /\ UNCHANGED <<todo, owed>> /\ (Fine' => Fine) /\ pc'[a] = "off"
          /\ \A b \in Agents \ {a} : pc'[b] = pc[b] /\ target'[b] = target[b]
      BY <1>3, <2>3 DEF NextFile, Fine, Steady, Types, TypeOK
    <3>2. \A b \in Agents :
            /\ Handling(b) => todo[b] = <<>> \/ (Handling(b)' /\ target'[b] = target[b])
            /\ Handling(b)' => Handling(b) /\ target'[b] = target[b]
            /\ Waiting(b)' => Waiting(b)
      BY <2>1, <3>1 DEF Handling, Waiting
    <3> QED  BY <2>1, <3>1, <3>2, ExactCalm
  <2> QED  BY <2>2, <2>3
<1>4. ASSUME NEW a \in Agents, SyncAdd(a) \/ SyncRemove(a) \/ SyncReplace(a)
      PROVE  Exact'
  BY <1>4, SyncCases, ExactSkip, ExactSend
<1>5. ASSUME NEW a \in Agents, Serve(a)  PROVE Exact'
  <2>1. pc[a] = "sent" /\ UNCHANGED <<file, map, owed, todo, target, req>> /\ (Fine' => Fine)
    <3>1. Fine' => Fine
      BY <1>5 DEF Serve, Answer, Fine, Steady
    <3> QED  BY <1>5, <3>1 DEF Serve, Answer, disk
  <2>2. \A b \in Agents : (Handling(b) <=> Handling(b)') /\ (Waiting(b) <=> Waiting(b)')
    BY <1>5, <2>1 DEF Serve, Answer, Handling, Waiting, Types, TypeOK
  <2> QED  BY <2>1, <2>2, ExactCalm
\* A call fails only where one was refused or went unheard.
<1>6. ASSUME NEW a \in Agents, FinishFailed(a)  PROVE Exact'
  <2>1. refused' \/ lost'  BY <1>6 DEF FinishFailed, Held, Failures
  <2> QED  BY <2>1 DEF Exact, Fine
<1>7. ASSUME NEW a \in Agents, Throw(a)  PROVE Exact'
  BY <1>7 DEF Throw, Exact, Fine, Steady
<1>8. ASSUME NEW p \in Processes, Crash(p)  PROVE Exact'
  BY <1>8 DEF Crash, Exact, Fine, Steady
<1>9. CASE UNCHANGED vars \/ \E r \in late : ServeLate(r)
  <2>1. UNCHANGED <<disk, handler, history>>  BY <1>9 DEF vars, ServeLate
  <2>2. UNCHANGED <<file, map, owed, todo, target, req, pc>> /\ (Fine' => Fine)
    BY <2>1 DEF disk, handler, history, Fine, Steady
  <2> QED  BY <2>2, ExactCalm DEF Handling, Waiting
<1> QED
  BY <1>1, <1>2, <1>3, <1>4, <1>5, <1>6, <1>7, <1>8, <1>9, ExactEdit, ExactFinish
  DEF Next, Work

ExactInv == KeptInv /\ Explained /\ Exact

\* When all is quiet and all went well, the records are what AMM holds.
LEMMA MirrorIsMap ==
  ASSUME Types, Held, Explained, AllWell, NEW t \in Targets
  PROVE  /\ \A n \in DOMAIN map : map[n].target = t => map[n].entry \in Mirrored(t)
         /\ \A e \in Mirrored(t) :
              \E n \in DOMAIN map : map[n].target = t /\ map[n].entry = e
<1>1. Sound /\ ~lost  BY DEF AllWell, Sound
<1>2. MapToBe = map
  BY MapUnanswered DEF AllWell, Quiet, Handling
<1>3. Outs = {} /\ Lists = {}  BY <1>1 DEF Outs, Lists
<1>4. TrueOf(map, mems, likened, {}, {})  BY <1>1, <1>2, <1>3 DEF Explained
<1>5. \A n \in DOMAIN map : map[n].id \in DOMAIN mems /\ map[n].target \in Targets
  <2>1. map \in Seq(SyncRecord)  BY DEF Types, TypeOK
  <2>2. \A n \in DOMAIN map : map[n] \in SyncRecord  BY <2>1
  <2> QED  BY <2>2 DEF Held, Known, SyncRecord
<1>6. ASSUME NEW n \in DOMAIN map, map[n].target = t
      PROVE  map[n].entry \in Mirrored(t)
  <2>1. Fits(map[n], mems)  BY <1>4 DEF TrueOf, AllWell
  <2> QED  BY <1>5, <1>6, <2>1 DEF Fits, Mirrored
<1>7. ASSUME NEW e \in Mirrored(t)
      PROVE  \E n \in DOMAIN map : map[n].target = t /\ map[n].entry = e
  <2>1. PICK i \in DOMAIN mems :
          mems[i].active /\ mems[i].of = t /\ mems[i].body = e
    BY DEF Mirrored
  <2>2. PICK n \in DOMAIN map : map[n].id = i  BY <1>4, <2>1 DEF TrueOf
  <2>3. Fits(map[n], mems)  BY <1>4 DEF TrueOf, AllWell
  <2> QED  BY <2>1, <2>2, <2>3 DEF Fits
<1> QED  BY <1>6, <1>7

\* For any entries, agents and processes: once the handlers are through, all
\* went well and AMM has taken no entry for another one, it holds every entry
\* that a comparison found added, and nothing else unless a turn removed two
\* entries or more and added some.
THEOREM MirrorExact == Spec => []MirrorIsExact
<1>1. Init => ExactInv
  BY TypesInit, HeldInit, FiledInit, TrackedInit, ExplainedInit, ExactInit
  DEF ExactInv, KeptInv
<1>2. ExactInv /\ [Next]_vars => ExactInv'
  BY TypesNext, HeldNext, FiledNext, TrackedNext, ExplainedNext, ExactNext
  DEF ExactInv, KeptInv
<1>3. ASSUME ExactInv  PROVE MirrorIsExact
  <2> SUFFICES ASSUME AllWell, NEW t \in Targets
               PROVE  /\ owed[t] \subseteq Mirrored(t)
                      /\ ~crossed => Mirrored(t) = owed[t]
    BY DEF MirrorIsExact
  <2>1. Types /\ Held /\ Filed /\ Tracked /\ Explained /\ Exact
    BY <1>3 DEF ExactInv, KeptInv
  <2>2. queue = <<>> /\ ~spilled  BY <2>1 DEF Held, Failures, AllWell
  <2>3. owed[t] \subseteq Mirrored(t)
    <3> SUFFICES ASSUME NEW e \in owed[t]  PROVE e \in Mirrored(t)  OBVIOUS
    <3>1. Kept(t, e)  BY <2>1, <2>2 DEF Tracked, AllWell, Steady
    <3>2. \E n \in DOMAIN map : map[n].target = t /\ map[n].entry = e
      BY <2>2, <3>1 DEF Kept, AllWell, Quiet
    <3> QED  BY <2>1, <3>2, MirrorIsMap
  <2>4. ASSUME ~crossed, NEW e \in Mirrored(t)  PROVE e \in owed[t]
    <3>1. PICK n \in DOMAIN map : map[n].target = t /\ map[n].entry = e
      BY <2>1, <2>4, MirrorIsMap
    <3>2. RecordsOwed  BY <2>1, <2>4 DEF Exact, Fine, Steady, AllWell
    <3> QED  BY <3>1, <3>2 DEF RecordsOwed, AllWell, Quiet
  <2> QED  BY <2>3, <2>4
<1> QED  BY <1>1, <1>2, <1>3, PTL DEF Spec
=============================================================================
