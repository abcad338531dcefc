-------------------- MODULE SessionConsolidationProofs --------------------
(***************************************************************************)
(* Proofs about ConsolidateSessions and the Reprocess that calls it, for   *)
(* any events and sessions, any number of overlapping runs and any bounds  *)
(* on faults and reprocess calls.                                          *)
(***************************************************************************)
EXTENDS SessionConsolidation, FiniteSetTheorems, SequenceTheorems, TLAPS

-----------------------------------------------------------------------------
(* The least and the greatest of a set of sequence numbers.                *)

LEMMA LeastExists ==
  ASSUME NEW S, S \subseteq Nat, S # {}
  PROVE  \E m \in S : \A n \in S : m <= n
<1> DEFINE R == OpToRel(<, Nat)
<1>1. IsWellFoundedOn(R, Nat)
  BY NatLessThanWellFounded
<1>2. PICK m \in S : \A n \in S : ~ (<<n, m>> \in R)
  <2> HIDE DEF R
  <2> QED BY <1>1, WFMin
<1>3. \A n \in S : ~(n < m)
  BY <1>2 DEF OpToRel
<1> HIDE DEF R
<1> QED BY <1>3

LEMMA MinOf ==
  ASSUME NEW S, S \subseteq Nat, S # {}
  PROVE  Min(S) \in S /\ \A n \in S : Min(S) <= n
BY LeastExists DEF Min

LEMMA MaxOf ==
  ASSUME NEW S, NEW b \in Nat, S \subseteq 0..b, S # {}
  PROVE  Max(S) \in S /\ \A n \in S : n <= Max(S)
<1> DEFINE U == {u \in Nat : \A n \in S : n <= u}
<1>1. b \in U
  OBVIOUS
<1>2. PICK u \in U : \A v \in U : u <= v
  BY <1>1, LeastExists
<1>3. u \in S
  <2> SUFFICES ASSUME u \notin S PROVE FALSE
    OBVIOUS
  <2>1. PICK n \in S : TRUE
    OBVIOUS
  <2>2. u - 1 \in U
    BY <2>1
  <2> QED BY <1>2, <2>2
<1> QED BY <1>3 DEF Max

-----------------------------------------------------------------------------
(* The invariant.                                                          *)

InSession(w) == pc[w] \in {"gather", "narrate", "write", "replace", "mark"}

\* A run that belongs to a Reprocess.
Redoing(w) == pc[w] # "idle" /\ ~job[w]

\* The type of every variable; what a run holds has been stored.
Types ==
  /\ llmBacked \in BOOLEAN /\ gate \in BOOLEAN
  /\ stored \subseteq Events /\ reflected \subseteq stored
  /\ quiet \subseteq Sessions /\ torn \subseteq Sessions
  /\ sums \in [Sessions -> Seq(Summary)]
  /\ prov \in [Sessions -> 0..MaxTries]
  /\ frontier \in Events \cup {0}
  /\ pc \in [Workers -> PCs]
  /\ job \in [Workers -> BOOLEAN] /\ strict \in [Workers -> BOOLEAN]
  /\ fell \in [Workers -> BOOLEAN] /\ since \in [Workers -> BOOLEAN]
  /\ saved \in [Workers -> BOOLEAN]
  /\ win \in [Workers -> SUBSET stored] /\ burst \in [Workers -> SUBSET stored]
  /\ todo \in [Workers -> SUBSET stored]
  /\ cands \in [Workers -> SUBSET Sessions] /\ idle \in [Workers -> SUBSET Sessions]
  /\ cur \in [Workers -> Sessions \cup {NoSession}]
  /\ tried \in [Workers -> 0..MaxTries]
  /\ procMax \in [Workers -> Events \cup {0}]
  /\ skipMin \in [Workers -> Events \cup {0}]
  /\ faults \in 0..MaxFaults /\ ties \in 0..MaxTies /\ reprocs \in 0..MaxReprocs

\* What a run knows at each point.
Local ==
  \A w \in Workers :
    /\ pc[w] \in {"idle", "unmark", "restore"} => ~job[w]
    /\ pc[w] = "finish" => job[w]
    /\ InSession(w) => /\ cur[w] \in Sessions /\ burst[w] # {}
                       /\ \A e \in burst[w] : Owner[e] = cur[w]
    /\ ~InSession(w) => burst[w] = {}
    /\ pc[w] = "mark" => todo[w] \subseteq burst[w]

\* Until there is a Reprocess, no run belongs to one.  If there is only one, it
\* switches the idle timeout off itself and knows that it was on.
Restoring ==
  /\ reprocs = 0 => \A w \in Workers : ~Redoing(w)
  /\ reprocs <= 1 =>
       /\ \A v, w \in Workers : Redoing(v) /\ Redoing(w) => v = w
       /\ \A w \in Workers : Redoing(w) => IF pc[w] = "unmark" THEN gate ELSE saved[w]
       /\ (\A w \in Workers : ~Redoing(w)) => gate

\* The summaries of a session hold an event.
Held(s, e) == \E i \in DOMAIN sums[s] : e \in sums[s][i].evs

\* Without an LLM nothing is ever retried, and so nothing doomed: a burst that
\* is being marked is covered by the summary written before.
PlainStore ==
  ~llmBacked /\ reprocs = 0 =>
    /\ \A s \in Sessions : prov[s] = 0
    /\ \A s \in Sessions : \A i \in DOMAIN sums[s] :
         sums[s][i].fb = 0 /\ sums[s][i].doomed = {}
    /\ \A s \in Sessions : \A e \in reflected : Owner[e] = s => Held(s, e)

PlainRuns ==
  ~llmBacked /\ reprocs = 0 =>
    \A w \in Workers :
      /\ tried[w] = 0 /\ ~fell[w]
      /\ pc[w] \in {"replace", "mark"} => \A e \in burst[w] : Held(cur[w], e)

\* A run on its own never sets out to delete the summary it has written.
OwnKept ==
  reprocs = 0 /\ Alone =>
    \A w \in Workers : pc[w] \in {"replace", "mark"} =>
      \E i \in DOMAIN sums[cur[w]] :
        sums[cur[w]][i].evs = burst[w] /\ w \notin sums[cur[w]][i].doomed

\* What a run has listed is reflected, or still to be visited, or was skipped,
\* or is at hand.
Skips ==
  reprocs = 0 =>
    \A w \in Workers :
      /\ \A e \in win[w] \cap SessionEvents :
           \/ e \in reflected
           \/ Owner[e] \in cands[w]
           \/ skipMin[w] > 0 /\ skipMin[w] <= e
           \/ e \in burst[w]
      /\ pc[w] = "mark" => burst[w] \ todo[w] \subseteq reflected

Inv == Types /\ Local /\ Restoring /\ PlainStore /\ PlainRuns /\ OwnKept /\ Skips

-----------------------------------------------------------------------------
(* The operators of the model.                                             *)

LEMMA EventsAreNumbers ==
  /\ Cardinality(Events) \in Nat /\ Events = 1..Cardinality(Events)
  /\ Events \subseteq Nat \ {0}
BY ConstantsAssumption, FS_CardinalityType

LEMMA IncType == ASSUME NEW n \in 0..MaxTries PROVE Inc(n) \in 0..MaxTries
BY ConstantsAssumption DEF Inc

LEMMA LeastOf ==
  ASSUME NEW S, S \subseteq Events, S # {}
  PROVE  Least(S) \in S /\ \A e \in S : Least(S) <= e
BY MinOf, EventsAreNumbers DEF Least

LEMMA GreatestOf ==
  ASSUME NEW S, S \subseteq Events
  PROVE  Greatest(S) \in Events \cup {0}
<1>1. CASE S = {}
  BY <1>1 DEF Greatest
<1>2. CASE S # {}
  <2>1. S \subseteq 0..Cardinality(Events)
    BY EventsAreNumbers
  <2> QED
    BY <1>2, <2>1, MaxOf, EventsAreNumbers DEF Greatest
<1> QED
  BY <1>1, <1>2

\* What is skipped keeps a bound that is at or below it.
LEMMA LowerOf ==
  ASSUME NEW n \in Events \cup {0}, NEW m \in Events
  PROVE  /\ Lower(n, m) \in Events /\ Lower(n, m) <= m
         /\ n > 0 => Lower(n, m) <= n
BY EventsAreNumbers DEF Lower

\* The frontier is a sequence number or 0, and below what was skipped.
LEMMA FrontierOf ==
  ASSUME Types, NEW w \in Workers
  PROVE  /\ Frontier(w) \in Events \cup {0}
         /\ skipMin[w] > 0 => Frontier(w) < skipMin[w]
<1>1. Greatest(win[w]) \in Events \cup {0}
  BY GreatestOf DEF Types
<1>2. procMax[w] \in Events \cup {0} /\ skipMin[w] \in Events \cup {0}
  BY DEF Types
<1> QED
  BY <1>1, <1>2, EventsAreNumbers DEF Frontier

\* The farther of two positions.
LEMMA FartherOf ==
  ASSUME NEW n \in Events \cup {0}, NEW m \in Events \cup {0}
  PROVE  Max({n, m}) \in Events \cup {0}
<1>1. {n, m} \subseteq 0..Cardinality(Events) /\ {n, m} # {}
  BY EventsAreNumbers
<1> QED
  BY <1>1, MaxOf, EventsAreNumbers

LEMMA SummaryAt ==
  ASSUME Types, NEW s \in Sessions
  PROVE  /\ sums[s] \in Seq(Summary)
         /\ \A i \in DOMAIN sums[s] :
              /\ sums[s][i] \in Summary
              /\ sums[s][i].evs \subseteq Events /\ sums[s][i].fb \in 0..MaxTries
              /\ sums[s][i].doomed \subseteq Workers
<1>1. sums[s] \in Seq(Summary)
  BY DEF Types
<1>2. \A i \in DOMAIN sums[s] : sums[s][i] \in Summary
  BY <1>1
<1> QED
  BY <1>1, <1>2 DEF Summary

\* A summary is taken out of a sequence.
LEMMA RemovedAt ==
  ASSUME NEW S, NEW seq \in Seq(S), NEW i \in DOMAIN seq
  PROVE  /\ RemoveAt(seq, i) \in Seq(S)
         /\ \A j \in DOMAIN RemoveAt(seq, i) :
              \E k \in DOMAIN seq \ {i} : RemoveAt(seq, i)[j] = seq[k]
         /\ \A k \in DOMAIN seq \ {i} :
              \E j \in DOMAIN RemoveAt(seq, i) : RemoveAt(seq, i)[j] = seq[k]
<1> DEFINE before == SubSeq(seq, 1, i - 1)
           after == SubSeq(seq, i + 1, Len(seq))
           rest == before \o after
<1>1. i \in 1..Len(seq) /\ Len(seq) \in Nat /\ DOMAIN seq = 1..Len(seq)
  OBVIOUS
<1>2. /\ before \in Seq(S) /\ Len(before) = i - 1
      /\ \A j \in 1..(i - 1) : before[j] = seq[j]
  BY <1>1, SubSeqProperties
<1>3. /\ after \in Seq(S) /\ Len(after) = Len(seq) - i
      /\ \A j \in 1..(Len(seq) - i) : after[j] = seq[i + j]
  BY <1>1, SubSeqProperties
<1>4. RemoveAt(seq, i) = rest
  BY DEF RemoveAt
<1> HIDE DEF before, after
<1>5. /\ rest \in Seq(S)
      /\ Len(rest) = Len(before) + Len(after)
      /\ \A j \in 1..(Len(before) + Len(after)) :
           rest[j] = IF j <= Len(before) THEN before[j] ELSE after[j - Len(before)]
  BY <1>2, <1>3, ConcatProperties
<1> HIDE DEF rest
<1>6. Len(rest) = Len(seq) - 1 /\ DOMAIN rest = 1..(Len(seq) - 1)
  BY <1>1, <1>2, <1>3, <1>5
<1>7. ASSUME NEW j \in 1..(Len(seq) - 1), j < i PROVE rest[j] = seq[j]
  BY <1>1, <1>2, <1>3, <1>5, <1>7
<1>8. ASSUME NEW j \in 1..(Len(seq) - 1), ~(j < i) PROVE rest[j] = seq[j + 1]
  <2>1. j - (i - 1) \in 1..(Len(seq) - i) /\ i + (j - (i - 1)) = j + 1
    BY <1>1, <1>8
  <2>2. rest[j] = after[j - (i - 1)]
    BY <1>1, <1>2, <1>3, <1>5, <1>8
  <2> QED
    BY <1>3, <2>1, <2>2
<1>9. ASSUME NEW j \in DOMAIN rest
      PROVE  \E k \in DOMAIN seq \ {i} : rest[j] = seq[k]
  <2>1. CASE j < i
    <3>1. j \in DOMAIN seq \ {i} /\ rest[j] = seq[j]
      BY <1>1, <1>6, <1>7, <2>1
    <3> QED
      BY <3>1
  <2>2. CASE ~(j < i)
    <3>1. j + 1 \in DOMAIN seq \ {i} /\ rest[j] = seq[j + 1]
      BY <1>1, <1>6, <1>8, <2>2
    <3> QED
      BY <3>1
  <2> QED
    BY <2>1, <2>2
<1>10. ASSUME NEW k \in DOMAIN seq \ {i}
       PROVE  \E j \in DOMAIN rest : rest[j] = seq[k]
  <2>1. CASE k < i
    <3>1. k \in DOMAIN rest /\ rest[k] = seq[k]
      BY <1>1, <1>6, <1>7, <2>1
    <3> QED
      BY <3>1
  <2>2. CASE ~(k < i)
    <3>1. k - 1 \in DOMAIN rest /\ ~(k - 1 < i) /\ (k - 1) + 1 = k
      BY <1>1, <1>6, <2>2
    <3>2. rest[k - 1] = seq[k]
      BY <1>6, <1>8, <3>1
    <3> QED
      BY <3>1, <3>2
  <2> QED
    BY <2>1, <2>2
<1> QED
  BY <1>4, <1>5, <1>9, <1>10

\* The summaries of a session with other runs set to delete them.
LEMMA Redoomed ==
  ASSUME NEW seq \in Seq(Summary), NEW D \in [DOMAIN seq -> SUBSET Workers]
  PROVE  [i \in DOMAIN seq |-> [seq[i] EXCEPT !.doomed = D[i]]] \in Seq(Summary)
<1> DEFINE new == [i \in DOMAIN seq |-> [seq[i] EXCEPT !.doomed = D[i]]]
<1>1. Len(seq) \in Nat /\ DOMAIN seq = 1..Len(seq)
  OBVIOUS
<1>2. \A i \in DOMAIN seq : seq[i] \in Summary /\ D[i] \subseteq Workers
  OBVIOUS
<1>3. \A i \in DOMAIN seq : [seq[i] EXCEPT !.doomed = D[i]] \in Summary
  BY <1>2 DEF Summary
<1>4. new \in [1..Len(seq) -> Summary]
  BY <1>1, <1>3
<1> QED
  BY <1>1, <1>4

-----------------------------------------------------------------------------
(* The initial states.                                                     *)

LEMMA InitInv == Init => Inv
<1> SUFFICES ASSUME Init PROVE Inv
  OBVIOUS
<1> USE ConstantsAssumption
<1>1. Types
  BY DEF Init, Types, PCs, Summary
<1>2. Local
  BY DEF Init, Local, InSession
<1>3. Restoring
  BY DEF Init, Restoring, Redoing
<1>4. PlainStore /\ PlainRuns
  BY DEF Init, PlainStore, PlainRuns
<1>5. OwnKept
  BY DEF Init, OwnKept
<1>6. Skips
  BY DEF Init, Skips
<1> QED
  BY <1>1, <1>2, <1>3, <1>4, <1>5, <1>6 DEF Inv

-----------------------------------------------------------------------------
(* Every action keeps the invariant.                                       *)

USE DEF Inv, store, scan, session, run, budget, Goto

\* A step of a run that leaves it short of a written summary.
LEMMA PlainRunsFrame ==
  ASSUME PlainRuns, NEW w \in Workers,
         llmBacked' = llmBacked, reprocs' = reprocs,
         \A v \in Workers \ {w} :
           /\ pc'[v] = pc[v] /\ burst'[v] = burst[v] /\ cur'[v] = cur[v]
           /\ tried'[v] = tried[v] /\ (fell'[v] <=> fell[v]),
         pc'[w] \notin {"replace", "mark"},
         ~llmBacked /\ reprocs = 0 => sums' = sums /\ tried'[w] = 0 /\ ~fell'[w]
  PROVE  PlainRuns'
<1> SUFFICES ASSUME ~llmBacked, reprocs = 0, NEW v \in Workers
             PROVE  /\ tried'[v] = 0 /\ ~fell'[v]
                    /\ pc'[v] \in {"replace", "mark"} =>
                         \A e \in burst'[v] : Held(cur[v], e)'
  BY DEF PlainRuns
<1>1. CASE v = w
  BY <1>1
<1>2. CASE v # w
  <2>1. /\ pc'[v] = pc[v] /\ burst'[v] = burst[v] /\ cur'[v] = cur[v]
        /\ tried'[v] = tried[v] /\ (fell'[v] <=> fell[v]) /\ sums' = sums
    BY <1>2
  <2>2. tried[v] = 0 /\ ~fell[v]
    BY DEF PlainRuns
  <2>3. ASSUME pc[v] \in {"replace", "mark"}, NEW e \in burst[v] PROVE Held(cur[v], e)
    BY <2>3 DEF PlainRuns
  <2>4. ASSUME pc[v] \in {"replace", "mark"}, NEW e \in burst[v] PROVE Held(cur[v], e)'
    BY <2>1, <2>3, <2>4 DEF Held
  <2> QED
    BY <2>1, <2>2, <2>4
<1> QED
  BY <1>1, <1>2

LEMMA IngestKeeps == ASSUME Inv, NEW e \in Events, Ingest(e) PROVE Inv'
<1>1. Types'
  BY DEF Types, Ingest
<1>2. Local'
  BY DEF Types, Local, InSession, Ingest
<1>3. Restoring'
  BY DEF Restoring, Redoing, Ingest
<1>4. PlainStore'
  BY DEF PlainStore, Held, Ingest
<1>5. PlainRuns'
  BY DEF PlainRuns, Held, Ingest
<1>6. OwnKept'
  BY DEF OwnKept, Ingest
<1>7. Skips'
  BY DEF Skips, Ingest
<1> QED
  BY <1>1, <1>2, <1>3, <1>4, <1>5, <1>6, <1>7

LEMMA GoQuietKeeps == ASSUME Inv, NEW s \in Sessions, GoQuiet(s) PROVE Inv'
<1>1. Types'
  BY DEF Types, GoQuiet
<1>2. Local'
  BY DEF Local, InSession, GoQuiet
<1>3. Restoring'
  BY DEF Restoring, Redoing, GoQuiet
<1>4. PlainStore'
  BY DEF PlainStore, Held, GoQuiet
<1>5. PlainRuns'
  BY DEF PlainRuns, Held, GoQuiet
<1>6. OwnKept'
  BY DEF OwnKept, GoQuiet
<1>7. Skips'
  BY DEF Skips, GoQuiet
<1> QED
  BY <1>1, <1>2, <1>3, <1>4, <1>5, <1>6, <1>7

LEMMA SettleKeeps == ASSUME Inv, NEW s \in Sessions, Settle(s) PROVE Inv'
<1>1. Types'
  BY ConstantsAssumption DEF Types, Settle
<1>2. Local'
  BY DEF Local, InSession, Settle
<1>3. Restoring'
  BY DEF Restoring, Redoing, Settle
<1>4. PlainStore'
  BY DEF Types, PlainStore, Held, Settle
<1>5. PlainRuns'
  BY DEF Types, PlainRuns, Held, Settle
<1>6. OwnKept'
  BY DEF OwnKept, Settle
<1>7. Skips'
  BY DEF Skips, Settle
<1> QED
  BY <1>1, <1>2, <1>3, <1>4, <1>5, <1>6, <1>7

LEMMA StartKeeps == ASSUME Inv, NEW w \in Workers, Start(w) PROVE Inv'
<1>1. Types'
  BY DEF Types, PCs, Start
<1>2. Local'
  BY DEF Types, Local, InSession, Start
<1>3. Restoring'
  BY DEF Types, Restoring, Redoing, Start
<1>4. PlainStore'
  BY DEF Types, PlainStore, Held, Start
<1>5. PlainRuns'
  BY DEF Types, PlainRuns, Held, Start
<1>6. OwnKept'
  BY DEF Types, OwnKept, Start
<1>7. Skips'
  BY DEF Types, Skips, Start
<1> QED
  BY <1>1, <1>2, <1>3, <1>4, <1>5, <1>6, <1>7

LEMMA ListKeeps == ASSUME Inv, NEW w \in Workers, List(w) PROVE Inv'
<1>1. Listed(frontier) \subseteq stored /\ OwnersOf(Listed(frontier)) \subseteq Sessions
  <2>1. Listed(frontier) \subseteq stored
    BY DEF Listed
  <2>2. stored \subseteq Events
    BY DEF Types
  <2> QED
    BY <2>1, <2>2, ConstantsAssumption DEF OwnersOf
<1>2. \A e \in Listed(frontier) \cap SessionEvents : Owner[e] \in OwnersOf(Listed(frontier))
  BY DEF OwnersOf, SessionEvents
<1>3. Types'
  BY <1>1 DEF Types, PCs, Leave, List
<1>4. Local'
  BY DEF Types, Local, InSession, Leave, List
<1>5. Restoring'
  BY DEF Types, Restoring, Redoing, Leave, List
<1>6. PlainStore'
  BY DEF Types, PlainStore, Held, Leave, List
<1>7. PlainRuns'
  BY PlainRunsFrame DEF Types, PlainRuns, Leave, List
<1>8. OwnKept'
  BY DEF Types, OwnKept, Leave, List
<1>9. Skips'
  BY <1>2 DEF Types, Skips, Leave, List
<1> QED
  BY <1>3, <1>4, <1>5, <1>6, <1>7, <1>8, <1>9

LEMMA PassOverKeeps ==
  ASSUME Inv, NEW w \in Workers, NEW s \in Sessions, PassOver(w, s)
  PROVE  Inv'
<1> DEFINE evts == Unreflected(s)
<1>1. evts \subseteq Events
  BY DEF Types, Unreflected
<1>2. skipMin[w] \in Events \cup {0}
  BY DEF Types
<1>3. evts # {} => Lower(skipMin[w], Least(evts)) \in Events \cup {0}
  BY <1>1, <1>2, LeastOf, LowerOf
<1>4. Types'
  BY <1>3 DEF Types, PassOver
<1>5. Local'
  BY DEF Local, InSession, PassOver
<1>6. Restoring'
  BY DEF Restoring, Redoing, PassOver
<1>7. PlainStore'
  BY DEF PlainStore, Held, PassOver
<1>8. PlainRuns'
  BY DEF PlainRuns, Held, PassOver
<1>9. OwnKept'
  BY DEF OwnKept, PassOver
<1>10. Skips'
  <2> SUFFICES ASSUME reprocs = 0, NEW v \in Workers, NEW e \in win[v] \cap SessionEvents,
                      e \notin reflected, Owner[e] \notin cands'[v], e \notin burst[v]
               PROVE  skipMin'[v] > 0 /\ skipMin'[v] <= e
    BY DEF Skips, PassOver
  <2>1. CASE v = w /\ Owner[e] = s
    <3>1. e \in evts
      BY <2>1 DEF Types, Unreflected
    <3>2. skipMin'[w] = Lower(skipMin[w], Least(evts))
      BY <3>1 DEF Types, PassOver
    <3>3. Least(evts) \in Events /\ Least(evts) <= e /\ e \in Events
      BY <1>1, <3>1, LeastOf
    <3>4. Lower(skipMin[w], Least(evts)) \in Events /\ Lower(skipMin[w], Least(evts)) <= Least(evts)
      BY <1>2, <3>3, LowerOf
    <3> HIDE DEF evts
    <3> QED
      BY <2>1, <3>2, <3>3, <3>4, EventsAreNumbers
  <2>2. CASE ~(v = w /\ Owner[e] = s)
    <3>1. skipMin[v] > 0 /\ skipMin[v] <= e
      BY <2>2 DEF Types, Skips, PassOver
    <3>2. CASE skipMin'[v] = skipMin[v]
      BY <3>1, <3>2
    <3>3. CASE skipMin'[v] # skipMin[v]
      <4>1. v = w /\ evts # {} /\ skipMin'[w] = Lower(skipMin[w], Least(evts))
        BY <3>3 DEF Types, PassOver
      <4>2. Least(evts) \in Events /\ e \in Events
        BY <1>1, <4>1, LeastOf DEF SessionEvents
      <4>3. Lower(skipMin[w], Least(evts)) \in Events /\ Lower(skipMin[w], Least(evts)) <= skipMin[w]
        BY <1>2, <3>1, <4>1, <4>2, LowerOf
      <4> HIDE DEF evts
      <4> QED
        BY <1>2, <3>1, <4>1, <4>2, <4>3, EventsAreNumbers
    <3> QED
      BY <3>2, <3>3
  <2> QED
    BY <2>1, <2>2
<1> QED
  BY <1>4, <1>5, <1>6, <1>7, <1>8, <1>9, <1>10

LEMMA TakeKeeps ==
  ASSUME Inv, NEW w \in Workers, NEW s \in Sessions, Take(w, s)
  PROVE  Inv'
<1>1. /\ Unreflected(s) \subseteq stored /\ Unreflected(s) # {}
      /\ \A e \in Unreflected(s) : Owner[e] = s
  BY DEF Unreflected, Take
<1>2. Types'
  BY <1>1 DEF Types, PCs, Take
<1>3. Local'
  BY <1>1 DEF Types, Local, InSession, Take
<1>4. Restoring'
  BY DEF Types, Restoring, Redoing, Take
<1>5. PlainStore'
  BY DEF Types, PlainStore, Held, Take
<1>6. PlainRuns'
  BY PlainRunsFrame DEF Types, PlainRuns, Take
<1>7. OwnKept'
  BY DEF Types, OwnKept, Take
<1>8. Skips'
  <2>1. burst[w] = {}
    BY DEF Local, InSession, Take
  <2> QED
    BY <2>1 DEF Types, Skips, Unreflected, Take
<1> QED
  BY <1>2, <1>3, <1>4, <1>5, <1>6, <1>7, <1>8

LEMMA GatherKeeps == ASSUME Inv, NEW w \in Workers, Gather(w) PROVE Inv'
<1> DEFINE s == cur[w]
           prior == IF sums[s] = <<>> THEN 0 ELSE Last(sums[s]).fb
           redoomed == [i \in DOMAIN sums[s] |->
                          [sums[s][i] EXCEPT !.doomed = @ \cup {w}]]
<1>1. s \in Sessions /\ sums[s] \in Seq(Summary)
  BY DEF Types, Local, InSession, Gather
<1>2. prior \in 0..MaxTries
  <2>1. CASE sums[s] = <<>>
    BY <2>1, ConstantsAssumption
  <2>2. CASE sums[s] # <<>>
    <3>1. Last(sums[s]) \in Summary
      BY <1>1, <2>2 DEF Last
    <3> QED
      BY <2>2, <3>1 DEF Summary
  <2> QED
    BY <2>1, <2>2
<1>3. redoomed \in Seq(Summary)
  <2> DEFINE D == [i \in DOMAIN sums[s] |-> sums[s][i].doomed \cup {w}]
  <2>1. D \in [DOMAIN sums[s] -> SUBSET Workers]
    BY <1>1, SummaryAt
  <2>2. redoomed = [i \in DOMAIN sums[s] |-> [sums[s][i] EXCEPT !.doomed = D[i]]]
    OBVIOUS
  <2> HIDE DEF s, D, redoomed
  <2> QED
    BY <1>1, <2>1, <2>2, Redoomed
<1>4. /\ DOMAIN redoomed = DOMAIN sums[s]
       /\ \A i \in DOMAIN sums[s] :
            /\ redoomed[i].evs = sums[s][i].evs /\ redoomed[i].fb = sums[s][i].fb
            /\ redoomed[i].doomed = sums[s][i].doomed \cup {w}
  BY <1>1, SummaryAt DEF Summary
<1>5. /\ pc' = [pc EXCEPT ![w] = "narrate"]
      /\ tried' = [tried EXCEPT ![w] = prior]
      /\ \/ sums' = [sums EXCEPT ![s] = redoomed] /\ (Retryable(prior) \/ Retryable(prov[s]))
         \/ sums' = sums
  BY DEF Gather
<1> HIDE DEF prior, redoomed
<1>6. Types'
  <2>1. sums' \in [Sessions -> Seq(Summary)]
    BY <1>1, <1>3, <1>5 DEF Types
  <2>2. tried' \in [Workers -> 0..MaxTries]
    BY <1>2, <1>5 DEF Types
  <2> QED
    BY <2>1, <2>2 DEF Types, PCs, Gather
<1>7. Local'
  BY DEF Types, Local, InSession, Gather
<1>8. Restoring'
  BY DEF Types, Restoring, Redoing, Gather
<1>9. ASSUME ~llmBacked, reprocs = 0 PROVE prior = 0 /\ sums' = sums
  <2>1. prior = 0
    BY <1>1, <1>9 DEF PlainStore, prior, Last
  <2> QED
    BY <1>1, <1>5, <1>9, <2>1 DEF PlainStore, Retryable
<1>10. PlainStore'
  BY <1>9 DEF PlainStore, Held, Gather
<1>11. PlainRuns'
  BY <1>5, <1>9, PlainRunsFrame DEF Types, PlainRuns, Gather
<1>12. OwnKept'
  BY <1>5 DEF Types, OwnKept, Gather, Alone
<1>13. Skips'
  BY DEF Types, Skips, Gather
<1> QED
  BY <1>6, <1>7, <1>8, <1>10, <1>11, <1>12, <1>13

LEMMA NarrateKeeps == ASSUME Inv, NEW w \in Workers, Narrate(w) PROVE Inv'
<1>1. cur[w] \in Sessions /\ prov[cur[w]] \in 0..MaxTries
  BY DEF Types, Local, InSession, Narrate
<1>2. Inc(prov[cur[w]]) \in 0..MaxTries /\ 1 \in 0..MaxTries
  BY <1>1, IncType, ConstantsAssumption
<1>3. prov' \in [Sessions -> 0..MaxTries]
  <2>1. 0 \in 0..MaxTries /\ prov \in [Sessions -> 0..MaxTries]
    BY ConstantsAssumption DEF Types
  <2>2. \E n \in 0..MaxTries : prov' = prov \/ prov' = [prov EXCEPT ![cur[w]] = n]
    BY <1>2, <2>1 DEF Narrate
  <2> QED
    BY <1>1, <2>1, <2>2
<1>4. fell' \in [Workers -> BOOLEAN]
  BY DEF Types, Narrate
<1>5. Types'
  BY <1>3, <1>4 DEF Types, PCs, Narrate
<1>6. Local'
  BY DEF Types, Local, InSession, Narrate
<1>7. Restoring'
  BY DEF Types, Restoring, Redoing, Narrate
<1>8. PlainStore'
  BY DEF Types, PlainStore, Held, Narrate
<1>9. PlainRuns'
  <2>1. PICK f \in {FALSE, llmBacked} : fell' = [fell EXCEPT ![w] = f]
    BY DEF Narrate
  <2>2. ASSUME ~llmBacked PROVE ~fell'[w]
    <3>1. llmBacked = FALSE
      BY <2>2 DEF Types
    <3>2. f = FALSE
      BY <2>1, <3>1
    <3>3. fell' = [fell EXCEPT ![w] = FALSE]
      BY <2>1, <3>2
    <3> QED
      BY <3>3 DEF Types
  <2>3. \A v \in Workers \ {w} : fell'[v] <=> fell[v]
    BY <2>1 DEF Types
  <2> QED
    BY <2>2, <2>3, PlainRunsFrame DEF Types, PlainRuns, Narrate
<1>10. OwnKept'
  BY DEF Types, OwnKept, Narrate
<1>11. Skips'
  BY DEF Types, Skips, Narrate
<1> QED
  BY <1>5, <1>6, <1>7, <1>8, <1>9, <1>10, <1>11

LEMMA WriteKeeps == ASSUME Inv, NEW w \in Workers, Write(w) PROVE Inv'
<1> DEFINE s == cur[w]
           new == [evs |-> burst[w], fb |-> IF fell[w] THEN Inc(tried[w]) ELSE 0,
                   doomed |-> {}]
<1>1. /\ s \in Sessions /\ sums[s] \in Seq(Summary) /\ tried[w] \in 0..MaxTries
      /\ burst[w] \subseteq Events
  BY DEF Types, Local, InSession, Write
<1>2. new \in Summary
  BY <1>1, IncType, ConstantsAssumption DEF Summary
<1>3. /\ new.evs = burst[w] /\ new.doomed = {}
      /\ ~fell[w] => new.fb = 0
  OBVIOUS
<1>4. pc' = [pc EXCEPT ![w] = "replace"] /\ sums' = [sums EXCEPT ![s] = Append(@, new)]
  BY DEF Write
<1> HIDE DEF new
<1>5. /\ Append(sums[s], new) \in Seq(Summary)
      /\ DOMAIN Append(sums[s], new) = 1..(Len(sums[s]) + 1)
      /\ DOMAIN sums[s] = 1..Len(sums[s])
      /\ \A i \in DOMAIN sums[s] : Append(sums[s], new)[i] = sums[s][i]
      /\ Append(sums[s], new)[Len(sums[s]) + 1] = new
  BY <1>1, <1>2, AppendProperties
<1>6. sums' = [sums EXCEPT ![s] = Append(sums[s], new)]
  BY <1>4
<1>7. /\ DOMAIN sums'[s] = 1..(Len(sums[s]) + 1)
      /\ \A i \in DOMAIN sums[s] : i \in DOMAIN sums'[s] /\ sums'[s][i] = sums[s][i]
      /\ Len(sums[s]) + 1 \in DOMAIN sums'[s]
      /\ sums'[s][Len(sums[s]) + 1] = new
      /\ \A i \in DOMAIN sums'[s] : i \in DOMAIN sums[s] \/ i = Len(sums[s]) + 1
      /\ \A t \in Sessions \ {s} : sums'[t] = sums[t]
  BY <1>1, <1>5, <1>6 DEF Types
<1>8. \A t \in Sessions : \A e : Held(t, e) => Held(t, e)'
  BY <1>7 DEF Held
<1>9. ASSUME NEW e \in burst[w] PROVE Held(s, e)'
  <2>1. /\ Len(sums[s]) + 1 \in DOMAIN sums'[s]
        /\ e \in sums'[s][Len(sums[s]) + 1].evs
    BY <1>3, <1>7
  <2> QED
    BY <2>1 DEF Held, Write
<1>10. Types'
  BY <1>1, <1>5, <1>6 DEF Types, PCs, Write
<1>11. Local'
  BY DEF Types, Local, InSession, Write
<1>12. Restoring'
  BY DEF Types, Restoring, Redoing, Write
<1>13. PlainStore'
  <2> SUFFICES ASSUME ~llmBacked, reprocs = 0
               PROVE  /\ \A t \in Sessions : prov'[t] = 0
                      /\ \A t \in Sessions : \A i \in DOMAIN sums'[t] :
                           sums'[t][i].fb = 0 /\ sums'[t][i].doomed = {}
                      /\ \A t \in Sessions : \A e \in reflected' :
                           Owner[e] = t => Held(t, e)'
    BY DEF PlainStore, Write
  <2>1. ~fell[w]
    BY DEF PlainRuns
  <2>2. ASSUME NEW t \in Sessions, NEW i \in DOMAIN sums'[t]
        PROVE  sums'[t][i].fb = 0 /\ sums'[t][i].doomed = {}
    <3>1. CASE t = s /\ i = Len(sums[s]) + 1
      BY <1>3, <1>7, <2>1, <3>1
    <3>2. CASE ~(t = s /\ i = Len(sums[s]) + 1)
      <4>1. i \in DOMAIN sums[t] /\ sums'[t][i] = sums[t][i]
        BY <1>7, <3>2
      <4> QED
        BY <4>1 DEF PlainStore
    <3> QED
      BY <3>1, <3>2
  <2> QED
    BY <1>8, <2>2 DEF PlainStore, Write
<1>14. PlainRuns'
  <2> SUFFICES ASSUME ~llmBacked, reprocs = 0, NEW v \in Workers
               PROVE  /\ tried[v] = 0 /\ ~fell[v]
                      /\ pc'[v] \in {"replace", "mark"} =>
                           \A e \in burst[v] : Held(cur[v], e)'
    BY DEF PlainRuns, Write
  <2>1. CASE v = w
    BY <1>9, <2>1 DEF PlainRuns
  <2>2. CASE v # w
    <3>1. ASSUME pc'[v] \in {"replace", "mark"}
          PROVE  cur[v] \in Sessions /\ \A e \in burst[v] : Held(cur[v], e)
      BY <1>4, <2>2, <3>1 DEF Types, Local, InSession, PlainRuns
    <3>2. ASSUME pc'[v] \in {"replace", "mark"}, NEW e \in burst[v]
          PROVE  Held(cur[v], e)'
      <4>1. cur[v] \in Sessions /\ Held(cur[v], e)
        BY <3>1, <3>2
      <4>2. PICK i \in DOMAIN sums[cur[v]] : e \in sums[cur[v]][i].evs
        BY <4>1 DEF Held
      <4>3. i \in DOMAIN sums'[cur[v]] /\ sums'[cur[v]][i] = sums[cur[v]][i]
        BY <1>7, <4>1
      <4> QED
        BY <4>2, <4>3 DEF Held, Write
    <3>3. tried[v] = 0 /\ ~fell[v]
      BY DEF PlainRuns
    <3> QED
      BY <3>2, <3>3
  <2> QED
    BY <2>1, <2>2
<1>15. OwnKept'
  <2> SUFFICES ASSUME reprocs = 0, Alone
               PROVE  \E i \in DOMAIN sums'[s] :
                        sums'[s][i].evs = burst[w] /\ w \notin sums'[s][i].doomed
    BY DEF OwnKept, Alone, Write
  <2> QED
    BY <1>3, <1>7
<1>16. Skips'
  BY DEF Types, Skips, Write
<1> QED
  BY <1>10, <1>11, <1>12, <1>13, <1>14, <1>15, <1>16

LEMMA DeleteKeeps == ASSUME Inv, NEW w \in Workers, Delete(w) PROVE Inv'
<1> DEFINE s == cur[w]
<1>1. s \in Sessions /\ sums[s] \in Seq(Summary)
  BY DEF Types, Local, InSession, Delete
<1>2. PICK i \in DOMAIN sums[s] :
        w \in sums[s][i].doomed /\ sums' = [sums EXCEPT ![s] = RemoveAt(sums[s], i)]
  BY DEF Delete
<1>3. /\ RemoveAt(sums[s], i) \in Seq(Summary)
      /\ \A k \in DOMAIN sums[s] \ {i} :
           \E j \in DOMAIN RemoveAt(sums[s], i) : RemoveAt(sums[s], i)[j] = sums[s][k]
  BY <1>1, RemovedAt
<1>4. Types'
  BY <1>1, <1>2, <1>3 DEF Types, Delete
<1>5. Local'
  BY DEF Types, Local, InSession, Delete
<1>6. Restoring'
  BY DEF Types, Restoring, Redoing, Delete
<1>7. llmBacked \/ reprocs # 0
  BY <1>1, <1>2 DEF PlainStore
<1>8. PlainStore' /\ PlainRuns'
  BY <1>7 DEF PlainStore, PlainRuns, Delete
<1>9. OwnKept'
  <2> SUFFICES ASSUME reprocs = 0, Alone
               PROVE  \E j \in DOMAIN sums'[s] :
                        sums'[s][j].evs = burst[w] /\ w \notin sums'[s][j].doomed
    BY DEF OwnKept, Alone, Delete
  <2>1. PICK k \in DOMAIN sums[s] : sums[s][k].evs = burst[w] /\ w \notin sums[s][k].doomed
    BY DEF OwnKept, Delete
  <2>2. k # i
    BY <1>2, <2>1
  <2>3. sums'[s] = RemoveAt(sums[s], i)
    BY <1>1, <1>2 DEF Types
  <2> QED
    BY <1>3, <2>1, <2>2, <2>3
<1>10. Skips'
  BY DEF Types, Skips, Delete
<1> QED
  BY <1>4, <1>5, <1>6, <1>8, <1>9, <1>10

LEMMA PostponeKeeps == ASSUME Inv, NEW w \in Workers, Postpone(w) PROVE Inv'
<1>1. burst[w] \subseteq Events /\ burst[w] # {}
  BY DEF Types, Local, InSession, Postpone
<1>2. Least(burst[w]) \in Events /\ \A e \in burst[w] : Least(burst[w]) <= e
  BY <1>1, LeastOf
<1>3. /\ Lower(skipMin[w], Least(burst[w])) \in Events
      /\ Lower(skipMin[w], Least(burst[w])) <= Least(burst[w])
      /\ skipMin[w] > 0 => Lower(skipMin[w], Least(burst[w])) <= skipMin[w]
  BY <1>2, LowerOf DEF Types
<1>4. skipMin' = [skipMin EXCEPT ![w] = Lower(skipMin[w], Least(burst[w]))]
  BY DEF Postpone
<1>5. Types'
  <2>1. skipMin' \in [Workers -> Events \cup {0}]
    BY <1>3, <1>4 DEF Types
  <2>2. 0 \in 0..MaxTries
    BY ConstantsAssumption
  <2> QED
    BY <2>1, <2>2 DEF Types, PCs, Postpone, Drop
<1>6. Local'
  BY DEF Types, Local, InSession, Postpone, Drop
<1>7. Restoring'
  BY DEF Types, Restoring, Redoing, Postpone
<1>8. PlainStore'
  BY DEF PlainStore, Held, Postpone
<1>9. PlainRuns'
  BY PlainRunsFrame DEF Types, Postpone, Drop
<1>10. OwnKept'
  BY DEF Types, OwnKept, Alone, Postpone
<1>11. Skips'
  <2> SUFFICES ASSUME reprocs = 0, NEW v \in Workers
               PROVE  /\ \A e \in win[v] \cap SessionEvents :
                           \/ e \in reflected \/ Owner[e] \in cands[v]
                           \/ skipMin'[v] > 0 /\ skipMin'[v] <= e
                           \/ e \in burst'[v]
                      /\ pc'[v] = "mark" => burst'[v] \ todo[v] \subseteq reflected
    BY DEF Skips, Postpone
  <2>1. CASE v # w
    BY <2>1 DEF Types, Skips, Postpone, Drop
  <2>2. CASE v = w
    <3>1. pc'[v] = "visit" /\ skipMin'[v] = Lower(skipMin[w], Least(burst[w]))
      BY <1>4, <2>2 DEF Types, Postpone
    <3>2. ASSUME NEW e \in win[w] \cap SessionEvents,
                 e \notin reflected, Owner[e] \notin cands[w]
          PROVE  skipMin'[v] > 0 /\ skipMin'[v] <= e
      <4>1. e \in Events /\ skipMin[w] \in Events \cup {0}
        BY DEF Types, SessionEvents
      <4>2. (skipMin[w] > 0 /\ skipMin[w] <= e) \/ e \in burst[w]
        BY <3>2 DEF Skips
      <4> DEFINE n == Lower(skipMin[w], Least(burst[w]))
      <4>3. /\ n \in Events /\ n <= Least(burst[w])
            /\ skipMin[w] > 0 => n <= skipMin[w]
        BY <1>3
      <4> HIDE DEF n
      <4>4. n > 0 /\ n <= e
        BY <1>2, <4>1, <4>2, <4>3, EventsAreNumbers
      <4> QED
        BY <3>1, <4>4 DEF n
    <3> QED
      BY <2>2, <3>1, <3>2
  <2> QED
    BY <2>1, <2>2
<1> QED
  BY <1>5, <1>6, <1>7, <1>8, <1>9, <1>10, <1>11

LEMMA CompleteKeeps == ASSUME Inv, NEW w \in Workers, Complete(w) PROVE Inv'
<1>1. Types'
  BY DEF Types, PCs, Complete
<1>2. Local'
  BY DEF Types, Local, InSession, Complete
<1>3. Restoring'
  BY DEF Types, Restoring, Redoing, Complete
<1>4. PlainStore'
  BY DEF PlainStore, Held, Complete
<1>5. PlainRuns'
  BY DEF Types, PlainRuns, Held, Complete
<1>6. OwnKept'
  BY DEF Types, OwnKept, Complete
<1>7. Skips'
  BY DEF Types, Skips, Complete
<1> QED
  BY <1>1, <1>2, <1>3, <1>4, <1>5, <1>6, <1>7

LEMMA MarkKeeps ==
  ASSUME Inv, NEW w \in Workers, NEW e \in Events, Mark(w, e)
  PROVE  Inv'
<1>1. e \in stored /\ e \in burst[w] /\ cur[w] \in Sessions /\ Owner[e] = cur[w]
  BY DEF Types, Local, InSession, Mark
<1>2. Types'
  BY <1>1 DEF Types, Mark
<1>3. Local'
  BY DEF Types, Local, InSession, Mark
<1>4. Restoring'
  BY DEF Types, Restoring, Redoing, Mark
<1>5. PlainStore'
  <2> SUFFICES ASSUME ~llmBacked, reprocs = 0 PROVE PlainStore'
    BY DEF PlainStore, Mark
  <2>1. Held(cur[w], e)
    BY <1>1 DEF PlainRuns, Mark
  <2> QED
    BY <1>1, <2>1 DEF PlainStore, Held, Mark
<1>6. PlainRuns'
  BY DEF Types, PlainRuns, Held, Mark
<1>7. OwnKept'
  BY DEF Types, OwnKept, Mark
<1>8. Skips'
  BY DEF Types, Skips, Mark
<1> QED
  BY <1>2, <1>3, <1>4, <1>5, <1>6, <1>7, <1>8

LEMMA EndMarkKeeps == ASSUME Inv, NEW w \in Workers, EndMark(w) PROVE Inv'
<1>1. Max({procMax[w], Greatest(burst[w])}) \in Events \cup {0}
  <2>1. procMax[w] \in Events \cup {0} /\ burst[w] \subseteq Events
    BY DEF Types
  <2> QED
    BY <2>1, GreatestOf, FartherOf
<1>2. procMax' = [procMax EXCEPT ![w] = Max({procMax[w], Greatest(burst[w])})]
  BY DEF EndMark
<1>3. Types'
  <2>1. procMax' \in [Workers -> Events \cup {0}]
    BY <1>1, <1>2 DEF Types
  <2>2. 0 \in 0..MaxTries
    BY ConstantsAssumption
  <2> QED
    BY <2>1, <2>2 DEF Types, PCs, EndMark, Drop
<1>4. Local'
  BY DEF Types, Local, InSession, EndMark, Drop
<1>5. Restoring'
  BY DEF Types, Restoring, Redoing, EndMark
<1>6. PlainStore'
  BY DEF PlainStore, Held, EndMark
<1>7. PlainRuns'
  BY PlainRunsFrame DEF Types, EndMark, Drop
<1>8. OwnKept'
  BY DEF Types, OwnKept, Alone, EndMark
<1>9. Skips'
  <2>1. reprocs = 0 => burst[w] \subseteq reflected
    BY DEF Skips, EndMark
  <2> QED
    BY <2>1 DEF Types, Skips, EndMark, Drop
<1> QED
  BY <1>3, <1>4, <1>5, <1>6, <1>7, <1>8, <1>9

LEMMA RecordKeeps == ASSUME Inv, NEW w \in Workers, Record(w) PROVE Inv'
<1>1. frontier' \in Events \cup {0} /\ ties' \in 0..MaxTies
  BY FrontierOf, ConstantsAssumption DEF Types, Record, Newest
<1>2. Types'
  BY <1>1 DEF Types, PCs, Leave, Record, ClearScan
<1>3. Local'
  BY DEF Types, Local, InSession, Leave, Record
<1>4. Restoring'
  BY DEF Types, Restoring, Redoing, Leave, Record
<1>5. PlainStore'
  BY DEF PlainStore, Held, Record
<1>6. PlainRuns'
  BY PlainRunsFrame DEF Types, PlainRuns, Leave, Record
<1>7. OwnKept'
  BY DEF Types, OwnKept, Alone, Leave, Record
<1>8. Skips'
  BY DEF Types, Skips, Leave, Record, ClearScan
<1> QED
  BY <1>2, <1>3, <1>4, <1>5, <1>6, <1>7, <1>8

LEMMA FinishKeeps == ASSUME Inv, NEW w \in Workers, Finish(w) PROVE Inv'
<1>1. frontier' \in Events \cup {0} /\ ties' \in 0..MaxTies
  BY ConstantsAssumption DEF Types, Finish, Newest, Tied
<1>2. Types'
  BY <1>1 DEF Types, PCs, Finish
<1>3. Local'
  BY DEF Types, Local, InSession, Finish
<1>4. Restoring'
  BY DEF Types, Local, Restoring, Redoing, Finish
<1>5. PlainStore'
  BY DEF PlainStore, Held, Finish
<1>6. PlainRuns'
  BY PlainRunsFrame DEF Types, PlainRuns, Finish
<1>7. OwnKept'
  BY DEF Types, OwnKept, Alone, Finish
<1>8. Skips'
  BY DEF Types, Skips, Finish
<1> QED
  BY <1>2, <1>3, <1>4, <1>5, <1>6, <1>7, <1>8

\* Once there is a Reprocess, only the types, the local knowledge and the idle
\* timeout are left to keep.
LEMMA Reprocessed ==
  ASSUME Inv, reprocs' # 0, Types', Local', Restoring'
  PROVE  Inv'
BY DEF PlainStore, PlainRuns, OwnKept, Skips

LEMMA StartReprocessKeeps ==
  ASSUME Inv, NEW w \in Workers, StartReprocess(w)
  PROVE  Inv'
<1>1. OwnersOf(stored) \subseteq Sessions
  BY ConstantsAssumption DEF Types, OwnersOf
<1>2. reprocs \in Nat /\ reprocs' = reprocs + 1 /\ reprocs' \in 0..MaxReprocs
  BY ConstantsAssumption DEF Types, StartReprocess
<1>3. Types'
  BY <1>1, <1>2 DEF Types, PCs, StartReprocess
<1>4. Local'
  BY DEF Types, Local, InSession, StartReprocess
<1>5. Restoring'
  BY <1>2 DEF Types, Local, Restoring, Redoing, StartReprocess
<1> QED
  BY <1>2, <1>3, <1>4, <1>5, Reprocessed

LEMMA RebuildKeeps ==
  ASSUME Inv, NEW w \in Workers, Rebuild(w)
  PROVE  Inv'
<1>1. Redoing(w) /\ reprocs # 0 /\ reprocs' = reprocs
  BY DEF Local, Restoring, Redoing, Rebuild, OpenGate, CloseGate, Overlook, Unmark, Tear
<1>2. CASE OpenGate(w)
  <2>1. Types'
    BY <1>2 DEF Types, PCs, OpenGate
  <2>2. Local'
    BY <1>2 DEF Types, Local, InSession, OpenGate
  <2>3. Restoring'
    BY <1>1, <1>2 DEF Types, Restoring, Redoing, OpenGate
  <2> QED
    BY <1>1, <2>1, <2>2, <2>3, Reprocessed
<1>3. CASE CloseGate(w)
  <2>1. Types'
    BY <1>3 DEF Types, PCs, CloseGate
  <2>2. Local'
    BY <1>3 DEF Types, Local, InSession, CloseGate
  <2>3. Restoring'
    BY <1>1, <1>3 DEF Types, Restoring, Redoing, CloseGate
  <2> QED
    BY <1>1, <2>1, <2>2, <2>3, Reprocessed
<1>4. CASE Overlook(w)
  <2>1. Types'
    <3>1. todo' \in [Workers -> SUBSET stored] /\ cands' \in [Workers -> SUBSET Sessions]
      <4>1. \/ \E e \in todo[w] :
                  todo' = [todo EXCEPT ![w] = todo[w] \ {e}] /\ cands' = cands
            \/ \E s \in cands[w] :
                  cands' = [cands EXCEPT ![w] = cands[w] \ {s}] /\ todo' = todo
        BY <1>4 DEF Overlook
      <4>2. todo \in [Workers -> SUBSET stored] /\ cands \in [Workers -> SUBSET Sessions]
        BY DEF Types
      <4>3. stored' = stored
        BY <1>4 DEF Overlook
      <4> QED
        BY <4>1, <4>2, <4>3
    <3>2. faults' \in 0..MaxFaults
      BY <1>4, ConstantsAssumption DEF Types, Overlook
    <3> QED
      BY <1>4, <3>1, <3>2 DEF Types, Overlook
  <2>2. Local'
    BY <1>4 DEF Types, Local, InSession, Overlook
  <2>3. Restoring'
    BY <1>4 DEF Restoring, Redoing, Overlook
  <2> QED
    BY <1>1, <2>1, <2>2, <2>3, Reprocessed
<1>5. ASSUME NEW e \in Events, Unmark(w, e) PROVE Inv'
  <2>1. Types'
    BY <1>5 DEF Types, Unmark
  <2>2. Local'
    BY <1>5 DEF Types, Local, InSession, Unmark
  <2>3. Restoring'
    BY <1>5 DEF Restoring, Redoing, Unmark
  <2> QED
    BY <1>1, <2>1, <2>2, <2>3, Reprocessed
<1>6. ASSUME NEW s \in Sessions, Tear(w, s) PROVE Inv'
  <2>1. Types'
    BY <1>6 DEF Types, Tear
  <2>2. Local'
    BY <1>6 DEF Types, Local, InSession, Tear
  <2>3. Restoring'
    BY <1>6 DEF Restoring, Redoing, Tear
  <2> QED
    BY <1>1, <2>1, <2>2, <2>3, Reprocessed
<1> QED
  BY <1>2, <1>3, <1>4, <1>5, <1>6 DEF Rebuild

\* Runs that are cut off hold nothing, and have nothing set to delete.
LEMMA CutOff ==
  ASSUME Types, NEW W \in SUBSET Workers, Cut(W)
  PROVE  /\ sums' \in [Sessions -> Seq(Summary)]
         /\ \A s \in Sessions :
              /\ DOMAIN sums'[s] = DOMAIN sums[s]
              /\ \A i \in DOMAIN sums[s] :
                   /\ sums'[s][i].evs = sums[s][i].evs /\ sums'[s][i].fb = sums[s][i].fb
                   /\ sums'[s][i].doomed = sums[s][i].doomed \ W
<1> DEFINE new(s) == [i \in DOMAIN sums[s] |-> [sums[s][i] EXCEPT !.doomed = @ \ W]]
<1>1. sums' = [s \in Sessions |-> new(s)]
  BY DEF Cut
<1>2. ASSUME NEW s \in Sessions PROVE new(s) \in Seq(Summary)
  <2> DEFINE D == [i \in DOMAIN sums[s] |-> sums[s][i].doomed \ W]
  <2>1. D \in [DOMAIN sums[s] -> SUBSET Workers]
    BY SummaryAt
  <2>2. new(s) = [i \in DOMAIN sums[s] |-> [sums[s][i] EXCEPT !.doomed = D[i]]]
    OBVIOUS
  <2>3. sums[s] \in Seq(Summary)
    BY SummaryAt
  <2> HIDE DEF D, new
  <2> QED
    BY <2>1, <2>2, <2>3, Redoomed
<1>3. ASSUME NEW s \in Sessions
      PROVE  /\ DOMAIN new(s) = DOMAIN sums[s]
             /\ \A i \in DOMAIN sums[s] :
                  /\ new(s)[i].evs = sums[s][i].evs /\ new(s)[i].fb = sums[s][i].fb
                  /\ new(s)[i].doomed = sums[s][i].doomed \ W
  BY SummaryAt DEF Summary
<1> HIDE DEF new
<1> QED
  BY <1>1, <1>2, <1>3

LEMMA CutTypes ==
  ASSUME Types, NEW W \in SUBSET Workers, Cut(W)
  PROVE  /\ win' \in [Workers -> SUBSET stored] /\ burst' \in [Workers -> SUBSET stored]
         /\ todo' \in [Workers -> SUBSET stored]
         /\ cands' \in [Workers -> SUBSET Sessions] /\ idle' \in [Workers -> SUBSET Sessions]
         /\ cur' \in [Workers -> Sessions \cup {NoSession}]
         /\ tried' \in [Workers -> 0..MaxTries]
         /\ procMax' \in [Workers -> Events \cup {0}]
         /\ skipMin' \in [Workers -> Events \cup {0}]
         /\ job' \in [Workers -> BOOLEAN] /\ strict' \in [Workers -> BOOLEAN]
         /\ fell' \in [Workers -> BOOLEAN] /\ since' \in [Workers -> BOOLEAN]
         /\ \A w \in W : /\ win'[w] = {} /\ burst'[w] = {} /\ tried'[w] = 0
                         /\ ~fell'[w] /\ ~job'[w]
         /\ \A w \in Workers \ W :
              /\ win'[w] = win[w] /\ cands'[w] = cands[w] /\ burst'[w] = burst[w]
              /\ todo'[w] = todo[w] /\ cur'[w] = cur[w] /\ tried'[w] = tried[w]
              /\ skipMin'[w] = skipMin[w] /\ (fell'[w] <=> fell[w]) /\ (job'[w] <=> job[w])
<1>1. 0 \in 0..MaxTries
  BY ConstantsAssumption
<1> QED
  BY <1>1 DEF Types, Cut

\* Runs are cut off, while the others and the store stay as they are.
LEMMA CutKeeps ==
  ASSUME Inv, NEW W \in SUBSET Workers, Cut(W),
         llmBacked' = llmBacked, reprocs' = reprocs, prov' = prov, reflected' = reflected,
         \A w \in W : pc'[w] \in {"idle", "restore"},
         \A w \in Workers \ W : pc'[w] = pc[w]
  PROVE  Local' /\ PlainStore' /\ PlainRuns' /\ OwnKept' /\ Skips'
<1>1. Local'
  BY CutTypes DEF Local, InSession
<1>2. PlainStore'
  <2> SUFFICES ASSUME ~llmBacked, reprocs = 0
               PROVE  /\ \A s \in Sessions : prov'[s] = 0
                      /\ \A s \in Sessions : \A i \in DOMAIN sums'[s] :
                           sums'[s][i].fb = 0 /\ sums'[s][i].doomed = {}
                      /\ \A s \in Sessions : \A e \in reflected' :
                           Owner[e] = s => Held(s, e)'
    BY DEF PlainStore
  <2>1. \A s \in Sessions : \A i \in DOMAIN sums'[s] :
          sums'[s][i].fb = 0 /\ sums'[s][i].doomed = {}
    BY CutOff DEF PlainStore
  <2>2. ASSUME NEW s \in Sessions, NEW e, Held(s, e) PROVE Held(s, e)'
    BY <2>2, CutOff DEF Held
  <2> QED
    BY <2>1, <2>2 DEF PlainStore
<1>3. PlainRuns'
  <2> SUFFICES ASSUME ~llmBacked, reprocs = 0, NEW v \in Workers
               PROVE  /\ tried'[v] = 0 /\ ~fell'[v]
                      /\ pc'[v] \in {"replace", "mark"} =>
                           \A e \in burst'[v] : Held(cur[v], e)'
    BY DEF PlainRuns
  <2>1. CASE v \in W
    BY <2>1, CutTypes
  <2>2. CASE v \notin W
    <3>1. tried'[v] = 0 /\ ~fell'[v] /\ pc'[v] = pc[v] /\ burst'[v] = burst[v] /\ cur'[v] = cur[v]
      BY <2>2, CutTypes DEF PlainRuns
    <3>2. ASSUME pc[v] \in {"replace", "mark"}, NEW e \in burst[v]
          PROVE  Held(cur[v], e)'
      <4>1. cur[v] \in Sessions /\ Held(cur[v], e)
        BY <3>2 DEF Local, InSession, PlainRuns
      <4>2. PICK i \in DOMAIN sums[cur[v]] : e \in sums[cur[v]][i].evs
        BY <4>1 DEF Held
      <4>3. i \in DOMAIN sums'[cur[v]] /\ sums'[cur[v]][i].evs = sums[cur[v]][i].evs
        BY <4>1, CutOff
      <4> QED
        BY <3>1, <4>2, <4>3 DEF Held
    <3> QED
      BY <3>1, <3>2
  <2> QED
    BY <2>1, <2>2
<1>4. OwnKept'
  <2> SUFFICES ASSUME reprocs = 0, Alone, NEW w \in Workers, pc'[w] \in {"replace", "mark"}
               PROVE  \E i \in DOMAIN sums'[cur'[w]] :
                        /\ sums'[cur'[w]][i].evs = burst'[w]
                        /\ w \notin sums'[cur'[w]][i].doomed
    BY DEF OwnKept
  <2>1. w \notin W /\ pc[w] \in {"replace", "mark"}
    OBVIOUS
  <2>2. cur[w] \in Sessions /\ cur'[w] = cur[w] /\ burst'[w] = burst[w]
    BY <2>1, CutTypes DEF Local, InSession
  <2>3. PICK i \in DOMAIN sums[cur[w]] :
          sums[cur[w]][i].evs = burst[w] /\ w \notin sums[cur[w]][i].doomed
    BY <2>1 DEF OwnKept
  <2> QED
    BY <2>2, <2>3, CutOff
<1>5. Skips'
  BY CutTypes DEF Skips
<1> QED
  BY <1>1, <1>2, <1>3, <1>4, <1>5

LEMMA FailKeeps == ASSUME Inv, NEW w \in Workers, Fail(w) PROVE Inv'
<1>1. /\ Cut({w}) /\ pc' = [pc EXCEPT ![w] = IF job[w] THEN "idle" ELSE "restore"]
      /\ faults' \in 0..MaxFaults
  BY ConstantsAssumption DEF Types, Fail
<1>2. Types'
  BY <1>1, CutTypes, CutOff DEF Types, PCs, Fail
<1>3. Restoring'
  <2>1. ~job'[w] /\ \A v \in Workers \ {w} : job'[v] <=> job[v]
    BY <1>1, CutTypes
  <2>2. pc'[w] = (IF job[w] THEN "idle" ELSE "restore") /\ pc[w] \notin {"idle", "unmark"}
    BY <1>1 DEF Types, Fail
  <2>3. \A v \in Workers \ {w} : pc'[v] = pc[v]
    BY <1>1 DEF Types
  <2>4. \A v \in Workers : Redoing(v)' <=> Redoing(v)
    BY <2>1, <2>2, <2>3 DEF Redoing
  <2>5. \A v \in Workers : pc'[v] = "unmark" <=> pc[v] = "unmark"
    BY <2>2, <2>3
  <2>6. reprocs' = reprocs /\ gate' = gate /\ saved' = saved
    BY DEF Fail
  <2> QED
    BY <2>4, <2>5, <2>6 DEF Restoring
<1>4. Local' /\ PlainStore' /\ PlainRuns' /\ OwnKept' /\ Skips'
  BY <1>1, CutKeeps DEF Types, Fail
<1> QED
  BY <1>2, <1>3, <1>4

LEMMA CrashKeeps == ASSUME Inv, Crash PROVE Inv'
<1>1. /\ Cut(Workers) /\ pc' = [w \in Workers |-> "idle"] /\ faults' \in 0..MaxFaults
  BY ConstantsAssumption DEF Types, Crash
<1>2. Types'
  BY <1>1, CutTypes, CutOff DEF Types, PCs, Crash
<1>3. Restoring'
  BY <1>1 DEF Restoring, Redoing, Crash
<1>4. Local' /\ PlainStore' /\ PlainRuns' /\ OwnKept' /\ Skips'
  BY <1>1, CutKeeps DEF Crash
<1> QED
  BY <1>2, <1>3, <1>4

LEMMA StepInv == Inv /\ [Next]_vars => Inv'
<1> SUFFICES ASSUME Inv, [Next]_vars PROVE Inv'
  OBVIOUS
<1>1. CASE UNCHANGED vars
  BY <1>1 DEF vars, Types, Local, InSession, Restoring, Redoing, PlainStore, PlainRuns,
              Held, OwnKept, Skips
<1>2. CASE \E e \in Events : Ingest(e)
  BY <1>2, IngestKeeps
<1>3. CASE \E s \in Sessions : GoQuiet(s) \/ Settle(s)
  BY <1>3, GoQuietKeeps, SettleKeeps
<1>4. ASSUME NEW w \in Workers, Consolidate(w) PROVE Inv'
  BY <1>4, StartKeeps, ListKeeps, PassOverKeeps, TakeKeeps, GatherKeeps, NarrateKeeps,
     WriteKeeps, DeleteKeeps, PostponeKeeps, CompleteKeeps, MarkKeeps, EndMarkKeeps,
     RecordKeeps, FinishKeeps DEF Consolidate
<1>5. CASE \E w \in Workers : StartReprocess(w) \/ Rebuild(w) \/ Fail(w)
  BY <1>5, StartReprocessKeeps, RebuildKeeps, FailKeeps
<1>6. CASE Crash
  BY <1>6, CrashKeeps
<1> QED
  BY <1>1, <1>2, <1>3, <1>4, <1>5, <1>6 DEF Next

-----------------------------------------------------------------------------
(* The theorems.                                                           *)

LEMMA SpecInv == Spec => []Inv
BY InitInv, StepInv, PTL DEF Spec

LEMMA TypesOK == Types => TypeOK
BY DEF Types, TypeOK

\* Every variable keeps to the values the code can give it: what a run lists,
\* marks or clears are stored events, and the frontier and the position of a
\* run are sequence numbers or 0.
THEOREM TypeCorrect == Spec => []TypeOK
<1>1. Inv => TypeOK
  BY TypesOK
<1> QED
  BY <1>1, SpecInv, PTL

\* No burst is lost: without LLM retries and without Reprocess, an event that
\* ConsolidateSessions has marked is always in a live summary of its session,
\* wherever runs overlap, fail or crash.
THEOREM CoverageSafe == Spec => []CoveredWithoutRetry
<1>1. Inv => CoveredWithoutRetry
  <2> SUFFICES ASSUME Inv, ~llmBacked, reprocs = 0,
                      NEW s \in Sessions, NEW e \in reflected, Owner[e] = s
               PROVE  e \in CoveredBy(sums[s])
    BY DEF CoveredWithoutRetry, Covered, Types
  <2>1. PICK i \in DOMAIN sums[s] : e \in sums[s][i].evs
    BY DEF PlainStore, Held
  <2>2. sums[s][i] \in ToSet(sums[s])
    BY DEF ToSet
  <2> QED
    BY <2>1, <2>2 DEF CoveredBy
<1> QED
  BY <1>1, SpecInv, PTL

\* Reprocess switches the idle timeout off for its own consolidation and puts it
\* back on every way out: a failed statement, a crash, or none.
THEOREM GateSafe == Spec => []GateRestored
<1>1. Inv => GateRestored
  BY DEF Restoring, Redoing, GateRestored
<1> QED
  BY <1>1, SpecInv, PTL

LEMMA OnlyMarkReflects ==
  ASSUME [Next]_vars, NEW e \in reflected' \ reflected
  PROVE  \E w \in Workers, d \in Events : Mark(w, d)
<1>1. reflected' # reflected
  OBVIOUS
<1>2. Next
  BY <1>1 DEF vars
<1>3. \A d \in Events : ~Ingest(d)
  BY <1>1 DEF Ingest
<1>4. \A s \in Sessions : ~GoQuiet(s) /\ ~Settle(s)
  BY <1>1 DEF GoQuiet, Settle
<1>5. ASSUME NEW w \in Workers, StartReprocess(w) \/ Rebuild(w) \/ Fail(w) PROVE FALSE
  <2>1. ~StartReprocess(w) /\ ~Fail(w)
    BY <1>1 DEF StartReprocess, Fail
  <2>2. ~OpenGate(w) /\ ~CloseGate(w) /\ ~Overlook(w)
    BY <1>1 DEF OpenGate, CloseGate, Overlook
  <2>3. \A d \in Events : ~Unmark(w, d)
    BY DEF Unmark
  <2>4. \A s \in Sessions : ~Tear(w, s)
    BY <1>1 DEF Tear
  <2> QED
    BY <1>5, <2>1, <2>2, <2>3, <2>4 DEF Rebuild
<1>6. ~Crash
  BY <1>1 DEF Crash
<1>7. PICK w \in Workers : Consolidate(w)
  BY <1>2, <1>3, <1>4, <1>5, <1>6 DEF Next
<1>8. ~Start(w) /\ ~List(w) /\ ~Gather(w) /\ ~Narrate(w) /\ ~Write(w) /\ ~Delete(w)
  BY <1>1 DEF Start, List, Gather, Narrate, Write, Delete
<1>9. ~Postpone(w) /\ ~Complete(w) /\ ~EndMark(w) /\ ~Record(w) /\ ~Finish(w)
  BY <1>1 DEF Postpone, Complete, EndMark, Record, Finish
<1>10. \A s \in Sessions : ~PassOver(w, s) /\ ~Take(w, s)
  BY <1>1 DEF PassOver, Take
<1> QED
  BY <1>7, <1>8, <1>9, <1>10 DEF Consolidate

LEMMA OnlyJobsMoveTheFrontier ==
  ASSUME [Next]_vars, frontier' # frontier
  PROVE  \E w \in Workers : Record(w) \/ Finish(w)
<1>1. Next
  BY DEF vars
<1>2. \A e \in Events : ~Ingest(e)
  BY DEF Ingest
<1>3. \A s \in Sessions : ~GoQuiet(s) /\ ~Settle(s)
  BY DEF GoQuiet, Settle
<1>4. ASSUME NEW w \in Workers, StartReprocess(w) \/ Rebuild(w) \/ Fail(w) PROVE FALSE
  <2>1. ~StartReprocess(w) /\ ~Fail(w)
    BY DEF StartReprocess, Fail
  <2>2. ~OpenGate(w) /\ ~CloseGate(w) /\ ~Overlook(w)
    BY DEF OpenGate, CloseGate, Overlook
  <2>3. \A e \in Events : ~Unmark(w, e)
    BY DEF Unmark
  <2>4. \A s \in Sessions : ~Tear(w, s)
    BY DEF Tear
  <2> QED
    BY <1>4, <2>1, <2>2, <2>3, <2>4 DEF Rebuild
<1>5. ~Crash
  BY DEF Crash
<1>6. PICK w \in Workers : Consolidate(w)
  BY <1>1, <1>2, <1>3, <1>4, <1>5 DEF Next
<1>7. ~Start(w) /\ ~List(w) /\ ~Gather(w) /\ ~Narrate(w) /\ ~Write(w) /\ ~Delete(w)
  BY DEF Start, List, Gather, Narrate, Write, Delete
<1>8. ~Postpone(w) /\ ~Complete(w) /\ ~EndMark(w)
  BY DEF Postpone, Complete, EndMark
<1>9. \A s \in Sessions : ~PassOver(w, s) /\ ~Take(w, s)
  BY DEF PassOver, Take
<1>10. \A e \in Events : ~Mark(w, e)
  BY DEF Mark
<1> QED
  BY <1>6, <1>7, <1>8, <1>9, <1>10 DEF Consolidate

\* A run that is alone marks an event only while a live summary has it: of the
\* summaries it set out to replace, its own is never one.
THEOREM MarkingSafe == Spec => MarkedIsCovered
<1>1. ASSUME Inv, [Next]_vars, reprocs = 0, Alone, NEW e \in reflected' \ reflected
      PROVE  e \in CoveredBy(sums'[Owner[e]])
  <2>1. PICK w \in Workers, d \in Events : Mark(w, d)
    BY <1>1, OnlyMarkReflects
  <2>2. e = d /\ sums' = sums /\ e \in burst[w] /\ Owner[e] = cur[w]
    BY <1>1, <2>1 DEF Local, InSession, Mark
  <2>3. PICK i \in DOMAIN sums[cur[w]] : sums[cur[w]][i].evs = burst[w]
    BY <1>1, <2>1 DEF OwnKept, Mark
  <2>4. sums[cur[w]][i] \in ToSet(sums[cur[w]])
    BY DEF ToSet
  <2> QED
    BY <2>2, <2>3, <2>4 DEF CoveredBy
<1>2. Inv /\ [Next]_vars =>
        [reprocs = 0 /\ Alone =>
           \A e \in reflected' \ reflected : e \in CoveredBy(sums'[Owner[e]])]_vars
  BY <1>1
<1> QED
  BY <1>2, SpecInv, PTL DEF Spec, MarkedIsCovered

\* A run never records a frontier at or beyond a listed session event that it
\* leaves unreflected: the next run will list that event again.
THEOREM FrontierSafe == Spec => FrontierKeepsSkipped
<1>1. ASSUME Inv, [Next]_vars, NEW w \in Workers,
             pc[w] = "visit", pc'[w] \in {"finish", "restore"}, reprocs = 0,
             NEW e \in (win[w] \cap SessionEvents) \ reflected, frontier' # frontier
      PROVE  e > frontier'
  <2>1. Record(w)
    <3>1. PICK v \in Workers : Record(v) \/ Finish(v)
      BY <1>1, OnlyJobsMoveTheFrontier
    <3>2. v = w
      BY <1>1, <3>1 DEF Types, Record, Finish
    <3> QED
      BY <1>1, <3>1, <3>2 DEF Finish
  <2>2. frontier' = Frontier(w)
    BY <1>1, <2>1 DEF Record, Newest
  <2>3. burst[w] = {} /\ cands[w] = {}
    BY <1>1, <2>1 DEF Local, InSession, Record
  <2>4. skipMin[w] > 0 /\ skipMin[w] <= e
    BY <1>1, <2>3 DEF Skips
  <2>5. Frontier(w) \in Events \cup {0} /\ Frontier(w) < skipMin[w]
    BY <1>1, <2>4, FrontierOf
  <2>6. e \in Events /\ skipMin[w] \in Events \cup {0}
    BY <1>1 DEF Types, SessionEvents
  <2> QED
    BY <2>2, <2>4, <2>5, <2>6, EventsAreNumbers
<1>2. Inv /\ [Next]_vars =>
        [\A w \in Workers :
           pc[w] = "visit" /\ pc'[w] \in {"finish", "restore"} /\ reprocs = 0 =>
             \A e \in (win[w] \cap SessionEvents) \ reflected :
               frontier' # frontier => e > frontier']_vars
  BY <1>1
<1> QED
  BY <1>2, SpecInv, PTL DEF Spec, FrontierKeepsSkipped
=============================================================================
