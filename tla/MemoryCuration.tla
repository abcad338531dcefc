--------------------------- MODULE MemoryCuration ---------------------------
(***************************************************************************)
(* What callers and jobs do to a group of memories that are duplicates of  *)
(* each other: Remember, UpdateMemory, ShareMemory and ForgetMemory        *)
(* (service/service.go), duplicate candidates (candidates.go),             *)
(* MergeDuplicates (dedup.go), DecayStaleMemories (decay.go) and           *)
(* LifecycleReview (lifecycle_review.go).  All of them read rows, work on  *)
(* the copies, and write whole rows back, with nothing to keep them apart. *)
(*                                                                         *)
(* Memories are numbered by age.  Of two duplicates the code prefers the   *)
(* one with more confidence, or else the younger one; between twins, which *)
(* are stored in the same second, the one it happens to look at.  What a   *)
(* memory absorbs may raise its confidence, and so change the preference.  *)
(* Wording is left out: whether a new memory is similar enough to an old   *)
(* one to be absorbed is open.                                             *)
(***************************************************************************)
EXTENDS Naturals, FiniteSets

CONSTANTS
  Memories,     \* the memories that may ever be stored
  Levels,       \* levels of confidence
  Born,         \* confidence each memory is created with
  Twins,        \* memories stored in the same second
  Tracked,      \* memories whose source events are followed
  Workers,      \* processes at work on the store
  Does,         \* what each of them does
  MaxFaults,    \* bound: statements that fail, processes that die
  MaxCalls,     \* bound: callers that replace, edit, share or forget a memory
  MaxRewrites   \* bound: rows rewritten by decay, passes of the review

Kinds == {"merge", "decay", "review", "candidate", "remember", "call"}

ASSUME ConstantsAssumption ==
  /\ Memories \subseteq Nat \ {0} /\ IsFiniteSet(Memories)
  /\ Levels \subseteq Nat \ {0} /\ Born \in [Memories -> Levels]
  /\ Twins \subseteq Memories /\ Tracked \subseteq Memories
  /\ Does \in [Workers -> SUBSET Kinds]
  /\ MaxFaults \in Nat /\ MaxCalls \in Nat /\ MaxRewrites \in Nat

VARIABLES
  mem,     \* the rows
  pc,      \* where each process is
  copy,    \* its copies of rows
  found,   \* copies that MergeDuplicates found for the memory at hand
  todo,    \* memories it has still to visit
  gone,    \* mergedIDs
  cur,     \* the memory at hand
  faults, calls, rewrites,
  down,    \* history: a caller, the LLM or chance preferred a lesser memory
  lifted,  \* history: what a memory absorbed has lifted it over a better one
  unborn   \* history: memories whose Remember died before the insertion

local == <<pc, copy, found, todo, gone, cur>>
budget == <<faults, calls, rewrites>>
history == <<down, lifted, unborn>>
vars == <<mem, local, budget, history>>

\* by is superseded_by, of is supersedes; 0 stands for no memory.  src are the
\* tracked memories whose source events the row names.
Row == [st : {"none", "active", "superseded", "archived", "retracted"},
        by : Memories \cup {0}, of : Memories \cup {0}, conf : Levels \cup {0},
        src : SUBSET Tracked]

NoRow == [st |-> "none", by |-> 0, of |-> 0, conf |-> 0, src |-> {}]
NoRows == [m \in Memories |-> NoRow]
NewRow(n, t) ==
  [st |-> "active", by |-> 0, of |-> t, conf |-> Born[n], src |-> {n} \cap Tracked]

\* Memory a is better than b by the confidence they were created with, or else
\* by age.
Over(a, b) == Born[a] > Born[b] \/ (Born[a] = Born[b] /\ a > b)

\* Raised to c, memory k is as confident as one that is better than it.
Lifts(k, c) ==
  \E m \in Memories : Over(m, k) /\ Born[k] < c /\ Born[m] <= c

With(rows, st) == {m \in Memories : rows[m].st = st}
Stored == {m \in Memories : mem[m].st # "none"}
Active == With(mem, "active")

\* ListMemories and SearchMemories with status active.
ActiveRows == [m \in Memories |-> IF m \in Active THEN mem[m] ELSE NoRow]

\* Bugs: the memory keeps its status, or is given one that nobody knows.
DroppedByPointer(row, k) == [row EXCEPT !.by = k]
DroppedMisnamed(row, k) == [row EXCEPT !.st = "merged", !.by = k]

\* A row after k has superseded it.
Dropped(row, k) == [row EXCEPT !.st = "superseded", !.by = k]

\* The keeper of a merge: it names what it absorbs only if it is the first.
Absorbed(row, other, m) ==
  [row EXCEPT !.src = @ \cup other.src, !.of = IF @ = 0 THEN m ELSE @]

PCs == {"idle", "merge", "pair", "decay", "review", "rewrite", "search", "keep",
        "siblings", "insert", "old", "write"}

Goto(w, l) == pc' = [pc EXCEPT ![w] = l]

Init ==
  /\ mem = NoRows
  /\ pc = [w \in Workers |-> "idle"]
  /\ copy = [w \in Workers |-> NoRows]
  /\ found = [w \in Workers |-> NoRows]
  /\ todo = [w \in Workers |-> {}]
  /\ gone = [w \in Workers |-> {}]
  /\ cur = [w \in Workers |-> 0]
  /\ faults = 0 /\ calls = 0 /\ rewrites = 0
  /\ down = FALSE /\ lifted = FALSE /\ unborn = {}

Begin(w, kind, l) ==
  /\ pc[w] = "idle"
  /\ kind \in Does[w]
  /\ Goto(w, l)

\* A process is done and forgets its copies.
Leave(w) ==
  /\ Goto(w, "idle")
  /\ copy' = [copy EXCEPT ![w] = NoRows]
  /\ found' = [found EXCEPT ![w] = NoRows]
  /\ todo' = [todo EXCEPT ![w] = {}]
  /\ gone' = [gone EXCEPT ![w] = {}]
  /\ cur' = [cur EXCEPT ![w] = 0]

\* A job lists the active memories it is going to work through.
TakeList(w, kind) ==
  /\ Begin(w, kind, kind)
  /\ copy' = [copy EXCEPT ![w] = ActiveRows]
  /\ todo' = [todo EXCEPT ![w] = Active]
  /\ UNCHANGED <<mem, found, gone, cur, budget, history>>

\* A loop has passed m and will not look at its copy again.
Visited(w, m) ==
  /\ todo' = [todo EXCEPT ![w] = @ \ {m}]
  /\ copy' = [copy EXCEPT ![w][m] = NoRow]

EndJob(w) ==
  /\ pc[w] \in {"merge", "decay", "rewrite", "siblings"}
  /\ todo[w] \ gone[w] = {}
  /\ Leave(w)
  /\ UNCHANGED <<mem, budget, history>>

\* UpdateMemory of the repository: the whole row is written.
Put(m, row) == mem' = [mem EXCEPT ![m] = row]
-----------------------------------------------------------------------------
(* MergeDuplicates, one iteration of it.  The next one is another run. *)

\* The duplicates of the next memory are searched.  If the index knows no more
\* than the memory itself the list is used instead, old as it is.
MergeSearch(w, a) ==
  /\ pc[w] = "merge"
  /\ a \in todo[w] \ gone[w]
  /\ Goto(w, "pair")
  /\ cur' = [cur EXCEPT ![w] = a]
  /\ todo' = [todo EXCEPT ![w] = @ \ {a}]
  /\ found' = [found EXCEPT ![w] =
                 IF Cardinality(Active) > 1 THEN ActiveRows ELSE copy[w]]
  /\ UNCHANGED <<mem, copy, gone, budget, history>>

\* The memory at hand is kept unless its duplicate b is better.  Of equally
\* confident twins this may be the lesser one.
Keeps(w, b) ==
  LET a == cur[w] IN
  \/ copy[w][a].conf > found[w][b].conf
  \/ copy[w][a].conf = found[w][b].conf /\ (a > b \/ {a, b} \subseteq Twins)
ByChance(w, b) ==
  LET a == cur[w] IN
  copy[w][a].conf = found[w][b].conf /\ {a, b} \subseteq Twins /\ a < b

Mergeable(w) == With(found[w], "active") \ (gone[w] \cup {cur[w]})

\* The rows of the memory at hand and of its duplicate b after mergePair.
MergedHere(w, b) ==
  LET a == cur[w] IN
  IF Keeps(w, b) THEN Absorbed(copy[w][a], found[w][b], b) ELSE Dropped(copy[w][a], b)
MergedThere(w, b) ==
  LET a == cur[w] IN
  IF Keeps(w, b) THEN Dropped(found[w][b], a) ELSE Absorbed(found[w][b], copy[w][a], a)

\* mergePair writes both rows in one transaction, from the list's copy of one
\* and the search's copy of the other.
MergePair(w, b) ==
  LET a == cur[w] IN
  /\ pc[w] = "pair"
  /\ b \in Mergeable(w)
  /\ mem' = [mem EXCEPT ![a] = MergedHere(w, b), ![b] = MergedThere(w, b)]
  /\ copy' = [copy EXCEPT ![w][a] = MergedHere(w, b)]
  /\ gone' = [gone EXCEPT ![w] = @ \cup {IF Keeps(w, b) THEN b ELSE a}]
  /\ found' = [found EXCEPT ![w] = NoRows]
  /\ cur' = [cur EXCEPT ![w] = 0]
  /\ down' = (down \/ ByChance(w, b))
  /\ Goto(w, "merge")
  /\ UNCHANGED <<todo, budget, lifted, unborn>>

\* The transaction fails: the list's copy is changed all the same, and the next
\* duplicate is tried.
MergePairFails(w, b) ==
  LET a == cur[w] IN
  /\ faults < MaxFaults
  /\ pc[w] = "pair"
  /\ b \in Mergeable(w)
  /\ faults' = faults + 1
  /\ copy' = [copy EXCEPT ![w][a] = MergedHere(w, b)]
  /\ found' = [found EXCEPT ![w][b] = NoRow]
  /\ down' = (down \/ ByChance(w, b))
  /\ UNCHANGED <<mem, pc, todo, gone, cur, calls, rewrites, lifted, unborn>>

MergeNothing(w) ==
  /\ pc[w] = "pair"
  /\ Mergeable(w) = {}
  /\ Goto(w, "merge")
  /\ found' = [found EXCEPT ![w] = NoRows]
  /\ cur' = [cur EXCEPT ![w] = 0]
  /\ UNCHANGED <<mem, copy, todo, gone, budget, history>>
-----------------------------------------------------------------------------
(* DecayStaleMemories and LifecycleReview. *)

\* A memory is fresh and left alone, or its copy is written back with less
\* importance or archived.
Decay(w, m) ==
  /\ pc[w] = "decay"
  /\ m \in todo[w]
  /\ Visited(w, m)
  /\ \/ UNCHANGED <<mem, rewrites>>
     \/ /\ rewrites < MaxRewrites
        /\ rewrites' = rewrites + 1
        /\ \E st \in {"active", "archived"} : Put(m, [copy[w][m] EXCEPT !.st = st])
  /\ UNCHANGED <<pc, found, gone, cur, faults, calls, history>>

\* R are the memories due for review.  The LLM names some to archive and some to
\* merge into others; it is applied to the copies, archiving before merging.
Review(w) ==
  /\ pc[w] = "review"
  /\ \E R \in SUBSET todo[w] : \E S, D \in SUBSET R : \E into \in [D -> R \ S] :
       /\ IF R = {} THEN UNCHANGED rewrites
          ELSE rewrites < MaxRewrites /\ rewrites' = rewrites + 1
       /\ D \cap S = {}
       /\ \A d \in D : into[d] # d
       /\ copy' = [copy EXCEPT ![w] = [m \in Memories |->
            IF m \in S THEN [@[m] EXCEPT !.st = "archived"]
            ELSE IF m \in D THEN Dropped(@[m], into[m]) ELSE @[m]]]
       /\ todo' = [todo EXCEPT ![w] = R]
       /\ down' = (down \/ \E d \in D : ~Over(into[d], d))
  /\ Goto(w, "rewrite")
  /\ UNCHANGED <<mem, found, gone, cur, faults, calls, lifted, unborn>>

\* Every memory reviewed is written back, if only for the time of the review.
Rewrite(w, m) ==
  /\ pc[w] = "rewrite"
  /\ m \in todo[w]
  /\ Put(m, copy[w][m])
  /\ Visited(w, m)
  /\ UNCHANGED <<pc, found, gone, cur, budget, history>>
-----------------------------------------------------------------------------
(* Memories that arrive: candidates of the extraction jobs, and Remember. *)

Created == Stored \cup unborn \cup {cur[v] : v \in {v \in Workers : pc[v] = "insert"}}

\* The next memory to be created; twins come in any order.
Fresh(n) ==
  /\ n \in Memories \ Created
  /\ \A m \in Memories \ Created : m < n => {m, n} \subseteq Twins

\* The keeper among duplicates; of equally confident twins the first in the list.
Best(k) ==
  /\ k \in Active
  /\ \A m \in Active \ {k} :
       \/ mem[k].conf > mem[m].conf
       \/ mem[k].conf = mem[m].conf /\ (k > m \/ {k, m} \subseteq Twins)

\* A candidate is dropped if it resembles a retracted memory.
Candidate(w) ==
  /\ With(mem, "retracted") = {}
  /\ Begin(w, "candidate", "search")
  /\ UNCHANGED <<mem, copy, found, todo, gone, cur, budget, history>>

\* A memory that nothing absorbs is about to be inserted.
Inserting(w, t) ==
  \E n \in Memories :
    /\ Fresh(n)
    /\ copy' = [copy EXCEPT ![w][n] = NewRow(n, t)]
    /\ cur' = [cur EXCEPT ![w] = n]
    /\ down' = (down \/ (t # 0 /\ ~Over(n, t)))

\* A row with confidence c and the source events S.
Credited(row, c, S) == [row EXCEPT !.conf = c, !.src = S]

\* k absorbs what arrives with confidence c, and has the source events S.
Absorbing(w, k, c, S, rows) ==
  /\ c >= mem[k].conf
  /\ copy' = [copy EXCEPT ![w] = [rows EXCEPT ![k] = Credited(@, c, S)]]
  /\ cur' = [cur EXCEPT ![w] = k]
  /\ lifted' = (lifted \/ Lifts(k, c))

AllSources == UNION {mem[m].src : m \in Active}

\* Bug: the keeper is the first of the duplicates, not the best of them.
SearchFirst(w) ==
  /\ pc[w] = "search"
  /\ \/ Active = {} /\ Inserting(w, 0) /\ Goto(w, "insert") /\ UNCHANGED lifted
     \/ /\ \E k \in Active, c \in Levels : Absorbing(w, k, c, AllSources, ActiveRows)
        /\ Goto(w, "keep")
        /\ UNCHANGED down
  /\ UNCHANGED <<mem, found, todo, gone, budget, unborn>>

\* Its duplicates are searched; the best of them takes over the sources of the
\* others and the confidence of the candidate.  Without duplicates it becomes a
\* memory.
Search(w) ==
  /\ pc[w] = "search"
  /\ \/ Active = {} /\ Inserting(w, 0) /\ Goto(w, "insert") /\ UNCHANGED lifted
     \/ /\ \E k \in Memories, c \in Levels :
             /\ Best(k)
             /\ Absorbing(w, k, c, AllSources, ActiveRows)
             /\ down' = (down \/ \E m \in Active : mem[m].conf = mem[k].conf /\ k < m)
        /\ Goto(w, "keep")
  /\ UNCHANGED <<mem, found, todo, gone, budget, unborn>>

\* Bug: the keeper is not left out of the duplicates it supersedes.
KeepAll(w) ==
  /\ pc[w] = "keep"
  /\ Put(cur[w], copy[w][cur[w]])
  /\ todo' = [todo EXCEPT ![w] = With(copy[w], "active")]
  /\ Goto(w, "siblings")
  /\ UNCHANGED <<copy, found, gone, cur, budget, history>>

\* handleDuplicateCandidate: first the keeper, then the others one by one.
Keep(w) ==
  /\ pc[w] = "keep"
  /\ Put(cur[w], copy[w][cur[w]])
  /\ todo' = [todo EXCEPT ![w] = With(copy[w], "active") \ {cur[w]}]
  /\ Goto(w, "siblings")
  /\ UNCHANGED <<copy, found, gone, cur, budget, history>>

Sibling(w, m) ==
  /\ pc[w] = "siblings"
  /\ m \in todo[w]
  /\ Put(m, Dropped(copy[w][m], cur[w]))
  /\ Visited(w, m)
  /\ UNCHANGED <<pc, found, gone, cur, budget, history>>

\* Remember without a memory to replace: the best duplicate absorbs it if they
\* are similar enough.
Remember(w) ==
  /\ \/ Begin(w, "remember", "insert") /\ Inserting(w, 0) /\ UNCHANGED lifted
     \/ /\ Begin(w, "remember", "write")
        /\ \E k \in Memories, c \in Levels :
             /\ Best(k)
             /\ Absorbing(w, k, c, mem[k].src, [copy[w] EXCEPT ![k] = mem[k]])
        /\ UNCHANGED down
  /\ UNCHANGED <<mem, found, todo, gone, budget, unborn>>

\* Remember with a memory t to replace: t is superseded before the new memory
\* is inserted, and a failure to do so is only logged.  Reading t and writing it
\* are taken together, here and in SupersedeOld.
Replace(w, t) ==
  /\ calls < MaxCalls
  /\ t \in Stored
  /\ Begin(w, "remember", "insert")
  /\ calls' = calls + 1
  /\ Inserting(w, t)
  /\ \/ Put(t, Dropped(mem[t], cur'[w])) /\ UNCHANGED faults
     \/ faults < MaxFaults /\ faults' = faults + 1 /\ UNCHANGED mem
  /\ UNCHANGED <<found, todo, gone, rewrites, lifted, unborn>>

\* InsertMemory.
Insert(w) ==
  /\ pc[w] = "insert"
  /\ Put(cur[w], copy[w][cur[w]])
  /\ Leave(w)
  /\ UNCHANGED <<budget, history>>
-----------------------------------------------------------------------------
(* Calls about one memory: it is read, changed, and written back. *)

Call(w, m, l, row) ==
  /\ calls < MaxCalls
  /\ m \in Stored
  /\ Begin(w, "call", l)
  /\ calls' = calls + 1
  /\ copy' = [copy EXCEPT ![w][m] = row]
  /\ cur' = [cur EXCEPT ![w] = m]
  /\ UNCHANGED <<mem, found, todo, gone, faults, rewrites, history>>

\* ForgetMemory.
Forget(w, m) == Call(w, m, "write", [mem[m] EXCEPT !.st = "retracted"])

\* ShareMemory, and UpdateMemory of a memory that replaces none.
Share(w, m) == Call(w, m, "write", mem[m])

\* UpdateMemory, here of wording or tags, supersedes once more what the memory
\* replaces.
Edit(w, m) == mem[m].of # 0 /\ Call(w, m, "old", mem[m])

SupersedeOld(w) ==
  LET old == copy[w][cur[w]].of IN
  /\ pc[w] = "old"
  /\ IF old \in Stored THEN Put(old, Dropped(mem[old], cur[w])) ELSE UNCHANGED mem
  /\ Goto(w, "write")
  /\ UNCHANGED <<copy, found, todo, gone, cur, budget, history>>

\* Bug: to write a memory that has been forgotten brings it back.
WriteReviving(w) ==
  /\ pc[w] = "write"
  /\ Put(cur[w], IF mem[cur[w]].st = "retracted"
                 THEN [copy[w][cur[w]] EXCEPT !.st = "active"] ELSE copy[w][cur[w]])
  /\ Leave(w)
  /\ UNCHANGED <<budget, history>>

Write(w) ==
  /\ pc[w] = "write"
  /\ Put(cur[w], copy[w][cur[w]])
  /\ Leave(w)
  /\ UNCHANGED <<budget, history>>

\* A statement fails or the process dies; what was written stays written.
Fail(w) ==
  /\ faults < MaxFaults
  /\ pc[w] # "idle"
  /\ faults' = faults + 1
  /\ unborn' = IF pc[w] = "insert" THEN unborn \cup {cur[w]} ELSE unborn
  /\ Leave(w)
  /\ UNCHANGED <<mem, calls, rewrites, down, lifted>>
-----------------------------------------------------------------------------
Merging(w) ==
  \/ TakeList(w, "merge") \/ MergeNothing(w)
  \/ \E m \in Memories : MergeSearch(w, m) \/ MergePair(w, m)

Continue(w) ==
  \/ Merging(w)
  \/ EndJob(w) \/ Review(w) \/ Search(w) \/ Keep(w) \/ Insert(w)
  \/ SupersedeOld(w) \/ Write(w)
  \/ \E m \in Memories : Decay(w, m) \/ Rewrite(w, m) \/ Sibling(w, m)

Start(w) ==
  \/ TakeList(w, "decay") \/ TakeList(w, "review") \/ Candidate(w) \/ Remember(w)
  \/ \E m \in Memories : Replace(w, m) \/ Forget(w, m) \/ Share(w, m) \/ Edit(w, m)

Next ==
  \E w \in Workers :
    \/ Continue(w) \/ Start(w) \/ Fail(w)
    \/ \E b \in Memories : MergePairFails(w, b)

Spec == Init /\ [][Next]_vars

\* What has been started goes on, and MergeDuplicates is started again and
\* again; nobody has to call anything.
FairSpec == Spec /\ \A w \in Workers : WF_vars(Continue(w))
-----------------------------------------------------------------------------
(* Properties. *)

\* Every variable ranges over the values the code can give it.
TypeOK ==
  /\ mem \in [Memories -> Row]
  /\ pc \in [Workers -> PCs]
  /\ copy \in [Workers -> [Memories -> Row]]
  /\ found \in [Workers -> [Memories -> Row]]
  /\ todo \in [Workers -> SUBSET Memories]
  /\ gone \in [Workers -> SUBSET Memories]
  /\ cur \in [Workers -> Memories \cup {0}]
  /\ faults \in Nat /\ calls \in Nat /\ rewrites \in Nat
  /\ down \in BOOLEAN /\ lifted \in BOOLEAN
  /\ unborn \subseteq Memories

\* Supersession only climbs, so it never runs in a circle, whatever copies the
\* rows are written from, as long as a lesser memory is never preferred and none
\* is lifted over a better one by what it absorbs.
Climbs ==
  down \/ lifted \/ \A m \in Memories :
    /\ mem[m].by # 0 => Over(mem[m].by, m)
    /\ mem[m].of # 0 => Over(m, mem[m].of)

\* Duplicates never make each other disappear: one memory of the group is not
\* superseded, or is about to be inserted, or its Remember has died.
SomeoneStands ==
  \/ down \/ lifted \/ Stored = {} \/ unborn # {}
  \/ Stored # With(mem, "superseded")
  \/ \E w \in Workers : pc[w] = "insert"

\* A forgotten memory is only brought back by a process that had read it before.
RevivedFromCopy ==
  [][\A m \in Memories :
       mem[m].st = "retracted" /\ mem'[m].st = "active" =>
         \E w \in Workers : "active" \in {copy[w][m].st, found[w][m].st}]_vars

\* However merges overlap with each other and with callers, in the end there is
\* one memory of the group at most, unless twins are written again and again:
\* each time the one that is written may be the one that a merge has dropped.
EventuallyOne ==
  <>[](\A w \in Workers : pc[w] \in {"keep", "write"} => cur[w] \notin Twins) =>
    <>[](Cardinality(Active) <= 1)

\* A forgotten memory stays out of recall.
StaysForgotten ==
  [][\A m \in Memories :
       mem[m].st = "retracted" => mem'[m].st # "active"]_vars

\* The memory that supersedes another in a merge has its source events.
SourcesKept ==
  \A m \in Memories :
    mem[m].st = "superseded" => mem[m].src \subseteq mem[mem[m].by].src
=============================================================================
