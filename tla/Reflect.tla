------------------------------ MODULE Reflect ------------------------------
(***************************************************************************)
(* The Reflect job (service/reflect.go) over events that belong to no      *)
(* session, with any number of runs at once: the HTTP job endpoint, the    *)
(* CLI and cron each start their own.  A run claims a slice of unreflected *)
(* events, filters it, works through it in LLM batches, and only after its *)
(* last claim came back empty gives the events it wants retried back.      *)
(*                                                                         *)
(* Each action is one repository statement or one call to the provider     *)
(* with the local work that follows it.  A run keeps what it claimed in    *)
(* its own memory, so a failure anywhere drops it.  A candidate is merged  *)
(* into the active memories it is similar to, whatever events those came   *)
(* from: memories are kept by their wording, and name their source events. *)
(* How the statements of two candidates interleave is in MemoryCuration.   *)
(***************************************************************************)
EXTENDS Naturals, FiniteSets

CONSTANTS
  Events,      \* events with no session, named by their sequence number
  Workers,     \* concurrent runs of the job
  ClaimLimit,  \* reflectBatchSize
  BatchLimit,  \* reflectLLMBatchSize
  MaxTries,    \* maxHeuristicFallbackRetries
  ReadOnly,    \* events ingested under a read_only policy
  HeurFinds,   \* events the heuristic extractor finds a candidate in
  HeurKeeps,   \* ... and whose candidate passes the quality gates
  Texts,       \* wordings a memory may have, as far as searches tell them apart
  Alike,       \* pairs of different wordings that count as duplicates
  Kind,        \* type, scope and project of a memory of each wording
  HeurText,    \* wording of the heuristic candidate of each event
  MaxFaults,   \* bound: runs that fail or crash
  MaxChanges,  \* bound: memories the user adds, rewords or retracts
  MaxResets    \* bound: reset-derived calls

ASSUME ConstantsAssumption ==
  /\ Events \subseteq Nat
  /\ ReadOnly \subseteq Events
  /\ HeurKeeps \subseteq HeurFinds /\ HeurFinds \subseteq Events
  /\ ClaimLimit \in Nat \ {0} /\ BatchLimit \in Nat \ {0}
  /\ MaxTries \in Nat \ {0}
  /\ Alike \subseteq {{t, u} : t, u \in Texts}
  /\ \A t, u \in Texts : {t, u} \in Alike => Kind[t] = Kind[u]
  /\ HeurText \in [HeurFinds -> Texts]
  /\ MaxFaults \in Nat /\ MaxChanges \in Nat /\ MaxResets \in Nat

VARIABLES
  llmBacked,  \* the configured provider is LLM-backed
  stored,     \* events in the table
  reflected,  \* events whose row has reflected_at set
  fbCount,    \* reflect_fallback_count in the row's metadata
  mem,        \* the active memory of each wording, if any
  forgotten,  \* source systems of the retracted memories of each wording
  pc,         \* where each run is
  queue,      \* claimed events of the run not yet in a batch
  batch,      \* events of the batch being worked on
  todo,       \* events of the batch the current loop has still to visit
  again,      \* retryEvents
  copies,     \* fallback count in the run's own copy of each row
  fellBack,   \* the batch's candidates came from the heuristic fallback
  faults, changes, resets,
  raced,      \* history: some reset hit a run in progress
  reworded,   \* history: some memory was reworded
  lost,       \* history: events that died with a failed run
  unanswered  \* history: events that fell back since the LLM last answered for them

store == <<llmBacked, stored, reflected, fbCount, mem, forgotten>>
local == <<pc, queue, batch, todo, again, copies, fellBack>>
budget == <<faults, changes, resets, raced, reworded>>
vars == <<store, local, budget, lost, unanswered>>


Min2(a, b) == IF a < b THEN a ELSE b

\* Counters saturate: the code only compares them with MaxTries.
Inc(n) == Min2(n + 1, MaxTries)

\* by is the extraction method, "user" while a remembered memory has none; fc
\* is fallback_count, of is source_event_ids_json.  cause is history: the event
\* whose fallback candidate left the memory provisional.
Systems == {"remember", "reflect"}
Memory == [source : Systems, by : {"none", "user", "llm", "heuristic"},
           fc : 0..MaxTries, of : SUBSET Events, cause : SUBSET Events]
New(sys, method) ==
  [source |-> sys, by |-> method, fc |-> 0, of |-> {}, cause |-> {}]
NoMemory == New("reflect", "none")
Active(m) == m.by # "none"

\* shouldRetryHeuristicMemory
Provisional(m) == m.by = "heuristic" /\ 0 < m.fc /\ m.fc < MaxTries

\* memoriesLikelyDuplicate, which need not be transitive.
Similar(t, u) == t = u \/ {t, u} \in Alike

\* matchesRetractedMemory
Retracted(t) == \E u \in Texts : Similar(t, u) /\ forgotten[u] # {}

PCs == {"idle", "claim", "filter", "batch", "process", "recordEmpty",
        "recordInactive", "clear", "release"}

Held(w) == queue[w] \cup batch[w] \cup again[w]
AllHeld == UNION {Held(w) : w \in Workers}
Unclaimed == stored \ reflected

Goto(w, l) == pc' = [pc EXCEPT ![w] = l]

Init ==
  /\ llmBacked \in BOOLEAN
  /\ stored = {} /\ reflected = {}
  /\ fbCount = [e \in Events |-> 0]
  /\ mem = [t \in Texts |-> NoMemory]
  /\ forgotten = [t \in Texts |-> {}]
  /\ pc = [w \in Workers |-> "idle"]
  /\ queue = [w \in Workers |-> {}]
  /\ batch = [w \in Workers |-> {}]
  /\ todo = [w \in Workers |-> {}]
  /\ again = [w \in Workers |-> {}]
  /\ copies = [w \in Workers |-> [e \in Events |-> 0]]
  /\ fellBack = [w \in Workers |-> FALSE]
  /\ faults = 0 /\ changes = 0 /\ resets = 0
  /\ raced = FALSE /\ reworded = FALSE
  /\ lost = {}
  /\ unanswered = {}
-----------------------------------------------------------------------------
(* Other callers of the store. *)

\* IngestEvent of an event the policies let through.
Ingest(e) ==
  /\ e \notin stored
  /\ stored' = stored \cup {e}
  /\ UNCHANGED <<llmBacked, reflected, fbCount, mem, forgotten, local, budget,
                 lost, unanswered>>

\* A change the user makes to the memories.
UserChange ==
  /\ changes < MaxChanges
  /\ changes' = changes + 1
  /\ UNCHANGED <<llmBacked, stored, reflected, fbCount, local, faults, resets,
                 raced, lost, unanswered>>

\* Remember inserts a wording that no active memory has.  Retracted memories are
\* not looked at; a merge into a similar one changes nothing that is kept here.
Remember(t) ==
  /\ UserChange
  /\ ~Active(mem[t])
  /\ mem' = [mem EXCEPT ![t] = New("remember", "user")]
  /\ UNCHANGED <<forgotten, reworded>>

\* ForgetMemory: the memory is retracted, and kept.
Forget(t) ==
  /\ UserChange
  /\ Active(mem[t])
  /\ mem' = [mem EXCEPT ![t] = NoMemory]
  /\ forgotten' = [forgotten EXCEPT ![t] = @ \cup {mem[t].source}]
  /\ UNCHANGED reworded

\* UpdateMemory gives a memory another wording and keeps its metadata.
Reword(t, u) ==
  /\ UserChange
  /\ Active(mem[t]) /\ ~Active(mem[u])
  /\ mem' = [mem EXCEPT ![t] = NoMemory, ![u] = mem[t]]
  /\ reworded' = TRUE
  /\ UNCHANGED forgotten

\* ResetDerived: one transaction drops the memories that were not remembered,
\* retracted ones too, and clears every reflected_at; the remembered ones keep
\* how they were extracted, and the events' rows their fallback counts.
ResetDerived ==
  /\ resets < MaxResets
  /\ reflected' = {}
  /\ mem' = [t \in Texts |-> IF mem[t].source = "remember" THEN mem[t] ELSE NoMemory]
  /\ forgotten' = [t \in Texts |-> forgotten[t] \cap {"remember"}]
  /\ resets' = resets + 1
  /\ raced' = (raced \/ \E w \in Workers : pc[w] # "idle")
  /\ lost' = {}
  /\ unanswered' = {}
  /\ UNCHANGED <<llmBacked, stored, fbCount, local, faults, changes, reworded>>
-----------------------------------------------------------------------------
(* One run of the job. *)

Start(w) ==
  /\ pc[w] = "idle"
  /\ Goto(w, "claim")
  /\ UNCHANGED <<store, queue, batch, todo, again, copies, fellBack, budget,
                 lost, unanswered>>

\* Mutant: the claim selects rows without looking at reflected_at.
ClaimableAnyRow(S) ==
  S # {} /\ Cardinality(S) = Min2(ClaimLimit, Cardinality(stored))

\* ClaimUnreflectedEvents: one statement takes the oldest unreflected events
\* and marks them reflected.
Claimable(S) ==
  /\ S # {} /\ S \subseteq Unclaimed
  /\ Cardinality(S) = Min2(ClaimLimit, Cardinality(Unclaimed))
  /\ \A e \in S, f \in Unclaimed \ S : e < f

Claim(w) ==
  /\ pc[w] = "claim"
  /\ \E S \in SUBSET stored :
       /\ Claimable(S)
       /\ reflected' = reflected \cup S
       /\ queue' = [queue EXCEPT ![w] = S]
       /\ copies' = [copies EXCEPT ![w] =
                       [e \in Events |-> IF e \in S THEN fbCount[e] ELSE @[e]]]
  /\ Goto(w, "filter")
  /\ UNCHANGED <<llmBacked, stored, fbCount, mem, forgotten, batch, todo,
                 again, fellBack, budget, lost, unanswered>>

ClaimNothing(w) ==
  /\ pc[w] = "claim"
  /\ Unclaimed = {}
  /\ Goto(w, "release")
  /\ UNCHANGED <<store, queue, batch, todo, again, copies, fellBack, budget,
                 lost, unanswered>>

\* Metadata filter, or LLM triage: triage may skip any event and looks at no
\* ingestion mode but "ignore", which IngestEvent never stores.
Passes(S, F) == IF llmBacked THEN F \subseteq S ELSE F = S \ ReadOnly

Filter(w) ==
  /\ pc[w] = "filter"
  /\ \E F \in SUBSET Events :
       /\ Passes(queue[w], F)
       /\ queue' = [queue EXCEPT ![w] = F]
       /\ unanswered' = unanswered \ (queue[w] \ F)
  /\ Goto(w, "batch")
  /\ UNCHANGED <<store, batch, todo, again, copies, fellBack, budget, lost>>

NoMoreBatches(w) ==
  /\ pc[w] = "batch"
  /\ queue[w] = {}
  /\ Goto(w, "claim")
  /\ UNCHANGED <<store, queue, batch, todo, again, copies, fellBack, budget,
                 lost, unanswered>>

\* The provider's answer for one batch.  An LLM-backed provider that fails
\* falls back to the heuristics, whose candidates depend on the events alone.
After(fell, found) ==
  IF found THEN "process" ELSE IF fell THEN "recordEmpty" ELSE "clear"

Extract(w) ==
  /\ pc[w] = "batch"
  /\ \E B \in SUBSET queue[w], fell, found \in BOOLEAN :
       /\ B # {}
       /\ Cardinality(B) = Min2(BatchLimit, Cardinality(queue[w]))
       /\ fell => llmBacked
       /\ (fell \/ ~llmBacked) => (found <=> B \cap HeurFinds # {})
       /\ queue' = [queue EXCEPT ![w] = @ \ B]
       /\ batch' = [batch EXCEPT ![w] = B]
       /\ todo' = [todo EXCEPT ![w] = B]
       /\ fellBack' = [fellBack EXCEPT ![w] = fell]
       /\ unanswered' = IF fell THEN unanswered \cup B ELSE unanswered \ B
       /\ Goto(w, After(fell, found))
  /\ UNCHANGED <<store, again, copies, budget, lost>>

\* Mutants: a retry does not count, or counts past the limit.
MarkedUncounted(m, llm, retry, e) ==
  [m EXCEPT !.by = IF llm THEN "llm" ELSE "heuristic", !.fc = IF retry THEN 1 ELSE 0,
            !.cause = IF retry THEN {e} ELSE {}]
MarkedUncapped(m, llm, retry, e) ==
  [m EXCEPT !.by = IF llm THEN "llm" ELSE "heuristic", !.fc = IF retry THEN @ + 1 ELSE 0,
            !.cause = {}]

\* markExtracted
Marked(m, llm, retry, e) ==
  LET count == IF retry THEN Inc(m.fc) ELSE 0 IN
  [m EXCEPT !.by = IF llm THEN "llm" ELSE "heuristic",
            !.fc = count,
            !.cause = IF 0 < count /\ count < MaxTries THEN {e} ELSE {}]

\* findDuplicateActiveMemories among all active memories, and for an LLM's
\* candidate findRetryUpgradeDuplicates: what only the heuristics have drawn
\* from one of its source events, if it is of its kind.
Duplicates(t, S, llm) ==
  {u \in Texts :
     /\ Active(mem[u])
     /\ \/ Similar(t, u)
        \/ /\ llm /\ mem[u].by = "heuristic"
           /\ Kind[u] = Kind[t] /\ mem[u].of \cap S # {}}

\* handleDuplicateCandidate's keeper k: a final heuristic answer marks only a
\* memory that has no method yet.
Kept(k, D, S, llm, retry, e) ==
  LET m == [mem[k] EXCEPT !.of = S \cup UNION {mem[u].of : u \in D}] IN
  IF llm \/ retry \/ m.by = "user" THEN Marked(m, llm, retry, e) ELSE m

\* A candidate of wording t from the events in S is inserted, or merged into a
\* keeper (the confidence decides which) that supersedes its other duplicates
\* and may take over its wording: it has to if the LLM first has a say.
Absorb(t, S, llm, retry, e) ==
  LET D == Duplicates(t, S, llm) IN
  \/ /\ D = {}
     /\ mem' = [mem EXCEPT ![t] =
                  Marked([New("reflect", "none") EXCEPT !.of = S], llm, retry, e)]
  \/ \E k \in D, u \in Texts :
       /\ u = t \/ (u = k /\ (llm => mem[k].by = "llm"))
       /\ mem' = [x \in Texts |-> IF x = u THEN Kept(k, D, S, llm, retry, e)
                                  ELSE IF x \in D THEN NoMemory ELSE mem[x]]

\* processMemoryCandidates, one candidate at a time and, as a bound, at most one
\* for each event of the batch.  The LLM's candidates are of any wording and any
\* of the batch's events, and may fail the gates; the heuristics repeat what an
\* event gives.  What is similar to a retracted memory is rejected first.
FromLLM(w) == llmBacked /\ ~fellBack[w]
MayCome(w, e, t, S) ==
  IF FromLLM(w) THEN S # {} ELSE e \in HeurKeeps /\ t = HeurText[e] /\ S = {e}
MayReject(w, e) ==
  FromLLM(w) \/ e \notin HeurKeeps \/ Retracted(HeurText[e])

Process(w, e) ==
  /\ pc[w] = "process"
  /\ e \in todo[w]
  /\ todo' = [todo EXCEPT ![w] = @ \ {e}]
  /\ \/ \E t \in Texts, S \in SUBSET batch[w] :
          /\ MayCome(w, e, t, S)
          /\ ~Retracted(t)
          /\ Absorb(t, S, FromLLM(w), fellBack[w], e)
     \/ MayReject(w, e) /\ UNCHANGED mem
  /\ UNCHANGED <<llmBacked, stored, reflected, fbCount, forgotten, pc, queue,
                 batch, again, copies, fellBack, budget, lost, unanswered>>

\* Mutant: only memories that used up their retries ask for one.
ShouldRetryExhausted(B) ==
  \E t \in Texts : mem[t].of \cap B # {} /\ mem[t].fc >= MaxTries

\* sourceEventRetryState, asked once for the whole batch.
Drawn(B) == {t \in Texts : Active(mem[t]) /\ mem[t].of \cap B # {}}
ShouldRetry(B) == \E t \in Drawn(B) : Provisional(mem[t])
HasActive(B) == Drawn(B) # {}

Check(w) ==
  /\ pc[w] = "process"
  /\ todo[w] = {}
  /\ IF fellBack[w] /\ ShouldRetry(batch[w])
     THEN /\ again' = [again EXCEPT ![w] = @ \cup batch[w]]
          /\ batch' = [batch EXCEPT ![w] = {}]
          /\ Goto(w, "batch")
          /\ UNCHANGED todo
     ELSE /\ Goto(w, IF fellBack[w] /\ ~HasActive(batch[w])
                     THEN "recordInactive" ELSE "clear")
          /\ todo' = [todo EXCEPT ![w] = batch[w]]
          /\ UNCHANGED <<again, batch>>
  /\ UNCHANGED <<store, queue, copies, fellBack, budget, lost, unanswered>>

\* Mutants: the row's reflected_at is lost, or kept, whatever the caller meant.
WriteRowUnmarked(w, e, count, mark) ==
  /\ fbCount' = [fbCount EXCEPT ![e] = count]
  /\ copies' = [copies EXCEPT ![w][e] = count]
  /\ reflected' = reflected \ {e}
  /\ UNCHANGED <<llmBacked, stored, mem, forgotten>>
WriteRowMarked(w, e, count, mark) ==
  /\ fbCount' = [fbCount EXCEPT ![e] = count]
  /\ copies' = [copies EXCEPT ![w][e] = count]
  /\ reflected' = reflected \cup {e}
  /\ UNCHANGED <<llmBacked, stored, mem, forgotten>>

\* One UpdateEvent: the run writes its whole copy of the row.
WriteRow(w, e, count, mark) ==
  /\ fbCount' = [fbCount EXCEPT ![e] = count]
  /\ copies' = [copies EXCEPT ![w][e] = count]
  /\ reflected' = IF mark THEN reflected \cup {e} ELSE reflected \ {e}
  /\ UNCHANGED <<llmBacked, stored, mem, forgotten>>

\* recordReflectFallbackAttempt, one event at a time.
Record(w, e) ==
  LET count == Inc(copies[w][e]) IN
  /\ pc[w] \in {"recordEmpty", "recordInactive"}
  /\ e \in todo[w]
  /\ WriteRow(w, e, count, TRUE)
  /\ todo' = [todo EXCEPT ![w] = @ \ {e}]
  /\ again' = IF count < MaxTries THEN [again EXCEPT ![w] = @ \cup {e}] ELSE again
  /\ UNCHANGED <<pc, queue, batch, fellBack, budget, lost, unanswered>>

\* The loop is over.  With candidates but no active memory and nothing left to
\* retry the counts are cleared; otherwise the batch ends here.
EndRecord(w) ==
  /\ pc[w] \in {"recordEmpty", "recordInactive"}
  /\ todo[w] = {}
  /\ IF pc[w] = "recordInactive" /\ batch[w] \cap again[w] = {}
     THEN /\ Goto(w, "clear")
          /\ todo' = [todo EXCEPT ![w] = batch[w]]
          /\ UNCHANGED batch
     ELSE /\ Goto(w, "batch")
          /\ batch' = [batch EXCEPT ![w] = {}]
          /\ UNCHANGED todo
  /\ UNCHANGED <<store, queue, again, copies, fellBack, budget, lost, unanswered>>

\* clearReflectFallbackAttempts, skipping rows with no count.
Clear(w, e) ==
  /\ pc[w] = "clear"
  /\ e \in todo[w]
  /\ copies[w][e] # 0
  /\ WriteRow(w, e, 0, TRUE)
  /\ todo' = [todo EXCEPT ![w] = @ \ {e}]
  /\ UNCHANGED <<pc, queue, batch, again, fellBack, budget, lost, unanswered>>

EndClear(w) ==
  /\ pc[w] = "clear"
  /\ \A e \in todo[w] : copies[w][e] = 0
  /\ batch' = [batch EXCEPT ![w] = {}]
  /\ todo' = [todo EXCEPT ![w] = {}]
  /\ Goto(w, "batch")
  /\ UNCHANGED <<store, queue, again, copies, fellBack, budget, lost, unanswered>>

\* clearEventsReflected over the events to retry, one row at a time.
Release(w, e) ==
  /\ pc[w] = "release"
  /\ e \in again[w]
  /\ WriteRow(w, e, copies[w][e], FALSE)
  /\ again' = [again EXCEPT ![w] = @ \ {e}]
  /\ UNCHANGED <<pc, queue, batch, todo, fellBack, budget, lost, unanswered>>

Finish(w) ==
  /\ pc[w] = "release"
  /\ again[w] = {}
  /\ Goto(w, "idle")
  /\ copies' = [copies EXCEPT ![w] = [e \in Events |-> 0]]
  /\ fellBack' = [fellBack EXCEPT ![w] = FALSE]
  /\ UNCHANGED <<store, queue, batch, todo, again, budget, lost, unanswered>>

\* A repository error, the ten-minute job deadline or a crash: the run returns
\* at once and nothing gives back what it holds.
Fail(w) ==
  /\ faults < MaxFaults
  /\ pc[w] # "idle"
  /\ faults' = faults + 1
  /\ lost' = lost \cup Held(w)
  /\ Goto(w, "idle")
  /\ queue' = [queue EXCEPT ![w] = {}]
  /\ batch' = [batch EXCEPT ![w] = {}]
  /\ todo' = [todo EXCEPT ![w] = {}]
  /\ again' = [again EXCEPT ![w] = {}]
  /\ copies' = [copies EXCEPT ![w] = [e \in Events |-> 0]]
  /\ fellBack' = [fellBack EXCEPT ![w] = FALSE]
  /\ UNCHANGED <<store, changes, resets, raced, reworded, unanswered>>

Step(w) ==
  \/ Start(w) \/ Claim(w) \/ ClaimNothing(w) \/ Filter(w) \/ NoMoreBatches(w)
  \/ Extract(w) \/ Check(w) \/ EndRecord(w) \/ EndClear(w)
  \/ Finish(w)
  \/ \E e \in Events :
       Process(w, e) \/ Record(w, e) \/ Clear(w, e) \/ Release(w, e)

Next ==
  \/ \E e \in Events : Ingest(e)
  \/ \E t, u \in Texts : Remember(t) \/ Forget(t) \/ Reword(t, u)
  \/ ResetDerived
  \/ \E w \in Workers : Step(w) \/ Fail(w)

Spec == Init /\ [][Next]_vars

\* Jobs are started again and again (cron) and a started run keeps going.
FairSpec == Spec /\ \A w \in Workers : WF_vars(Step(w))
-----------------------------------------------------------------------------
(* Properties. *)

\* Every variable ranges over the values the code can give it.
TypeOK ==
  /\ llmBacked \in BOOLEAN
  /\ stored \subseteq Events /\ reflected \subseteq Events
  /\ lost \subseteq Events /\ unanswered \subseteq Events
  /\ fbCount \in [Events -> 0..MaxTries]
  /\ mem \in [Texts -> Memory] /\ forgotten \in [Texts -> SUBSET Systems]
  /\ pc \in [Workers -> PCs]
  /\ queue \in [Workers -> SUBSET Events]
  /\ batch \in [Workers -> SUBSET Events]
  /\ todo \in [Workers -> SUBSET Events]
  /\ again \in [Workers -> SUBSET Events]
  /\ copies \in [Workers -> [Events -> 0..MaxTries]]
  /\ fellBack \in [Workers -> BOOLEAN]
  /\ faults \in Nat /\ changes \in Nat /\ resets \in Nat
  /\ raced \in BOOLEAN /\ reworded \in BOOLEAN

\* No event is in the hands of two runs, although claims, row writes and
\* releases of many runs interleave and UpdateEvent writes whole rows.
Exclusive ==
  \A v, w \in Workers : v # w => Held(v) \cap Held(w) = {}

\* What a run holds stays marked reflected until the run itself gives it back,
\* so no other run can claim it.
HeldIsReflected == AllHeld \cup lost \subseteq reflected /\ reflected \subseteq stored

\* A dead run's events are in nobody's hands.
LostIsNotHeld == lost \cap AllHeld = {}

\* What a run's own sets contain at each point of its loop.
LocalSets ==
  \A w \in Workers :
    /\ todo[w] \subseteq batch[w]
    /\ queue[w] \cap batch[w] = {} /\ queue[w] \cap again[w] = {}
    /\ pc[w] \in {"idle", "claim", "release"} => queue[w] = {}
    /\ pc[w] \in {"idle", "claim", "filter", "batch", "release"} => batch[w] = {}
    /\ pc[w] = "idle" => again[w] = {}

\* The atomic claim keeps concurrent Reflect runs apart for as long as nobody
\* resets the derived data under a run in progress.
LeaseInv ==
  raced \/ (Exclusive /\ HeldIsReflected /\ LostIsNotHeld /\ LocalSets)

\* A provisional memory still has a pass coming, whichever events it was merged
\* from and whether or not the LLM had verified it before: the event whose
\* fallback candidate left it so waits, or a run holds it and will hand it back,
\* or the run has died, or the LLM has since answered for the event.
RetryPending ==
  raced \/ \A t \in Texts : Provisional(mem[t]) =>
    \E e \in mem[t].cause :
      e \in unanswered => e \in Unclaimed \cup AllHeld \cup lost

\* A fallback pass never downgrades a memory the LLM has verified.  It does: a
\* memory of two events is marked by the candidates of both.
NeverDowngraded ==
  [][raced \/ \A t \in Texts :
       mem[t].by = "llm" => mem'[t].by # "heuristic"]_vars

\* What the job promises: each event waits, is leased to one run, and is then
\* settled for good, handed back, or lost with the run.
Lease == INSTANCE EventLease WITH
  waiting <- Unclaimed,
  leased <- [w \in Workers |-> Held(w)],
  settled <- (reflected \ lost) \ AllHeld,
  lost <- lost
ImplementsLease == Lease!Spec

\* Events set aside for a retry are handed back, whatever other runs do.
RetriedEventsReturn ==
  [](faults = 0) =>
    \A w \in Workers, e \in Events : e \in again[w] ~> e \notin reflected

\* However the LLM fails and whatever runs, merges and events share a memory, the
\* retries run out and every event is settled, if similarity is transitive and
\* no memory stays retracted or was reworded.
Transitive ==
  \A t, u, v \in Texts : Similar(t, u) /\ Similar(u, v) => Similar(t, v)
Untouched == ~reworded /\ \A t \in Texts : forgotten[t] = {}
AllSettle ==
  Transitive /\ <>[]Untouched => <>[](stored \subseteq reflected /\ AllHeld = {})

\* The same without the premises.  It does not hold: while a memory is provisional
\* and its event's candidate is similar to a retracted one, or no longer similar
\* to the memory itself, each pass puts the event aside and none is counted.
RetriesEnd == <>[](stored \subseteq reflected /\ AllHeld = {})
=============================================================================
