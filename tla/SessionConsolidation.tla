------------------------ MODULE SessionConsolidation ------------------------
(***************************************************************************)
(* ConsolidateSessions (service/compress.go) and the part of Reprocess     *)
(* (service/reprocess.go) that tears sessions down and consolidates them   *)
(* again.  A run lists the events after the frontier the last completed    *)
(* job recorded, and for each session among them writes one summary of     *)
(* the session's unreflected events (a burst), marks them, and records how *)
(* far it got.  Runs overlap: every repository statement is its own step.  *)
(*                                                                         *)
(* frontier is the sequence number that the newest completed job carries,  *)
(* 0 if it carries none.  Jobs are ordered by a creation time kept to the  *)
(* second: a job of the same second as the newest may not be the one found.*)
(***************************************************************************)
EXTENDS Integers, Sequences, FiniteSets, FiniteSetsExt, SequencesExt

CONSTANTS
  Events,      \* sequence numbers 1..N, assigned in this order
  Sessions,
  NoSession,   \* the owner of an event without a session
  Owner,       \* the session of each event
  Stops,       \* session_stop events
  Workers,     \* concurrent runs
  Window,      \* how many events one run lists
  Backed,      \* whether the provider is LLM-backed: the cases to consider
  MaxTries,    \* maxHeuristicFallbackRetries
  MaxFaults,   \* bound: failed runs, crashes, memories settled by others
  MaxTies,     \* bound: jobs of the same second as the newest one
  MaxReprocs   \* bound: reprocess calls

ASSUME ConstantsAssumption ==
  /\ IsFiniteSet(Events) /\ Events = 1..Cardinality(Events)
  /\ NoSession \notin Sessions
  /\ Owner \in [Events -> Sessions \cup {NoSession}]
  /\ Stops \subseteq Events
  /\ Window \in Nat \ {0} /\ MaxTries \in Nat \ {0}
  /\ Backed \subseteq BOOLEAN
  /\ MaxFaults \in Nat /\ MaxTies \in Nat /\ MaxReprocs \in Nat

VARIABLES
  llmBacked,  \* the configured provider is LLM-backed
  stored,     \* events in the table
  quiet,      \* sessions whose last event is older than the idle timeout
  reflected,  \* events whose row has reflected_at set
  sums,       \* the live session summaries of each session, oldest first;
              \* doomed: the runs that are going to delete it
  prov,       \* fallback count of the session's provisional memory, if any
  frontier,   \* jobFrontierSequenceID
  gate,       \* the service's idle timeout is in force (not set to 0)
  pc, job,    \* where each run is; it belongs to a RunJob, not a Reprocess
  win,        \* events the run listed
  cands,      \* sessions the run has still to visit
  strict,     \* the run applies the idle timeout
  idle,       \* those of cands past the idle timeout by the run's clock
  cur, burst, \* the session at hand and its unreflected events
  tried,      \* fallback count of the prior summary
  fell,       \* the narrative came from the heuristic fallback
  todo,       \* rows the current loop has still to write
  procMax, skipMin,
  since,      \* some frontier was recorded after the run's job was created
  saved,      \* the timeout the reprocess call will restore
  faults, ties, reprocs,
  torn        \* history: sessions torn down and not summarised since

store == <<llmBacked, stored, quiet, reflected, sums, prov, frontier, gate>>
scan == <<win, cands, strict, idle, procMax, skipMin>>
session == <<cur, burst, tried, fell>>
run == <<job, since, saved>>
budget == <<faults, ties, reprocs>>
vars == <<store, pc, scan, session, todo, run, budget, torn>>

SessionEvents == {e \in Events : Owner[e] # NoSession}
OwnersOf(S) == {Owner[e] : e \in S} \ {NoSession}
Unreflected(s) == {e \in stored \ reflected : Owner[e] = s}
Least(S) == Min(S)
Greatest(S) == IF S = {} THEN 0 ELSE Max(S)

\* shouldRetryHeuristicMemory, and the same test on a summary.
Retryable(n) == 0 < n /\ n < MaxTries

\* Bug: every attempt is counted as the first.
IncFromZero(n) == 1

\* The fallback count of the next attempt; from the limit on, it is all one.
Inc(n) == IF n < MaxTries THEN n + 1 ELSE n

CoveredBy(q) == UNION {sm.evs : sm \in ToSet(q)}

PCs == {"idle", "list", "visit", "gather", "narrate", "write", "replace", "mark",
        "finish", "unmark", "restore"}

\* Where a run goes when the consolidation itself is over.
Leave(w) == IF job[w] THEN "finish" ELSE "restore"

Goto(w, l) == pc' = [pc EXCEPT ![w] = l]

Init ==
  /\ llmBacked \in Backed
  /\ stored = {} /\ quiet = {} /\ reflected = {}
  /\ sums = [s \in Sessions |-> <<>>]
  /\ prov = [s \in Sessions |-> 0]
  /\ frontier = 0 /\ gate = TRUE
  /\ pc = [w \in Workers |-> "idle"]
  /\ job = [w \in Workers |-> FALSE]
  /\ win = [w \in Workers |-> {}]
  /\ cands = [w \in Workers |-> {}]
  /\ strict = [w \in Workers |-> FALSE]
  /\ idle = [w \in Workers |-> {}]
  /\ cur = [w \in Workers |-> NoSession]
  /\ burst = [w \in Workers |-> {}]
  /\ tried = [w \in Workers |-> 0]
  /\ fell = [w \in Workers |-> FALSE]
  /\ todo = [w \in Workers |-> {}]
  /\ procMax = [w \in Workers |-> 0]
  /\ skipMin = [w \in Workers |-> 0]
  /\ since = [w \in Workers |-> FALSE]
  /\ saved = [w \in Workers |-> FALSE]
  /\ faults = 0 /\ ties = 0 /\ reprocs = 0 /\ torn = {}
-----------------------------------------------------------------------------
(* The world outside the runs. *)

\* IngestEvent: the new event makes its session active again, also by the clock
\* of a run that has not looked at it yet.
Ingest(e) ==
  /\ e = Cardinality(stored) + 1
  /\ stored' = stored \cup {e}
  /\ quiet' = quiet \ {Owner[e]}
  /\ idle' = [w \in Workers |-> idle[w] \ {Owner[e]}]
  /\ UNCHANGED <<llmBacked, reflected, sums, prov, frontier, gate, pc, win, cands,
                 strict, procMax, skipMin, session, todo, run, budget, torn>>

\* The idle timeout passes without an event of the session.
GoQuiet(s) ==
  /\ s \in OwnersOf(stored) \ quiet
  /\ quiet' = quiet \cup {s}
  /\ UNCHANGED <<llmBacked, stored, reflected, sums, prov, frontier, gate, pc, scan,
                 session, todo, run, budget, torn>>
\* The provisional memory is forgotten, or another pass verifies it.
Settle(s) ==
  /\ faults < MaxFaults
  /\ prov[s] > 0
  /\ faults' = faults + 1
  /\ prov' = [prov EXCEPT ![s] = 0]
  /\ UNCHANGED <<llmBacked, stored, quiet, reflected, sums, frontier, gate, pc, scan,
                 session, todo, run, ties, reprocs, torn>>
-----------------------------------------------------------------------------
(* One run. *)

\* RunJob inserts its own job first.
Start(w) ==
  /\ pc[w] = "idle"
  /\ Goto(w, "list")
  /\ job' = [job EXCEPT ![w] = TRUE]
  /\ since' = [since EXCEPT ![w] = FALSE]
  /\ UNCHANGED <<store, scan, session, todo, saved, budget, torn>>

\* ListEvents after frontier f, oldest first; without one, the newest events.
Listed(f) ==
  {e \in stored :
     IF f > 0
     THEN e > f /\ Cardinality({d \in stored : f < d /\ d < e}) < Window
     ELSE Cardinality({d \in stored : d > e}) < Window}

\* The idle timeout and the clock are read now.  Nothing is recorded if there
\* is no event.
List(w) ==
  LET evts == Listed(frontier) IN
  /\ pc[w] = "list"
  /\ win' = [win EXCEPT ![w] = evts]
  /\ cands' = [cands EXCEPT ![w] = OwnersOf(evts)]
  /\ strict' = [strict EXCEPT ![w] = gate]
  /\ idle' = [idle EXCEPT ![w] = IF gate THEN quiet \cap OwnersOf(evts) ELSE {}]
  /\ Goto(w, IF evts = {} THEN Leave(w) ELSE "visit")
  /\ UNCHANGED <<store, procMax, skipMin, session, todo, run, budget, torn>>

Lower(n, m) == IF n = 0 \/ m < n THEN m ELSE n

\* Bug: the session must be over and idle.
RipeOnlyWhenOver(w, s) ==
  ~strict[w] \/ (s \in idle[w] /\ Unreflected(s) \cap Stops # {})

\* The session may be summarised: it is over, or idle, or nobody asks.
Ripe(w, s) == ~strict[w] \/ s \in idle[w] \/ Unreflected(s) \cap Stops # {}

\* A candidate session with nothing unreflected, or still active.
PassOver(w, s) ==
  LET evts == Unreflected(s) IN
  /\ pc[w] = "visit" /\ s \in cands[w]
  /\ evts = {} \/ ~Ripe(w, s)
  /\ cands' = [cands EXCEPT ![w] = @ \ {s}]
  /\ idle' = [idle EXCEPT ![w] = @ \ {s}]
  /\ skipMin' = IF evts = {} THEN skipMin
                ELSE [skipMin EXCEPT ![w] = Lower(@, Least(evts))]
  /\ UNCHANGED <<store, pc, win, strict, procMax, session, todo, run, budget, torn>>

\* Bug: the burst is marked before its summary is written.
TakeMarking(w, s) ==
  LET evts == Unreflected(s) IN
  /\ pc[w] = "visit" /\ s \in cands[w]
  /\ evts # {} /\ Ripe(w, s)
  /\ Goto(w, "gather")
  /\ cands' = [cands EXCEPT ![w] = @ \ {s}]
  /\ cur' = [cur EXCEPT ![w] = s]
  /\ burst' = [burst EXCEPT ![w] = evts]
  /\ reflected' = reflected \cup evts
  /\ idle' = [idle EXCEPT ![w] = @ \ {s}]
  /\ UNCHANGED <<llmBacked, stored, quiet, sums, prov, frontier, gate, win, strict,
                 procMax, skipMin, tried, fell, todo, run, budget, torn>>

\* The unreflected events of a session that is over, or idle: a burst.
Take(w, s) ==
  LET evts == Unreflected(s) IN
  /\ pc[w] = "visit" /\ s \in cands[w]
  /\ evts # {} /\ Ripe(w, s)
  /\ Goto(w, "gather")
  /\ cands' = [cands EXCEPT ![w] = @ \ {s}]
  /\ cur' = [cur EXCEPT ![w] = s]
  /\ burst' = [burst EXCEPT ![w] = evts]
  /\ idle' = [idle EXCEPT ![w] = @ \ {s}]
  /\ UNCHANGED <<store, win, strict, procMax, skipMin, tried, fell, todo, run,
                 budget, torn>>

\* The prior summary and the memories linked to the session are read.  If one
\* of them still waits for the LLM, all the session's summaries are to go.
Gather(w) ==
  LET s == cur[w]
      prior == IF sums[s] = <<>> THEN 0 ELSE Last(sums[s]).fb
      doomed == [i \in DOMAIN sums[s] |-> [sums[s][i] EXCEPT !.doomed = @ \cup {w}]]
  IN
  /\ pc[w] = "gather"
  /\ Goto(w, "narrate")
  /\ tried' = [tried EXCEPT ![w] = prior]
  /\ IF Retryable(prior) \/ Retryable(prov[s])
     THEN sums' = [sums EXCEPT ![s] = doomed]
     ELSE UNCHANGED sums
  /\ UNCHANGED <<llmBacked, stored, quiet, reflected, prov, frontier, gate, scan, cur,
                 burst, fell, todo, run, budget, torn>>

\* The narrative, and the memories extracted from it; each call may fall back
\* to the heuristics on its own, and may yield no memory.  A memory the
\* heuristics find is a new one or another attempt at the old one.
Narrate(w) ==
  LET s == cur[w] IN
  /\ pc[w] = "narrate"
  /\ \E f \in {FALSE, llmBacked} : fell' = [fell EXCEPT ![w] = f]
  /\ \/ UNCHANGED prov
     \/ prov' = [prov EXCEPT ![s] = 0]
     \/ llmBacked /\ \E n \in {1, Inc(prov[s])} : prov' = [prov EXCEPT ![s] = n]
  /\ Goto(w, "write")
  /\ UNCHANGED <<llmBacked, stored, quiet, reflected, sums, frontier, gate, scan, cur,
                 burst, tried, todo, run, budget, torn>>

\* InsertSummary.
Write(w) ==
  LET new == [evs |-> burst[w], fb |-> IF fell[w] THEN Inc(tried[w]) ELSE 0,
              doomed |-> {}]
  IN
  /\ pc[w] = "write"
  /\ sums' = [sums EXCEPT ![cur[w]] = Append(@, new)]
  /\ torn' = torn \ {cur[w]}
  /\ Goto(w, "replace")
  /\ UNCHANGED <<llmBacked, stored, quiet, reflected, prov, frontier, gate, scan,
                 session, todo, run, budget>>

\* The run forgets the session it has just handled.
Drop(w) ==
  /\ cur' = [cur EXCEPT ![w] = NoSession]
  /\ burst' = [burst EXCEPT ![w] = {}]
  /\ tried' = [tried EXCEPT ![w] = 0]
  /\ fell' = [fell EXCEPT ![w] = FALSE]

\* Bug: what a retry deletes is listed when it deletes.
DeleteAll(w) ==
  LET s == cur[w] IN
  /\ pc[w] = "replace"
  /\ \E sm \in ToSet(sums[s]) : w \in sm.doomed
  /\ sums' = [sums EXCEPT ![s] = <<>>]
  /\ UNCHANGED <<llmBacked, stored, quiet, reflected, prov, frontier, gate, pc, scan,
                 session, todo, run, budget, torn>>

\* A retry deletes the summaries it set out to replace, one by one.
Delete(w) ==
  LET s == cur[w] IN
  /\ pc[w] = "replace"
  /\ \E i \in DOMAIN sums[s] :
       /\ w \in sums[s][i].doomed
       /\ sums' = [sums EXCEPT ![s] = RemoveAt(@, i)]
  /\ UNCHANGED <<llmBacked, stored, quiet, reflected, prov, frontier, gate, pc, scan,
                 session, todo, run, budget, torn>>

Deleted(w) == \A sm \in ToSet(sums[cur[w]]) : w \notin sm.doomed

\* A memory or the summary just written still waits for the LLM.
MustRetry(w) ==
  \/ Retryable(prov[cur[w]])
  \/ fell[w] /\ tried[w] + 1 < MaxTries

\* The events of a burst to retry are left unmarked, and the frontier will stay
\* below them.
Postpone(w) ==
  /\ pc[w] = "replace" /\ Deleted(w)
  /\ MustRetry(w)
  /\ skipMin' = [skipMin EXCEPT ![w] = Lower(@, Least(burst[w]))]
  /\ Goto(w, "visit")
  /\ Drop(w)
  /\ UNCHANGED <<store, win, cands, strict, idle, procMax, todo, run, budget, torn>>

Complete(w) ==
  /\ pc[w] = "replace" /\ Deleted(w)
  /\ ~MustRetry(w)
  /\ todo' = [todo EXCEPT ![w] = burst[w]]
  /\ Goto(w, "mark")
  /\ UNCHANGED <<store, scan, session, run, budget, torn>>

\* markEventsReflected, one row at a time.
Mark(w, e) ==
  /\ pc[w] = "mark" /\ e \in todo[w]
  /\ reflected' = reflected \cup {e}
  /\ todo' = [todo EXCEPT ![w] = @ \ {e}]
  /\ UNCHANGED <<llmBacked, stored, quiet, sums, prov, frontier, gate, pc, scan,
                 session, run, budget, torn>>

EndMark(w) ==
  /\ pc[w] = "mark" /\ todo[w] = {}
  /\ procMax' = [procMax EXCEPT ![w] = Max({@, Greatest(burst[w])})]
  /\ Goto(w, "visit")
  /\ Drop(w)
  /\ UNCHANGED <<store, win, cands, strict, idle, skipMin, todo, run, budget, torn>>

\* Bug: nothing was skipped, yet the frontier is capped.
FrontierAlwaysCapped(w) ==
  LET top == IF procMax[w] = 0 THEN Greatest(win[w]) ELSE procMax[w]
  IN  Lower(top, skipMin[w] - 1)

\* Bug: the frontier is the first skipped event, not the one below it.
FrontierOffByOne(w) ==
  LET top == IF procMax[w] = 0 THEN Greatest(win[w]) ELSE procMax[w]
  IN  IF skipMin[w] > 0 /\ skipMin[w] < top THEN skipMin[w] ELSE top

\* How far the run got: the last event of the bursts it completed, or of its
\* listing if there was none, but below every session it skipped.
Frontier(w) ==
  LET top == IF procMax[w] = 0 THEN Greatest(win[w]) ELSE procMax[w]
  IN  IF skipMin[w] > 0 /\ skipMin[w] - 1 < top THEN skipMin[w] - 1 ELSE top

\* The newest completed job carries f, unless it is of the same second as the
\* last one.
Newest(f) ==
  \/ frontier' = f /\ UNCHANGED ties
  \/ ties < MaxTies /\ ties' = ties + 1 /\ UNCHANGED frontier

\* An older job carries f: it is found only if it is of the same second as the
\* newest one.
Tied(f) ==
  \/ UNCHANGED <<frontier, ties>>
  \/ ties < MaxTies /\ ties' = ties + 1 /\ frontier' = f

ClearScan(w) ==
  /\ win' = [win EXCEPT ![w] = {}]
  /\ cands' = [cands EXCEPT ![w] = {}]
  /\ strict' = [strict EXCEPT ![w] = FALSE]
  /\ idle' = [idle EXCEPT ![w] = {}]
  /\ procMax' = [procMax EXCEPT ![w] = 0]
  /\ skipMin' = [skipMin EXCEPT ![w] = 0]

\* recordConsolidateFrontier.
Record(w) ==
  /\ pc[w] = "visit" /\ cands[w] = {}
  /\ Newest(Frontier(w))
  /\ since' = [v \in Workers |-> job[v]]
  /\ Goto(w, Leave(w))
  /\ ClearScan(w)
  /\ UNCHANGED <<llmBacked, stored, quiet, reflected, sums, prov, gate, session,
                 todo, job, saved, faults, reprocs, torn>>

\* RunJob marks its own job completed.  That job is as old as the run and
\* carries no frontier.
Finish(w) ==
  /\ pc[w] = "finish"
  /\ IF since[w] THEN Tied(0) ELSE Newest(0)
  /\ Goto(w, "idle")
  /\ job' = [job EXCEPT ![w] = FALSE]
  /\ since' = [since EXCEPT ![w] = FALSE]
  /\ UNCHANGED <<llmBacked, stored, quiet, reflected, sums, prov, gate, scan,
                 session, todo, saved, faults, reprocs, torn>>
-----------------------------------------------------------------------------
(* Reprocess, up to the end of its consolidation. *)

\* It lists all events; if there are sessions among them, the rows of session
\* events that are reflected are to be cleared.
StartReprocess(w) ==
  /\ reprocs < MaxReprocs
  /\ pc[w] = "idle" /\ OwnersOf(stored) # {}
  /\ reprocs' = reprocs + 1
  /\ todo' = [todo EXCEPT ![w] = stored \cap reflected \cap SessionEvents]
  /\ cands' = [cands EXCEPT ![w] = OwnersOf(stored)]
  /\ Goto(w, "unmark")
  /\ UNCHANGED <<store, win, strict, idle, procMax, skipMin, session, run, faults, ties, torn>>

Unmark(w, e) ==
  /\ pc[w] = "unmark" /\ e \in todo[w]
  /\ reflected' = reflected \ {e}
  /\ todo' = [todo EXCEPT ![w] = @ \ {e}]
  /\ UNCHANGED <<llmBacked, stored, quiet, sums, prov, frontier, gate, pc, scan,
                 session, run, budget, torn>>

\* The session's summaries are listed and deleted.
Tear(w, s) ==
  /\ pc[w] = "unmark" /\ todo[w] = {} /\ s \in cands[w]
  /\ cands' = [cands EXCEPT ![w] = @ \ {s}]
  /\ sums' = [sums EXCEPT ![s] = <<>>]
  /\ torn' = torn \cup {s}
  /\ UNCHANGED <<llmBacked, stored, quiet, reflected, prov, frontier, gate, pc, win,
                 strict, idle, procMax, skipMin, session, todo, run, budget>>

\* An error on one of its statements is logged, and it goes on.
Overlook(w) ==
  /\ faults < MaxFaults
  /\ pc[w] = "unmark"
  /\ faults' = faults + 1
  /\ \/ \E e \in todo[w] :
          todo' = [todo EXCEPT ![w] = @ \ {e}] /\ UNCHANGED cands
     \/ todo[w] = {} /\ \E s \in cands[w] :
          cands' = [cands EXCEPT ![w] = @ \ {s}] /\ UNCHANGED todo
  /\ UNCHANGED <<store, pc, win, strict, idle, procMax, skipMin, session, run, ties,
                 reprocs, torn>>

\* With the service's idle timeout switched off, it consolidates.
OpenGate(w) ==
  /\ pc[w] = "unmark" /\ todo[w] = {} /\ cands[w] = {}
  /\ saved' = [saved EXCEPT ![w] = gate]
  /\ gate' = FALSE
  /\ Goto(w, "list")
  /\ UNCHANGED <<llmBacked, stored, quiet, reflected, sums, prov, frontier, scan,
                 session, todo, job, since, budget, torn>>

CloseGate(w) ==
  /\ pc[w] = "restore"
  /\ gate' = saved[w]
  /\ saved' = [saved EXCEPT ![w] = FALSE]
  /\ Goto(w, "idle")
  /\ UNCHANGED <<llmBacked, stored, quiet, reflected, sums, prov, frontier, scan,
                 session, todo, job, since, budget, torn>>
-----------------------------------------------------------------------------
\* The runs of W leave off and forget everything.
Cut(W) ==
  LET without(f) == [w \in Workers |-> IF w \in W THEN {} ELSE f[w]]
      zeroed(f) == [w \in Workers |-> IF w \in W THEN 0 ELSE f[w]]
      falsified(f) == [w \in Workers |-> f[w] /\ w \notin W]
  IN
  /\ win' = without(win) /\ cands' = without(cands) /\ idle' = without(idle)
  /\ burst' = without(burst) /\ todo' = without(todo)
  /\ tried' = zeroed(tried)
  /\ procMax' = zeroed(procMax) /\ skipMin' = zeroed(skipMin)
  /\ strict' = falsified(strict) /\ fell' = falsified(fell)
  /\ job' = falsified(job) /\ since' = falsified(since)
  /\ cur' = [w \in Workers |-> IF w \in W THEN NoSession ELSE cur[w]]
  /\ sums' = [s \in Sessions |->
                [i \in DOMAIN sums[s] |-> [sums[s][i] EXCEPT !.doomed = @ \ W]]]

\* Bug: Reprocess returns on an error without restoring the timeout.
FailUnrestored(w) ==
  /\ faults < MaxFaults
  /\ pc[w] \in {"list", "visit", "gather", "narrate", "write", "replace", "mark"}
  /\ faults' = faults + 1
  /\ Goto(w, "idle")
  /\ Cut({w})
  /\ UNCHANGED <<llmBacked, stored, quiet, reflected, prov, frontier, gate, saved,
                 ties, reprocs, torn>>

\* A repository error, the job's deadline or a cancelled request ends the
\* consolidation where it stands; Reprocess only logs it.
Fail(w) ==
  /\ faults < MaxFaults
  /\ pc[w] \in {"list", "visit", "gather", "narrate", "write", "replace", "mark"}
  /\ faults' = faults + 1
  /\ Goto(w, IF job[w] THEN "idle" ELSE "restore")
  /\ Cut({w})
  /\ UNCHANGED <<llmBacked, stored, quiet, reflected, prov, frontier, gate, saved,
                 ties, reprocs, torn>>

\* The process dies and comes back with its configured timeout.
Crash ==
  /\ faults < MaxFaults
  /\ \E w \in Workers : pc[w] # "idle"
  /\ faults' = faults + 1
  /\ gate' = TRUE
  /\ pc' = [w \in Workers |-> "idle"]
  /\ saved' = [w \in Workers |-> FALSE]
  /\ Cut(Workers)
  /\ UNCHANGED <<llmBacked, stored, quiet, reflected, prov, frontier, ties, reprocs,
                 torn>>

Consolidate(w) ==
  \/ Start(w) \/ List(w) \/ Gather(w) \/ Narrate(w) \/ Write(w)
  \/ Postpone(w) \/ Complete(w) \/ EndMark(w) \/ Record(w) \/ Finish(w)
  \/ Delete(w)
  \/ \E s \in Sessions : PassOver(w, s) \/ Take(w, s)
  \/ \E e \in Events : Mark(w, e)

Rebuild(w) ==
  \/ OpenGate(w) \/ CloseGate(w) \/ Overlook(w)
  \/ \E e \in Events : Unmark(w, e)
  \/ \E s \in Sessions : Tear(w, s)

Next ==
  \/ \E e \in Events : Ingest(e)
  \/ \E s \in Sessions : GoQuiet(s) \/ Settle(s)
  \/ \E w \in Workers :
       Consolidate(w) \/ StartReprocess(w) \/ Rebuild(w) \/ Fail(w)
  \/ Crash

Spec == Init /\ [][Next]_vars

\* Jobs keep being started and run on; a silent session becomes quiet.
FairSpec ==
  /\ Spec
  /\ \A w \in Workers : WF_vars(Consolidate(w) \/ Rebuild(w))
  /\ \A s \in Sessions : WF_vars(GoQuiet(s))
-----------------------------------------------------------------------------
(* Properties. *)

Summary == [evs : SUBSET Events, fb : 0..MaxTries, doomed : SUBSET Workers]

\* Every variable ranges over the values the code can give it.
TypeOK ==
  /\ llmBacked \in BOOLEAN /\ gate \in BOOLEAN
  /\ stored \subseteq Events /\ reflected \subseteq stored
  /\ quiet \subseteq Sessions /\ torn \subseteq Sessions
  /\ sums \in [Sessions -> Seq(Summary)]
  /\ prov \in [Sessions -> 0..MaxTries]
  /\ frontier \in Events \cup {0}
  /\ pc \in [Workers -> PCs]
  /\ \A f \in {job, strict, fell, since, saved} : f \in [Workers -> BOOLEAN]
  /\ \A f \in {win, burst, todo} : f \in [Workers -> SUBSET Events]
  /\ \A f \in {cands, idle} : f \in [Workers -> SUBSET Sessions]
  /\ cur \in [Workers -> Sessions \cup {NoSession}]
  /\ tried \in [Workers -> 0..MaxTries]
  /\ \A f \in {procMax, skipMin} : f \in [Workers -> Events \cup {0}]
  /\ faults \in 0..MaxFaults /\ ties \in 0..MaxTies /\ reprocs \in 0..MaxReprocs

\* A session event that counts as reflected is covered by a live summary, so
\* that no burst is lost, however runs overlap and fail.
Covered ==
  \A s \in Sessions : \A e \in reflected :
    Owner[e] = s => e \in CoveredBy(sums[s])

\* Without LLM retries and without Reprocess this is what the order of the
\* writes achieves.
CoveredWithoutRetry == llmBacked \/ reprocs > 0 \/ Covered

\* Runs do not overlap.
Alone == \A v, w \in Workers : v = w

\* With retries as well, the events a run marks are covered at that moment: the
\* summaries it deletes are never those of its own burst.  (A second run, or a
\* Reprocess, may delete what this one wrote.)
MarkedIsCovered ==
  [][reprocs = 0 /\ Alone =>
       \A e \in reflected' \ reflected : e \in CoveredBy(sums'[Owner[e]])]_vars

\* A frontier that is recorded stays below every event the run has seen and
\* left unreflected, unless a Reprocess clears rows meanwhile.
FrontierKeepsSkipped ==
  [][\A w \in Workers :
       pc[w] = "visit" /\ pc'[w] \in {"finish", "restore"} /\ reprocs = 0 =>
         \A e \in (win[w] \cap SessionEvents) \ reflected :
           frontier' # frontier => e > frontier']_vars

\* The idle timeout is only out of force while a Reprocess is at work, as long
\* as there is one of them.
GateRestored ==
  reprocs <= 1 => gate \/ \E w \in Workers : pc[w] # "idle" /\ ~job[w]

\* Every session event ends up reflected, whatever fails, once the LLM has
\* answered for the provisional memories.
EventuallyConsolidated ==
  <>[](\A s \in Sessions : ~Retryable(prov[s])) =>
    \A e \in SessionEvents : e \in stored ~> e \in reflected

\* Reprocess does not leave a session half torn down: when it is done, every
\* session whose summaries it deleted has a summary again.
NotHalfTorn == \A w \in Workers : pc[w] = "restore" => torn = {}
=============================================================================
