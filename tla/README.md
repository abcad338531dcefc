# agent-memory-manager: a TLA+ model

agent-memory-manager (`amm`) keeps the memory of coding agents. Hooks of an agent's sessions post raw *events*; jobs
started by cron, by the CLI or over HTTP turn events into *memories* and *summaries*; other jobs merge, age, promote and
repair memories; agents recall them. This directory models the parts whose correctness depends on order, overlap and
failure, checks them with TLC on small instances, and proves the most important facts with TLAPS for every size.
`PROJECT.json` lists every component, run, theorem and hazard, and maps each definition to the lines it models.

## 1. The system

All state lives in one SQL database (SQLite or PostgreSQL). The service (`src/internal/service`) is a struct of methods
over a repository interface; almost nothing is kept in memory and there are no locks, so what protects the data is what
single SQL statements guarantee. Three adapters (CLI, MCP, HTTP) call the same methods; the CLI is a process per call,
the HTTP server a goroutine per request, and `examples/scripts/run-workers.sh` starts the jobs one after another from
cron. Nothing keeps two jobs of a kind apart: a slow Reflect is overtaken by the next.

| Component | State it keeps | Operations | What makes it correct |
|---|---|---|---|
| Ingestion, policies | events, policies | IngestEvent, policy CRUD | an ignored event is never stored; a stored one keeps its sequence number |
| Reflect | `reflected_at` and fallback count of an event, extraction metadata of memories | RunJob("reflect") | one run has an event at a time; a retry is neither forgotten nor endless; what a fallback leaves provisional gets another pass of the LLM |
| ConsolidateSessions | session summaries, `reflected_at`, frontier in job records | RunJob("consolidate_sessions") | an event counts as done only when a summary covers it; the frontier never jumps over work |
| Reprocess | the same, and memories | RunJob("reprocess"…) | what it tears down it builds again |
| CompressHistory, BuildTopicSummaries | leaf and topic summaries, frontier in job records | jobs | each event in one leaf, each leaf in one topic |
| Memory calls | memories | Remember, UpdateMemory, ShareMemory, ForgetMemory | what a caller decided stands |
| Memory jobs | memories | MergeDuplicates, decay, lifecycle review, promotion, cross-project transfer, enrichment | no provenance and no user decision is lost; supersession is a forest |
| Contradictions, integrity, link repair | contradiction memories, links | DetectContradictions, CheckIntegrity, FixLinks | each link points at something that exists |
| ResetDerived | everything derived | CLI/HTTP maintenance | remembered memories survive, everything else can be rebuilt |
| Jobs, purging | job records | RunJob, PurgeOld… | a purge never removes what a later job needs |
| Recall, context window, expand, grep | recall history | queries | read-only but for the history of what was shown |
| Entities, claims, episodes, embeddings | derived rows | best-effort side effects of the jobs | can be rebuilt |
| LLM and heuristic providers | none | summarise, extract, triage | external; the callers see an answer or a fallback |
| OpenClaw plugin: capture and recall | calls under way | message and tool hooks, before_prompt_build | what has substance is stored once; what is injected keeps to the limit |
| OpenClaw plugin: curated memory | snapshot in memory, record map and queue on disk | before_agent_start, agent_end | AMM mirrors MEMORY.md and USER.md, and the queue tells where it does not |
| OpenClaw plugin: configuration, transports | none | resolveConfig; HTTP or binary | a call ends, done or not; it is never made twice |
| OpenCode plugin | three maps in memory, processes | message, tool and session hooks | each final text once; idle events do not feed on themselves; processes end |

The parts meet in the database. *Reflect* and *ConsolidateSessions* share `reflected_at`: the first uses it as a lease,
claimed before the work; the second as a mark, set after it. *Reprocess* calls ConsolidateSessions after it has taken the
marks away and switched the service-wide idle timeout off. *ResetDerived* undoes both under running jobs. The memory jobs
read lists of whole rows and write whole rows back, so that any two of them can overwrite each other.

The plugins (`examples/openclaw`, `examples/opencode`) are on the other side: JavaScript in the agent's process, one thread whose
handlers overlap at each `await`, that call AMM over HTTP, through a subprocess they wait for, or through one they do not. They
decide what AMM gets to see, and they hear of a failure late or not at all.

**What is hard.** A run holds its claim in its own memory while other runs, user calls and resets write the same rows;
whole rows are written back from copies read long before; a failure in the middle of a sequence of single statements
leaves what was written; the frontier of a job lives in the newest job record, by a clock that is kept to the second;
the LLM may fall back at each call, and how often it did is kept in three places. The plugins save files they have read before
an `await`, give calls up that AMM may serve nevertheless, and keep in memory what they need to know after a restart. Section 6 says which of the hazards
listed in `PROJECT.json` are covered.

## 2. Modules

| Module | Models | Relation |
|---|---|---|
| `EventLease` | what Reflect promises about events: waiting, leased to one run, settled, handed back, lost | abstract specification |
| `Reflect` | `service/reflect.go`, `extraction_retry.go`, the candidate processing, ClaimUnreflectedEvents, UpdateEvent, and the user calls and resets around it | implements `EventLease` |
| `ReflectProofs` | the invariants of `Reflect` and their proofs: types, leases, retries | extends `Reflect` |
| `ReflectRefinement` | the proof that `Reflect` implements `EventLease` | extends `ReflectProofs` |
| `SessionConsolidation` | ConsolidateSessions and its burst processing, the frontier records, RunJob's own record, the session part of Reprocess | |
| `SessionConsolidationProofs` | the invariants of `SessionConsolidation` and their proofs: types, coverage, the idle gate, marking, the frontier | extends `SessionConsolidation` |
| `MemoryCuration` | Remember, UpdateMemory, ShareMemory, ForgetMemory, duplicate candidates, MergeDuplicates, decay and lifecycle review on a group of duplicates | |
| `CurationProofs`, `StandingProofs` | inductive invariants and their proofs: types, the climb of supersession, how forgotten memories return; that one memory stands | extend `MemoryCuration`, and the second the first |
| `OpenClawConfig` | how the OpenClaw plugin resolves its settings, and what follows: the way of a call, what may become of it, where curated entries are filed | used by the next two |
| `OpenClawHooks` | the capture and recall hooks, from the payload to the call and its fate | extends `OpenClawConfig` |
| `OpenClawHooksProofs` | the invariants of `OpenClawHooks` and their proofs: types, no event twice, out of order or missing, the limit of what is injected | extends `OpenClawHooks` |
| `CuratedSync` | the mirroring of MEMORY.md and USER.md | extends `OpenClawConfig` |
| `CuratedSyncProofs` | the invariants of `CuratedSync` and their proofs: types, the map, the queue, the entries, the mirror | extends `CuratedSync` |
| `OpenCodePlugin` | the hooks of the OpenCode plugin and the processes they start | |
| `OpenCodeMessages` | how that plugin reads an event about a message | gives `OpenCodePlugin` its announcements |
| `OpenCodePluginProofs` | the invariants of `OpenCodePlugin` and their proofs: types and what the plugin's maps are for | extends `OpenCodePlugin` |
| `MCReflect`, `MCSessionConsolidation`, `MCMemoryCuration`, `MCOpenClawHooks`, `MCCuratedSync`, `MCOpenCode` | instances for TLC | |

### Reflect

One action is one repository statement or one provider call with the local work that follows it, so other runs and
callers interleave wherever the code gives up control.

| State | Code |
|---|---|
| `stored`, `reflected`, `fbCount` | the event rows, `reflected_at`, `reflect_fallback_count` in the metadata |
| `mem`, `forgotten` | for each wording: the active memory with its method, fallback count and source events; the source systems of the retracted ones |
| `pc`, `queue`, `batch`, `todo`, `again`, `copies`, `fellBack` | the local variables of a run: where it is, the claimed events still to batch, the batch, the rows a loop has still to write, `retryEvents`, the counts in its own row copies, the reported method |

`Claim` is the one statement that makes concurrent runs possible: it selects and marks in a single UPDATE. `Filter` is
triage or the metadata filter, `Extract` the provider call for one batch, `Process` the handling of one candidate
(reject, insert or merge), `Check` the decision made once per batch, `Record` and `Clear` the loops that write the fallback
counts row by row, `Release` the loop that hands the events to retry back, which the code does only after a claim came back
empty. `Fail` is any error, the deadline of the job or the death of the process: the run returns and what it held stays
marked. `Ingest`, `Remember`, `Forget`, `Reword` and `ResetDerived` are the other callers.

Memories are kept by wording (`Texts`), not by event: a candidate meets whatever it resembles (`Similar`, by the pairs in `Alike`, which
need not be transitive), whichever event that came from. What resembles a retracted memory is rejected before duplicates are looked for
(`Retracted`, `MayReject`); otherwise the candidate is inserted, or merged into a keeper that supersedes its other duplicates
(`Duplicates`, `Absorb`), and the keeper is marked with the method of the candidate (`Kept`, `Marked`), even if the LLM had verified it.
Which duplicate is the keeper (confidence decides) and whether its wording is replaced are left open, and so is what an LLM finds; the
heuristics are deterministic, so what they find is fixed by the event (`HeurFinds`, `HeurKeeps`, `HeurText`). Simplified are: at most one
candidate per event of a batch, at most one active memory of a wording (two identical ones are the business of MergeDuplicates), no
search by embedding, and the statements of one candidate taken together; `MemoryCuration` takes those apart.

### SessionConsolidation

`List` reads the frontier and lists the events after it, `PassOver` and `Take` decide on a session by its stop event and the
idle timeout, `Gather` reads prior summaries and provisional memories and fixes which summaries a retry will delete,
`Narrate` is the narrative and the extraction (each may fall back), `Write` inserts the summary, `Delete` removes the prior
ones one by one, `Postpone` or `Complete` follow the retry decision, `Mark` writes the rows, `Record` inserts the job record
with the frontier, `Finish` completes the record RunJob made at the start. The newest completed record decides the frontier
of the next run, by `created_at`, which is kept to the second; RunJob's own record carries no frontier, so a run that listed
nothing sets the frontier back to 0 (`Finish`). `since` remembers
whether a younger record with a frontier exists; then the older one is found only if both are of one second (`Tied`).

Reprocess is `StartReprocess`, `Unmark` (row by row), `Tear` (the listing and the deletions of one session, taken together),
`OpenGate` (the idle timeout is saved and set to 0), the consolidation, and `CloseGate`; errors in its loops are logged and
skipped (`Overlook`). `prov` is one count per session for the provisional memories linked to it. In the retry branch the code
also clears `reflected_at` of the burst, but in copies that were read unreflected, so `Postpone` leaves `reflected` alone.
`torn` is a history variable.

### MemoryCuration

The memories of the model are duplicates of each other: same type, scope and project, similar enough to be merged. A row has
its status, `superseded_by` (`by`), `supersedes` (`of`), its confidence (`conf`) and, for the `Tracked` memories, whose source events it
names (`src`).

| State | Code |
|---|---|
| `mem` | the rows of the table |
| `pc`, `copy`, `todo`, `cur` | a process: where it is, the rows it has read and may have changed, what its loop has still to visit, the memory at hand |
| `found`, `gone` | MergeDuplicates: the rows its search returned for the memory at hand, `mergedIDs` |
| `down`, `lifted`, `unborn` | history: whether a lesser memory was ever preferred, whether one was raised past a better one, memories whose Remember died before the insertion |

A process does any of the work its entry in `Does` allows. MergeDuplicates is `TakeList`, and for each memory `MergeSearch`,
then `MergePair` (one transaction, from the list's copy of one row and the search's copy of the other), `MergePairFails` (the
transaction fails, the list's copy is changed all the same) or `MergeNothing`. Decay and review are `TakeList` followed by
writes of the copies (`Decay`; `Review`, `Rewrite`). A duplicate candidate is `Search`, `Keep` and one `Sibling` per other
duplicate. Remember and the calls about one memory read (`Remember`, `Replace`, `Forget`, `Share`, `Edit`) and write later
(`Insert`, `SupersedeOld`, `Write`). `Fail` ends any of them between two statements.

Memories are numbered by age. The code prefers the one with more confidence, or else the younger one. A memory is created with the
confidence `Born` gives it; absorbing a candidate or what is remembered may raise that of the keeper to any higher level (`Absorbing`), and
with it change who is preferred while other processes hold older copies. `Twins` are memories of the same second, since creation times
are kept to the second: a merge then keeps the one it iterates, a candidate any. `Over` is the order by the confidence at creation.
What makes two memories similar is left out, and so are the embedding path of the search, contradictions,
promotion, cross-project transfer, ResetDerived and status changes by UpdateMemory; several batches of a review are one.

### CuratedSync

| State | Code |
|---|---|
| `file` | the entries of MEMORY.md and USER.md, as `readCuratedEntries` finds them |
| `snap` | `snapshot`, one in each process |
| `map`, `queue` | `curated-memory-id-map.json` and `curated-memory-sync-queue.jsonl` |
| `pc`, `target`, `now`, `todo`, `held`, `req`, `got` | a handler of `agent_end`: where it is, which file, its `currentEntries`, the changes left of its loops, the `state` it has loaded, the call it waits for, the id in the answer |
| `mems`, `late` | AMM's memories, and calls the plugin has given up and AMM may still serve |
| `owed`, `refused`, `lost`, `broken`, `mixed`, `astray`, `crossed`, `spilled`, `likened` | history, for the premises of the properties |

A handler is broken where the code awaits: `SyncAdd`, `SyncRemove` and `SyncReplace` load the map and send a call (or have nothing to
do), `Serve` is AMM and the way there and back, `Finish` and `FinishFailed` save the map or a line of the queue. `AgentEnd` and `NextFile`
compare a file with its snapshot. `Edit` is the host or the user, who write the files at any time. `Throw` is a write that fails, `Crash`
the end of a process with all its handlers, `ServeLate` a call that AMM gets to after it was given up. The order of entries decides
only which of them are paired; it is left open. AMM is what `Remember`, `UpdateMemory` and `ForgetMemory` do.
Remember answers an entry with a memory it resembles (`Resembled`: equal, or a pair in `Alike`, filed under the same heading), which keeps
its old wording; `likened` tells that this has happened. What AMM's own jobs do to the memories is left out.

### OpenClawHooks, OpenClawConfig

`CaptureEvent` goes from the hook to its call: `Classify` looks for the content in the places the code tries, `IngestEvent` makes the
call. With the binary the whole process stands still until it has ended, so that the call and its outcome are one step; over HTTP the
call waits (`call`), AMM may serve it (`Serve`), it may be refused or lost (`Refuse`), or given up (`Abort`) and served later. `Next` lets
hooks go on meanwhile. AMM refuses a content of nothing but blanks (`Refused`) and answers an event that a policy ignores without storing
it (`Keeps`, `Verdict`); `ignored` are the kinds the policies ignore, chosen at the start and fixed from then on;
a fresh installation ignores `tool_*`. `BeforePromptBuild`, `Answer` and `NoAnswer` are recall: its limit is passed on over HTTP only, so with the binary
`RenderRecall` has to keep to it. Settings are values of a small language: unset, null, a text, an address in its parts, a number
in tenths, a boolean, an object; `ResolveConfig` follows `config.ts` setting by setting.

### OpenCodePlugin, OpenCodeMessages

`emitted`, `sinceIdle` and `active` are the three maps of `amm.js`. Every hook is one action, since none awaits anything; `IngestEvent`
starts a process (`child`), which stores its event or fails, is sent SIGTERM and SIGKILL by timers (`Terminate`, `Kill`), and is left alone
by a `Restart`, which empties the maps. `sinceIdle` counts ticks up to `IdleGap`, the minute of the code. `OpenCodeMessages` reads
payloads of all shapes (`Read`); `OpenCodePlugin` takes what was read as its constant `Announcements` and stays free of recursion.
A text is the sequence of its pieces, so that its length is that of the sequence.

## 3. What the runs check

| Run | Instance | Properties |
|---|---|---|
| `reflect` | two runs, two events with similar candidates, one failure, one user change | `TypeOK`, `LeaseInv`, `RetryPending`, `ImplementsLease`, `RetriedEventsReturn`, `AllSettle` |
| `reflect_reset` | the same with candidates that are not similar, batches of one and a reset at any moment, no failure | `LeaseInv`, `RetryPending` |
| `consolidate` | one run, two interleaved sessions, no LLM, one fault, one tie, one Reprocess | `TypeOK`, `FrontierKeepsSkipped`, `EventuallyConsolidated` |
| `consolidate_retry` | one run with LLM, a session that resumes, one fault, one tie | `MarkedIsCovered`, `EventuallyConsolidated` |
| `consolidate_overlap` | two overlapping runs, one may be a Reprocess, one fault | `CoveredWithoutRetry`, `GateRestored` |
| `curation_faults` | two duplicates of one second, the older with more confidence, one process that merges over and over, one that does everything, one fault, two callers, one rewrite | `TypeOK`, `Climbs`, `SomeoneStands`, `RevivedFromCopy`, `EventuallyOne` |
| `curated` | two agents in two processes, two entries that resemble each other, two rewrites of a file, one fault | `TypeOK`, `MapIsTrue`, `QueueExplains`, `NoEntryDropped`, `MirrorIsExact`, `HandlersEnd` |
| `opencode` | one session, messages in eight shapes, two announcements, a restart | `TypeOK`, `NoRepeat`, `FinalTextsStored`, `NoSelfFeeding`, `WorkIsKnown`, `ProcessesEnd` |
| `openclaw_hooks` | four configurations, with and without a policy that ignores tools, three events out of ten shapes, a prompt, two faults | `TypeOK`, `StoredOnce`, `StoredInOrder`, `NothingMissing`, `ContextBounded` |
| `forgotten_returns` | refutes `StaysForgotten` | a memory forgotten while a job has it in its list becomes active again |
| `burst_lost` | refutes `Covered` | a retry deletes the summaries of settled bursts |
| `backlog_starves` | refutes `EventuallyConsolidated` | a first listing that is too short |

**Reflect.** `LeaseInv`: no event is in the hands of two runs and what a run holds stays marked until it gives it back. It holds
although every row write is a whole-row write from an old copy, because only the holder writes the row; the exception is a
reset during a run (`raced`), after which runs do share events. `RetryPending` ties the metadata of memories to the state of
rows: a provisional memory, whichever events it was merged from and whether or not the LLM had verified it before, has a pass to come,
or its run has died, or the LLM has answered for its event since. `RetriedEventsReturn` and `AllSettle` are liveness: retries are handed
back when no run fails, and however the LLM behaves, and runs and memories of several events mix, the retries run out. `AllSettle` has
premises: no memory stays retracted or was reworded (`Untouched`), and similarity is transitive. Without them a pass may find its
candidate rejected, or merged elsewhere, while the provisional memory keeps its count, so that the event is retried until the LLM answers
(`MCRetriesEndless.cfg` below). That a fallback never replaces what the LLM has verified is false (`MCDowngraded.cfg`).

**SessionConsolidation.** `CoveredWithoutRetry`: a reflected session event is covered by a live summary, through overlap,
failure and crash. With LLM retries it is false (`burst_lost`), and what remains is `MarkedIsCovered`: the events a run marks are
covered at that moment. It is stated for one run, since a second one may delete what the first wrote. `FrontierKeepsSkipped`
relates the frontier that is recorded to what the run listed and left alone. `EventuallyConsolidated` is the promise of
the job; its premise is that the provisional memories of a session are settled some day, because
`shouldRetrySourceEvents` retries a session for as long as one of them is open. `GateRestored` is stated for at most one
Reprocess: two concurrent ones restore each other's zero.

**MemoryCuration.** All processes overwrite each other's rows, so little can be promised of one row. `Climbs` relates the pointers of
rows written by different processes from copies of different age: whatever is superseded points to a preferred memory, and so
supersession has no circle. `SomeoneStands` says that the group never disappears by superseding itself. Both are stated for
histories in which no lesser memory was preferred (`down`): a caller may replace a memory by a lesser one, nothing checks the
answer of the LLM in a review, and of twins the code may prefer either; and in which no memory was raised past a better one (`lifted`).
In both cases they really fail: a merge and a candidate that overlap supersede two twins by each other, or two memories whose order the
raise has turned round (`MCLifted.cfg`), and both are gone. What the properties say is that nothing else does it: no failure, stale copy, repeated
merge or overlap of processes. `RevivedFromCopy` says how a forgotten memory can come back at all.
`EventuallyOne` is the promise of MergeDuplicates; its premise is about twins, of which one that a merge has just dropped may be
written again by a caller, round after round.

**CuratedSync.** `MapIsTrue` is exact: as long as no answer goes missing, no handler is cut short and no two requests overlap, every
record names an active memory with the wording of its entry and every active memory has one record, whatever calls fail and however
the files change meanwhile. `QueueExplains` is what is left when answers do go missing and late calls are served: wherever map and AMM
have parted, a line of the queue names the memory or the entry. `NoEntryDropped` and `MirrorIsExact` relate the files to both: an entry
that a comparison found added has a record or a line; and when all goes well AMM holds these entries, and no others unless a turn removed
two entries or more and added some (`crossed`). The premises are where the code does lose track: an entry that AMM takes for a similar one
(`likened`), so that two records share a memory or one has another wording, with no line in the queue; two handlers that overlap
(`mixed`), a process that dies between the call and the write (`broken`), a full queue (`spilled`), and a file that changes while not one
agent alone is on (`astray`): with two agents in different processes around the change, the second compares the file with a snapshot older
than the first one's turn, and what it finds added and removed is not what has happened since. `MapIsTrue` and `QueueExplains` do without
the last premise, `NoEntryDropped` without the first. `HandlersEnd` is liveness.

**OpenClawHooks.** `StoredOnce` holds because nothing is tried again, although calls that were given up are served; `StoredInOrder` because a
subprocess blocks the event loop, and is false over HTTP. `NothingMissing` compares what AMM has stored with all fields that may
hold the substance of an event, whichever shape it comes in, call by call: with a fault or a refusal for one event the others are still
to be stored. Three things the code does are named as exceptions: an event of an ignored kind is answered and not stored
(`service.go:273`), a field of blanks hides a later good one and is refused (`capture.ts:24`, `validation.go:129`), and an object in a field of
a message counts as nothing. `ContextBounded` ties what is injected to the configured limit, also where
AMM was never told of it.

**OpenCodePlugin.** `NoRepeat` and `FinalTextsStored` pull in opposite directions: one text is not handed over twice, and the last text
of each message is handed over, although messages without an id share a key and roles may share an id. The second presupposes that no
process fails: a text counts as known as soon as its process is started. `NoSelfFeeding` is what the code's comment asks for
(`amm.js:342`), and it survives restarts. `WorkIsKnown` is its counterpart: however many idle events are dropped because they come within
the minute, a message or tool call that none has been handed over for stays known, so that the next one in time reports it. Whether there
is a next one is the host's doing, and a restart forgets the work of the life before. `ProcessesEnd` is liveness; a process that runs
during a restart is excepted, because its timers are gone.

**Findings** (details and quotations in `PROJECT.json`):

1. `Covered`: a retry of a later burst deletes every summary of the session (`compress.go:462`, `641`) and rewrites only its own
   burst. The earlier bursts stay reflected without a summary.
2. `EventuallyConsolidated` with a window shorter than the backlog: without a frontier the *newest* events are listed, and the
   frontier recorded then lies above everything older.
3. `StaysForgotten`: a merge, decay, a review or a call writes a memory back from a copy it took before the memory was forgotten.

Six more configurations are kept beside the runs. Each refutes one property when TLC is called with it:

* `MCHalfTorn.cfg`, `NotHalfTorn`: Reprocess tears all sessions down but consolidates from the recorded frontier, so it does not rebuild
  those below, although `reprocess.go:138` says it "doesn't leave sessions in a half-torn-down state".
* `MCSourcesLost.cfg`, `SourcesKept`: MergeDuplicates updates a keeper it has found by searching, and later writes the same memory back
  from its list; the source events it had merged are gone. The cause is that of `StaysForgotten`, whole rows written from old copies.
* `MCCuratedLeftover.cfg`, `RemovalsMirrored`: a turn that removes two entries and adds one pairs a removal with the addition as a
  replacement. The replacement finds two records whose entries are gone, so it adds; the removal that is left forgets its own memory,
  and the other one stays active, although `docs/openclaw-integration.md:83` says that removes are mirrored. The "full reconciliation
  at session end" of `curated-sync.ts:6`, which would notice, is not in the code.

* `MCDowngraded.cfg`, `NeverDowngraded`: the fallback candidate of one event is merged into a memory the LLM has verified for another event
  and marks it heuristic and provisional again (`candidates.go:346`). No document promises otherwise.
* `MCRetriesEndless.cfg`, `RetriesEnd`: `AllSettle` without its premises. A memory is provisional, and a similar one that the user had added
  is retracted: from then on every fallback candidate is rejected before it is counted, and the event goes back each time, although
  `CHANGELOG.md:68` speaks of up to 3 attempts.
* `MCLifted.cfg`, `StandsThoughLifted`: `SomeoneStands` without `lifted`. A merge has read the older memory before Remember
  raised its confidence (`service.go:412`). A candidate now keeps the older one and has still to supersede the younger; the merge, by its copy,
  prefers the younger and supersedes the older; then the candidate supersedes the younger. Both are gone.

`MCCuration.cfg` checks the curation properties on three memories that are no twins, without faults; it passes. The proofs of section 4
say the same for any number of memories of all of them but `EventuallyOne`.

Two disagreements between code and documents are visible in the models but are no properties of theirs. `syncCuratedMemory` is declared a
boolean in `openclaw.plugin.json:37`, and `RELEASE_NOTES_1.4.0.md:85` sets it to `true`, but `config.ts:88` accepts texts only, so a boolean counts as
unset (`AsString`, `ResolveConfig`). `docs/opencode-integration.md:75` describes maintenance jobs with a file lock in the OpenCode plugin;
`amm.js:361` leaves them to cron.

### Bounds

| Bound | Value | Why it is enough |
|---|---|---|
| events | 2 or 3 | two runs must be able to hold different events, and a batch to hold two with different fates; the third event of `consolidate` lets a session be split around another, that of `consolidate_retry` gives it a second burst |
| runs | 1 or 2 | every conflict in this code is between two runs; what concerns two is not a matter of three |
| `MaxTries` | 2 or 3 (3 in the code) | counts saturate at the limit and are only compared with it; 2 distinguishes first, last and exhausted |
| `ClaimLimit`, `BatchLimit`, `Window` | 1 to 3 | a claim with one or two batches, a listing that is complete or too short |
| memories | 2 or 3 | two can supersede each other, a third can be kept by one process while another drops it (`MCCuration.cfg`); `MCSourcesLost.cfg` needs three |
| `Twins`, `Tracked` | none, both memories, or one | twins only where the run says so; source events matter to `MCSourcesLost.cfg` alone |
| `Levels`, `Born` | 1 to 3 | the older memory better, the younger better, or both alike, and room for a raise that does and one that does not turn the order round |
| `Texts`, `Alike` | two wordings | the candidates of the two events similar or not; a pair is all that a merge across events, a retraction or a rewording needs |
| `MaxCalls`, `MaxRewrites` | 0 to 2 | a decision of a caller and one about the memory it replaced; writes of stale copies by decay or review |
| `MaxFaults` | 0 or 1 | failed runs, crashes and memories settled by others; a second failure starts from a state a first one leaves |
| `MaxChanges`, `MaxResets`, `MaxReprocs` | 0 or 1 | user changes, resets, reprocess calls |
| `MaxTurns`, `MaxEdits`, `Entries` | 3, 2, 2 | an agent's turn after another's, and two overlapping; a file that changes before, during and after a comparison; a replacement, and an entry both files hold; `MCCuratedLeftover.cfg` has three entries and one agent |
| `QueueLimit` | 2 (500 in the code) | more than one line before it is full; it overflows only in runs with more faults, which `spilled` excludes |
| `MaxAnnounced`, `IdleGap`, `MaxRestarts` | 2, 2 (60 s), 1 | two texts under one key, or a text and a tool; an idle event before, within and after the gap; that a text comes back after another one needs three and is left to the proof |
| `MaxEvents`, `MaxPrompts` | 3, 1 | one call overtaken by two others |
| `MaxTies` | 0 or 1 | jobs that carry the second of the newest one; without a bound the frontier could stand still for ever |

`reflect_reset` uses symmetry of the runs; it checks safety only. The deadlock check is off for the plugins, where a bounded host has
nothing more to say, and on in all other runs.

### Fairness

`Reflect`: weak fairness of each run's `Step`. Jobs are started again by cron (`run-workers.sh`), a run that has started either
goes on or fails, and a Step is always enabled (an idle run may start), so nothing more than "the job keeps being run" is
assumed. There is no fairness on which answer the LLM gives, nor on user calls or failures. `SessionConsolidation`: the same for
each run, and weak fairness of `GoQuiet`, the passing of time. That `MaxFaults` bounds the failures means that liveness is
claimed for the time after the last one. `MemoryCuration`: weak fairness of `Continue(w)`, what a process has begun and, for a process
that merges, the beginning of the next merge, which cron starts again and again. Nobody has to call anything.

`CuratedSync`: weak fairness of each handler's `Work`. The event loop runs what is ready, and every call ends, with an answer or by its
timer (`transport-http.ts:31`, `144`, `169`; `spawnSync` has a timeout). Nothing is assumed of edits, agents and faults. `OpenCodePlugin`: weak fairness
of the timers of each process that belongs to the present life of the host; nothing is assumed of the host. `OpenClawHooks` states no fairness and no liveness.

## 4. What is proved

Every invariant and every action property that a passing run checks is a theorem, for every value of the constants that satisfies the
module's `ConstantsAssumption`; so is the refinement. What each theorem rests on is an inductive invariant, which TLC checked on the
module's runs while it was being found.

`ReflectProofs` and `ReflectRefinement` hold for every set of events and runs and all values of the bounds (the sets are what they are
meant to be, the limits are positive); the sets may be infinite.

* `TypeCorrect`: `Spec => []TypeOK`. One step per action; the counters are the only part that needs arithmetic, which lemmas about
  `Min2` and `Inc` provide.
* `LeaseSafe`: `Spec => []LeaseInv`. Exclusiveness alone is not inductive. A claim takes unmarked events, so it needs that
  everything held is marked (`HeldIsReflected`); a row write keeps the mark only of events the writer holds, so the loops'
  sets must be parts of the batch (`LocalSets`); and a row that is released must not belong to a dead run (`LostIsNotHeld`). The
  conjunction is `LeaseInv` itself, guarded by `raced`, which a reset during a run sets for good. Actions that only move events
  within a run share one lemma about steps that leave the held sets as they are.
* `RetriesPending`: `Spec => []RetryPending`, from the invariant `PassInv`, on top of the leases. A batch whose counts are cleared, or that is dropped, must contain nothing that is still owed a retry, so a run has to know
  at each point of its loop how its batch was answered and what that says of the memories (`BatchKnown`). A memory may be
  merged from many events, so the one that counts is the event whose fallback candidate left it provisional (`cause`): each provisional
  memory has one (`Grounded`, `Founded`), and it is waiting, held or lost as long as the LLM has not answered for it (`Pending`, `Owed`).
* `LeaseImplemented`: `Spec /\ MaxResets = 0 => ImplementsLease`. Initial states map to initial states; each action maps to one step of
  `EventLease` or to a stutter, by the same invariant. Without the premise it is false: a reset makes settled events wait again.

`SessionConsolidationProofs` holds for any sessions, runs and bounds. The events are numbered `1..n`, as the table's sequence numbers
are; they have to be finitely many only so that the greatest of a listing exists. One invariant, `Inv`, has a part for each theorem:

* `TypeCorrect`: `Spec => []TypeOK`. What a run lists, gathers or marks has been stored (`Types`), and its burst belongs to the session at hand
  (`Local`).
* `GateSafe`: `Spec => []GateRestored`. A Reprocess restores what it saved, so the invariant says that it saved the right thing: with one
  Reprocess at most, the gate was on when it looked (`Restoring`).
* `CoverageSafe`: `Spec => []CoveredWithoutRetry`. Without an LLM no summary has fallbacks, none is doomed and nothing is provisional
  (`PlainStore`), so that no run ever deletes one; and what a run is about to mark is in the summary it has written (`PlainRuns`).
* `MarkingSafe`: `Spec => MarkedIsCovered`. With retries summaries do get deleted, and the invariant has to say which: not the one a run has
  just written (`OwnKept`). It holds for a run that is alone (`Alone`, no two runs in `Workers`), as `run-workers.sh` means it to be: a second
  run may have listed that summary and set out to delete it.
* `FrontierSafe`: `Spec => FrontierKeepsSkipped`. Each session event a run has listed is reflected, is still a candidate, is in the burst, or is
  not below the smallest one skipped (`Skips`).

`CurationProofs` and `StandingProofs` hold for any memories, processes and division of work:

* `CurationTypes`: `Spec => []TypeOK`, together with `AtHand`: a process in the middle of something has a memory at hand.
* `SupersessionClimbs`: `Spec => []Climbs`. What is written comes from copies, so the invariant (`ClimbInv`) demands of all copies what
  `Climbs` demands of the rows, and that the keeper chosen for a candidate's duplicates is better than those it is going to
  supersede (`KeeperIsBest`). Confidence changes, so the order is that of the confidence at
  creation (`Over`): rows and copies may have more by now, but none as much as a better memory was created with (`Steady`), and what
  a loop is going to write has been read (`Read`). Each part may be given up for good by `down` or `lifted` (`Turned`).
* `OneStands`: `Spec => []SomeoneStands`. If all memories stored were superseded, the greatest of them would point higher, which
  climbing forbids if what it points to is stored. That needs the invariant `Pointers`: what a row or a copy names as its
  successor is stored, about to be inserted, or belongs to a Remember that has died. That there is a greatest is where the
  finiteness of `Memories` comes in, by way of the well-foundedness of the naturals.
* `RevivedByStaleCopy`: `Spec => RevivedFromCopy`. Only decay writes a status it has not read, and it writes "active" only where its copy is
  active, which the invariant `Decaying` says of all it has still to visit. A merge takes the status of the row it keeps, all others write
  their copies or supersede.

`CuratedSyncProofs` holds for any entries, agents, processes and bounds. Nothing is assumed of how entries
resemble each other or how the files are filed: where AMM has answered an entry with a memory of another wording or file, `likened` says so.

* `TypeCorrect`: `Spec => []TypeOK`. It needs `Posed`: a handler that waits for an answer still has the change and the record it asked about.
* `MapTrue` and `PartingsQueued`: `Spec => []MapIsTrue` and `Spec => []QueueExplains`, both from `Explained`. It says of map and
  memories what `MapIsTrue` says, except for the memories and entries that the queue, or a failure about to be queued, names; while no
  answer has gone missing there are none. A handler writes the map it loaded before its request: that nothing is lost by it takes
  `Single`, which says that without `mixed` only one handler waits and what it holds is the map on disk. Calls that may
  still be served late must be about what the queue names.
* `NoneDropped`: `Spec => []NoEntryDropped`. An entry found added has a record, a line, or an add still to be made (`Tracked`). Records go only for
  entries that are no longer in the file, so the work of a handler must still match the file when it is done (`TodoIsRight`,
  `Aimed`), and what is owed must be in the file, or in the old snapshot of the one agent that will still compare it (`OwedIsSeen`, `OneBehind`).
  This proof found the counterexample that `astray` now excludes (section 3): TLC had passed with two entries.
* `MirrorExact`: `Spec => []MirrorIsExact`. All of the above, and that every record is of an entry that is owed or on its way out
  (`RecordsOwed`), no two are of one entry (`RecordsDiffer`), what is added has none yet (`AddsAreNew`), and a replacement finds at most the one
  record it is meant for (`ReplaceIsFirst`).

`OpenCodePluginProofs` holds for any sessions, announcements and bounds, and `OpenClawHooksProofs` for any events, configurations and bounds.

* `TypeCorrect` in both. In the second it is about `clampRecallLimit`: whatever is configured, the limit is a whole number of at least 1.
* `IdleFollowsWork`: `Spec => []NoSelfFeeding`. The map must remember right: where a session is active, work has followed each of its idle
  events (`ActiveMeansWork`). A restart makes all sessions inactive, which keeps that for free.
* `WorkNotForgotten`: `Spec => []WorkIsKnown`. An idle event makes a session inactive exactly when it is handed over; events of earlier lives
  do not count (`LivesPast`).
* `TextsNotRepeated`: `Spec => []NoRepeat`. For each text handed over in this life, its key is remembered, and what is remembered is that
  text unless another one followed under the key (`EmittedIsLast`); events of earlier lives do not count (`LivesPast`).
* `FinalTextsHandedOver`: `Spec => []FinalTextsStored`. A text that is left out as known must have been handed over, in the same
  session and role: `RememberedIsIssued` says so of all that is remembered, although keys are shared by messages without an id.
* `DeliveredOnce`, `DeliveredInOrder`: `Spec => []StoredOnce` and `[]StoredInOrder`. What is stored has been answered for or has failed
  (`Served`), so a call that AMM may still serve has not been stored; and a subprocess leaves no such call behind (`Over`), so with the binary
  the newest call is always the one being stored.
* `NothingLost`: `Spec => []NothingMissing`. For each shape of the payload, the places the code looks in include one that has substance if any has
  (`Noticed`); a call without a fault and with a content that is not blank waits or is answered (`Blameless`), and an answered one is stored unless a policy
  ignores its kind (`AnsweredIsStored`).
* `ContextIsBounded`: `Spec => []ContextBounded`. `RenderRecall` is a recursive function over the length of the answer. Since induction over data is
  beyond the provers installed, its bound is proved from a least counterexample: of the lengths at which it would fail there is a smallest, and
  the equation of the function carries the bound from the one before.

Only model-checked: the liveness properties (`RetriedEventsReturn`, `AllSettle`, `EventuallyConsolidated`, `EventuallyOne`, `HandlersEnd`,
`ProcessesEnd`), which are out of the proof system's reach, and what `OpenCodeMessages` computes, which is recursive and only
evaluated by TLC: the theorems about `OpenCodePlugin` hold for whatever announcements it is given.

## 5. What is not modelled

The reasons per component are in `PROJECT.json`. In short: recall and scoring change nothing durable but a history; entities,
claims, embeddings and episodes are best-effort derivations; adapters, configuration and contracts decode and validate; projects,
relationships and policies are one statement per call. The PostgreSQL repository is a second implementation of the interface;
the models follow the statements of SQLite. Of the plugins the stateless ones are left out: the OpenCode HTTP plugin makes one call per
hook, the native tools of `amm.js` and memorySearch and memoryGet only read. The Helm release script edits a file from top to bottom. Text (wording, prompts, parsing) is abstracted everywhere.

## 6. Hazards and plan

`PROJECT.json` lists what can go wrong in this code that a test would hardly reach, each at its line, with the properties that
would notice. Those without a property carry the reason; the ones marked "Planned" belong to the modules below, in this order.

1. The rest of the memory jobs in `MemoryCuration`: promotion, cross-project transfer, enrichment, contradictions,
   ResetDerived and FixLinks. Abstract specification: a memory is active, superseded or retracted, and merging moves a group towards
   one active memory.
2. `CompressHistory` with BuildTopicSummaries: frontier, cooldown, crash between summaries and record; each event in at most one
   leaf between two failures, each leaf in at most one topic. To prove: frontier monotonicity.
3. The rest of Reprocess (re-extraction of events, superseding of the memories it replaces), the contradiction jobs.
4. Pure algorithms against reference definitions: escalation of summaries, chunking of sessions, policy matching, Expand.
5. The Python plugin for Hermes, whose mirroring `curated-sync.ts` follows, against the same properties as `CuratedSync`.
6. Job records: RunJob, stale running jobs, PurgeOldEvents and PurgeOldJobs against what Reflect lost and the frontiers.

Further theorems: an abstract specification of ConsolidateSessions (an event waits, is in a summary, is settled; a burst is settled as a whole)
that `SessionConsolidation` implements without retries, and one of `CuratedSync` (files, and an AMM that follows them) that it implements when all
goes well, both from the invariants of section 4; what a second Reprocess may leave behind, in place of the premise `reprocs <= 1`;
and that after the last write of a stale copy supersession no longer changes, the safe half of `EventuallyOne`.
