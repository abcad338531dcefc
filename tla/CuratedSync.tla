---------------------------- MODULE CuratedSync ----------------------------
(***************************************************************************)
(* The OpenClaw plugin mirrors the entries of MEMORY.md and USER.md into   *)
(* AMM (examples/openclaw/src/curated-sync.ts, hooks in index.ts).  Before *)
(* an agent starts it keeps a snapshot of both files; when the agent ends  *)
(* it compares each file with the snapshot and tells AMM what was added,   *)
(* removed and replaced.  Which memory an entry became is kept in a map on *)
(* disk that all agents and processes share, and calls that failed are     *)
(* noted in a queue file.                                                  *)
(*                                                                         *)
(* A handler runs from one await to the next without a break: it takes the *)
(* next change and sends a request (SyncAdd, SyncRemove, SyncReplace), AMM *)
(* serves it (Serve), the handler goes on (Finish).  The map it saves is   *)
(* the one it has read before it sent the request.                         *)
(*                                                                         *)
(* An entry is its text.  The order of a file only decides which entries   *)
(* are paired as replacements, and is left open; no entry stands twice in  *)
(* a file.  AMM may take an entry for one it resembles.  Other users of AMM *)
(* and its own jobs (MemoryCuration) are left out.                         *)
(***************************************************************************)
EXTENDS OpenClawConfig, SequencesExt

CONSTANTS
  Entries,      \* the texts that may stand in the files
  MayHold,      \* the entries each file may hold
  Found,        \* the entries each file holds at first
  Alike,        \* pairs of entries that AMM may take for each other
  Conf,         \* the resolved configuration
  Build,        \* "npm" or "dual", see Way
  Agents,       \* agent runs that may be under way at once
  Processes,    \* processes with the plugin loaded
  Host,         \* the process of each agent
  QueueLimit,   \* MAX_QUEUE_LINES
  MaxTurns,     \* bound: agent runs
  MaxEdits,     \* bound: times a file is rewritten
  MaxFaults     \* bound: calls and saves that fail, processes that die

Targets == {"memory", "user"}

ASSUME ConstantsAssumption ==
  /\ IsFiniteSet(Entries) /\ MayHold \in [Targets -> SUBSET Entries]
  /\ Found \in [Targets -> SUBSET Entries]
  /\ Alike \subseteq SUBSET Entries
  /\ Build \in {"npm", "dual"}
  /\ Host \in [Agents -> Processes]
  /\ QueueLimit \in Nat \ {0}
  /\ MaxTurns \in Nat /\ MaxEdits \in Nat /\ MaxFaults \in Nat

VARIABLES
  file,      \* the entries of each file
  snap,      \* snapshot, in each process
  map,       \* the records of curated-memory-id-map.json
  queue,     \* the lines of curated-memory-sync-queue.jsonl
  mems,      \* AMM's memories, in the order of their creation
  likened,   \* history: AMM has taken an entry for another one
  late,      \* requests given up by the plugin that AMM may still serve
  pc,        \* where each agent is
  target,    \* the file its handler is at
  now,       \* currentEntries
  todo,      \* changes it has still to make
  held,      \* the map as it has read it
  req,       \* the request it waits for
  got,       \* the answer: the id of a memory, or 0 for none
  turns, edits, faults,
  owed,      \* history: entries that were found added, and not removed since
  refused,   \* history: some call failed and had no effect
  lost,      \* history: some call had an effect that was not reported
  broken,    \* history: some handler was cut short
  mixed,     \* history: two agents at work got in each other's way
  astray,    \* history: a file changed, and not while one agent alone was on
  crossed,   \* history: a turn removed two entries or more and added some
  spilled    \* history: the queue dropped a line

disk == <<file, map, queue>>
handler == <<pc, target, now, todo, held, req, got>>
budget == <<turns, edits, faults>>
history == <<owed, refused, lost, broken, mixed, astray, crossed, spilled>>
vars == <<disk, snap, mems, likened, late, handler, budget, history>>

Blank == [t \in Targets |-> {}]
NoRequest == [call |-> "none"]

Init ==
  /\ file = Found
  /\ snap = [p \in Processes |-> Blank]
  /\ map = <<>> /\ queue = <<>>
  /\ mems = <<>> /\ likened = FALSE /\ late = {}
  /\ pc = [a \in Agents |-> "off"]
  /\ target = [a \in Agents |-> "memory"]
  /\ now = [a \in Agents |-> {}]
  /\ todo = [a \in Agents |-> <<>>]
  /\ held = [a \in Agents |-> <<>>]
  /\ req = [a \in Agents |-> NoRequest]
  /\ got = [a \in Agents |-> 0]
  /\ turns = 0 /\ edits = 0 /\ faults = 0
  /\ owed = Blank
  /\ refused = FALSE /\ lost = FALSE /\ broken = FALSE /\ mixed = FALSE
  /\ astray = FALSE /\ crossed = FALSE /\ spilled = FALSE

Handling(a) == pc[a] \in {"pick", "sent", "back"}

\* That agent is at work, and no other one, nor any handler.
OnlyOn(a) == pc[a] = "on" /\ \A b \in Agents \ {a} : pc[b] = "off"

-----------------------------------------------------------------------------
(* The world around: the agent or the user rewrites a file, and agents     *)
(* start.                                                                  *)

Edit(t, entries) ==
  /\ edits < MaxEdits /\ entries # file[t]
  /\ file' = [file EXCEPT ![t] = entries]
  /\ edits' = edits + 1
  /\ astray' = (astray \/ ~\E a \in Agents : OnlyOn(a))
  /\ UNCHANGED <<map, queue, snap, mems, likened, late, handler, turns, faults,
                 owed, refused, lost, broken, mixed, crossed, spilled>>

\* The hook before_agent_start, which like agent_end is there only if the
\* mirroring is switched on.  The snapshot belongs to the process, so that an
\* agent that starts takes it from those that are at work.
BeforeAgentStart(a) ==
  /\ Conf.syncCuratedMemory
  /\ pc[a] = "off" /\ turns < MaxTurns
  /\ snap' = [snap EXCEPT ![Host[a]] = file]
  /\ pc' = [pc EXCEPT ![a] = "on"]
  /\ turns' = turns + 1
  /\ mixed' = (mixed \/ \E b \in Agents \ {a} :
                          Host[b] = Host[a] /\ pc[b] # "off")
  /\ UNCHANGED <<disk, mems, likened, late, target, now, todo, held, req, got,
                 edits, faults, owed, refused, lost, broken, astray, crossed,
                 spilled>>

-----------------------------------------------------------------------------
(* The comparison at the end of a turn.                                    *)

Change(do, entries) == [i \in DOMAIN entries |-> [do |-> do, entry |-> entries[i]]]

\* As many replacements as there are pairs, then the removals and the
\* additions that are left over.
Plan(removed, added) ==
  LET pairs == Min({Len(removed), Len(added)}) IN
  Change("replace", SubSeq(added, 1, pairs))
    \o Change("remove", SubSeq(removed, pairs + 1, Len(removed)))
    \o Change("add", SubSeq(added, pairs + 1, Len(added)))

\* reconcileCurated(t) up to its first change.
Compare(a, t) ==
  LET removed == snap[Host[a]][t] \ file[t]
      added == file[t] \ snap[Host[a]][t] IN
  /\ target' = [target EXCEPT ![a] = t]
  /\ now' = [now EXCEPT ![a] = file[t]]
  /\ \E gone \in SetToSeqs(removed), fresh \in SetToSeqs(added) :
       todo' = [todo EXCEPT ![a] = Plan(gone, fresh)]
  /\ owed' = [owed EXCEPT ![t] = (@ \cup added) \ removed]
  /\ crossed' = (crossed \/ (Cardinality(removed) > 1 /\ added # {}))

\* The hook agent_end: MEMORY.md first.
AgentEnd(a) ==
  /\ pc[a] = "on"
  /\ pc' = [pc EXCEPT ![a] = "pick"]
  /\ Compare(a, "memory")
  /\ UNCHANGED <<disk, snap, mems, likened, late, held, req, got, budget,
                 refused, lost, broken, mixed, astray, spilled>>

\* All changes of a file are through: its snapshot moves on, whatever became
\* of them, and USER.md follows.
NextFile(a) ==
  /\ pc[a] = "pick" /\ todo[a] = <<>>
  /\ snap' = [snap EXCEPT ![Host[a]][target[a]] = now[a]]
  /\ IF target[a] = "memory"
     THEN Compare(a, "user") /\ UNCHANGED pc
     ELSE /\ pc' = [pc EXCEPT ![a] = "off"]
          /\ target' = [target EXCEPT ![a] = "memory"]
          /\ now' = [now EXCEPT ![a] = {}]
          /\ UNCHANGED <<todo, owed, crossed>>
  /\ UNCHANGED <<disk, mems, likened, late, held, req, got, budget, refused,
                 lost, broken, mixed, astray, spilled>>

-----------------------------------------------------------------------------
(* One change: the map is read, and a request sent if there is a need.     *)

Fingerprint(t, e) ==
  <<t, CuratedScope(Conf, t), EffectiveProjectId(Conf, t), e>>

Recorded(t, e) == \E i \in DOMAIN map : map[i].fp = Fingerprint(t, e)

\* Where the records of an entry stand.
Matches(t, e) == {i \in DOMAIN map : map[i].target = t /\ map[i].entry = e}

\* Bug: the records of the other file count as well.
DisappearedAnywhere(t) == {i \in DOMAIN map : map[i].entry \notin file[t]}

\* Where the records of entries stand that are no longer in the file.
Disappeared(t) ==
  {i \in DOMAIN map : map[i].target = t /\ map[i].entry \notin file[t]}

The(S) == CHOOSE x \in S : TRUE

Send(a, r) ==
  /\ held' = [held EXCEPT ![a] = map]
  /\ req' = [req EXCEPT ![a] = r]
  /\ pc' = [pc EXCEPT ![a] = "sent"]
  /\ mixed' = (mixed \/ \E b \in Agents \ {a} : pc[b] \in {"sent", "back"})
  /\ UNCHANGED <<target, todo>>

\* Bug: the change that needs no request stays at hand.
SkipNothing(a) == UNCHANGED <<todo, pc, target, held, req, mixed>>

Skip(a) ==
  /\ todo' = [todo EXCEPT ![a] = Tail(@)]
  /\ UNCHANGED <<pc, target, held, req, mixed>>

\* The change at hand is of that kind.
AtHand(a, do) == pc[a] = "pick" /\ todo[a] # <<>> /\ Head(todo[a]).do = do

Otherwise ==
  UNCHANGED <<disk, snap, mems, likened, late, now, got, budget, owed, refused,
              lost, broken, astray, crossed, spilled>>

Add(a) ==
  LET t == target[a]
      e == Head(todo[a]).entry IN
  IF Recorded(t, e) THEN Skip(a)
  ELSE Send(a, [call |-> "remember", entry |-> e, of |-> t])

SyncAdd(a) ==
  /\ AtHand(a, "add")
  /\ Add(a)
  /\ Otherwise

SyncRemove(a) ==
  /\ AtHand(a, "remove")
  /\ LET found == Matches(target[a], Head(todo[a]).entry) IN
     IF Cardinality(found) # 1 THEN Skip(a)
     ELSE Send(a, [call |-> "forget", id |-> map[The(found)].id, at |-> The(found)])
  /\ Otherwise

\* Bug: a replacement that finds no record is not added.
SyncReplaceOnly(a) ==
  /\ AtHand(a, "replace")
  /\ LET found == Disappeared(target[a]) IN
     IF Cardinality(found) # 1 THEN Skip(a)
     ELSE Send(a, [call |-> "update", id |-> map[The(found)].id, at |-> The(found),
                   entry |-> Head(todo[a]).entry, of |-> target[a]])
  /\ Otherwise

\* The record that lost its entry is given the new one.  If there is none,
\* or more than one, the new entry is added.
SyncReplace(a) ==
  /\ AtHand(a, "replace")
  /\ LET found == Disappeared(target[a]) IN
     IF Cardinality(found) # 1 THEN Add(a)
     ELSE Send(a, [call |-> "update", id |-> map[The(found)].id, at |-> The(found),
                   entry |-> Head(todo[a]).entry, of |-> target[a]])
  /\ Otherwise

-----------------------------------------------------------------------------
(* AMM.  Remember returns an active memory that the entry resembles, with   *)
(* the wording it has, or stores a new one; an update makes a memory active *)
(* again.                                                                   *)

Same(r) ==
  {i \in DOMAIN mems : mems[i] = [body |-> r.entry, of |-> r.of, active |-> TRUE]}

\* By its embedding an entry may also resemble one of the other file, if both
\* files have the same heading.
Resembled(r) ==
  {i \in DOMAIN mems :
     /\ mems[i].active
     /\ Heading(Conf, mems[i].of) = Heading(Conf, r.of)
     /\ mems[i].body = r.entry \/ {mems[i].body, r.entry} \in Alike}

\* An entry is stored as a new memory if it resembles none, or if the one that
\* Remember prefers of those it resembles is not similar enough.
Remembers(r, id) ==
  \/ /\ id \in Resembled(r)
     /\ likened' = (likened \/ id \notin Same(r))
     /\ UNCHANGED mems
  \/ /\ Resembled(r) = Same(r) => Same(r) = {}
     /\ id = Len(mems) + 1
     /\ likened' = (likened \/ Same(r) # {})
     /\ mems' = Append(mems, [body |-> r.entry, of |-> r.of, active |-> TRUE])

Updates(r, id) ==
  /\ id = r.id
  /\ mems' = [mems EXCEPT ![id] = [body |-> r.entry, of |-> r.of, active |-> TRUE]]
  /\ UNCHANGED likened

Forgets(r, id) ==
  /\ id = r.id
  /\ mems' = [mems EXCEPT ![id].active = FALSE]
  /\ UNCHANGED likened

\* The request has its effect; id is that of the memory.
Perform(r, id) ==
  CASE r.call = "remember" -> Remembers(r, id)
    [] r.call = "update" -> Updates(r, id)
    [] r.call = "forget" -> Forgets(r, id)

Ids == 1..(Len(mems) + 1)

Answer(a, id) ==
  /\ pc' = [pc EXCEPT ![a] = "back"]
  /\ got' = [got EXCEPT ![a] = id]
  /\ UNCHANGED <<disk, snap, target, now, todo, held, req, turns, edits, owed,
                 broken, mixed, astray, crossed, spilled>>

Fault == faults < MaxFaults /\ faults' = faults + 1

Serve(a) ==
  /\ pc[a] = "sent"
  /\ \/ /\ "done" \in Outcomes(Way(Build, Conf))
        /\ \E id \in Ids : Perform(req[a], id) /\ Answer(a, id)
        /\ UNCHANGED <<late, faults, refused, lost>>
     \/ /\ "refused" \in Outcomes(Way(Build, Conf))
        /\ IF Way(Build, Conf) = "none" THEN UNCHANGED faults ELSE Fault
        /\ refused' = TRUE
        /\ Answer(a, 0)
        /\ UNCHANGED <<mems, likened, late, lost>>
     \/ /\ "unheard" \in Outcomes(Way(Build, Conf)) /\ Fault
        /\ lost' = TRUE
        /\ \E id \in Ids : Perform(req[a], id)
        /\ Answer(a, 0)
        /\ UNCHANGED <<late, refused>>
     \/ /\ "delayed" \in Outcomes(Way(Build, Conf)) /\ Fault
        /\ lost' = TRUE
        /\ late' = late \cup {req[a]}
        /\ Answer(a, 0)
        /\ UNCHANGED <<mems, likened, refused>>

\* What was given up arrives after all.
ServeLate(r) ==
  /\ r \in late
  /\ \E id \in Ids : Perform(r, id)
  /\ late' = late \ {r}
  /\ UNCHANGED <<disk, snap, handler, budget, history>>

-----------------------------------------------------------------------------
(* The handler after the answer: the map is saved, or a line queued.       *)

Record(t, e, id) == [target |-> t, entry |-> e, fp |-> Fingerprint(t, e), id |-> id]

NewMap(a) ==
  LET t == target[a]
      r == req[a] IN
  CASE r.call = "remember" -> Append(held[a], Record(t, r.entry, got[a]))
    [] r.call = "update" -> [held[a] EXCEPT ![r.at] = Record(t, r.entry, got[a])]
    [] r.call = "forget" -> RemoveAt(held[a], r.at)

\* Bug: the queue does not say which memory it was about.
LineWithoutId(a) ==
  [entry |-> Head(todo[a]).entry, target |-> target[a], do |-> Head(todo[a]).do,
   id |-> 0]

Line(a) ==
  [entry |-> Head(todo[a]).entry, target |-> target[a],
   do |-> CASE req[a].call = "remember" -> "add"
            [] req[a].call = "update" -> "replace"
            [] req[a].call = "forget" -> "remove",
   id |-> IF req[a].call = "remember" THEN 0 ELSE req[a].id]

\* appendSyncQueue: the last QueueLimit lines stay.
Queued(line) ==
  LET lines == Append(queue, line)
      n == Len(lines) IN
  IF n > QueueLimit THEN SubSeq(lines, n - QueueLimit + 1, n) ELSE lines

Settle(a) ==
  /\ pc' = [pc EXCEPT ![a] = "pick"]
  /\ held' = [held EXCEPT ![a] = <<>>]
  /\ req' = [req EXCEPT ![a] = NoRequest]
  /\ got' = [got EXCEPT ![a] = 0]

\* Bug: an answer without an id is recorded.
FinishAnyway(a) ==
  /\ pc[a] = "back"
  /\ map' = NewMap(a)
  /\ todo' = [todo EXCEPT ![a] = Tail(@)]
  /\ Settle(a)
  /\ UNCHANGED <<file, queue, snap, mems, likened, late, target, now, budget,
                 history>>

Finish(a) ==
  /\ pc[a] = "back" /\ got[a] # 0
  /\ map' = NewMap(a)
  /\ todo' = [todo EXCEPT ![a] = Tail(@)]
  /\ Settle(a)
  /\ UNCHANGED <<file, queue, snap, mems, likened, late, target, now, budget,
                 history>>

\* Bug: the record goes before it is known whether the memory is gone.
FinishFailedForgetting(a) ==
  /\ pc[a] = "back" /\ got[a] = 0
  /\ queue' = Queued(Line(a))
  /\ spilled' = (spilled \/ Len(queue) >= QueueLimit)
  /\ map' = IF req[a].call = "forget" THEN RemoveAt(held[a], req[a].at) ELSE map
  /\ todo' = [todo EXCEPT ![a] = Tail(@)]
  /\ Settle(a)
  /\ UNCHANGED <<file, snap, mems, likened, late, target, now, budget, owed,
                 refused, lost, broken, mixed, astray, crossed>>

\* A replacement that failed becomes an addition.
FinishFailed(a) ==
  /\ pc[a] = "back" /\ got[a] = 0
  /\ queue' = Queued(Line(a))
  /\ spilled' = (spilled \/ Len(queue) >= QueueLimit)
  /\ todo' = [todo EXCEPT ![a] =
       IF req[a].call = "update" THEN Change("add", <<Head(@).entry>>) \o Tail(@)
       ELSE Tail(@)]
  /\ Settle(a)
  /\ UNCHANGED <<file, map, snap, mems, likened, late, target, now, budget,
                 owed, refused, lost, broken, mixed, astray, crossed>>

\* The map or the queue cannot be written: the handler throws, and neither
\* file's snapshot moves on.
Throw(a) ==
  /\ pc[a] = "back" /\ Fault
  /\ broken' = TRUE
  /\ pc' = [pc EXCEPT ![a] = "off"]
  /\ target' = [target EXCEPT ![a] = "memory"]
  /\ now' = [now EXCEPT ![a] = {}]
  /\ todo' = [todo EXCEPT ![a] = <<>>]
  /\ held' = [held EXCEPT ![a] = <<>>]
  /\ req' = [req EXCEPT ![a] = NoRequest]
  /\ got' = [got EXCEPT ![a] = 0]
  /\ UNCHANGED <<disk, snap, mems, likened, late, turns, edits, owed, refused,
                 lost, mixed, astray, crossed, spilled>>

\* The process dies with all its agents.  Requests on their way may arrive.
Crash(p) ==
  LET Here == {a \in Agents : Host[a] = p /\ pc[a] # "off"} IN
  /\ Here # {} /\ Fault
  /\ broken' = TRUE
  /\ \E S \in SUBSET {req[a] : a \in {b \in Here : pc[b] = "sent"}} :
       late' = late \cup S
  /\ snap' = [snap EXCEPT ![p] = Blank]
  /\ pc' = [a \in Agents |-> IF a \in Here THEN "off" ELSE pc[a]]
  /\ target' = [a \in Agents |-> IF a \in Here THEN "memory" ELSE target[a]]
  /\ now' = [a \in Agents |-> IF a \in Here THEN {} ELSE now[a]]
  /\ todo' = [a \in Agents |-> IF a \in Here THEN <<>> ELSE todo[a]]
  /\ held' = [a \in Agents |-> IF a \in Here THEN <<>> ELSE held[a]]
  /\ req' = [a \in Agents |-> IF a \in Here THEN NoRequest ELSE req[a]]
  /\ got' = [a \in Agents |-> IF a \in Here THEN 0 ELSE got[a]]
  /\ UNCHANGED <<disk, mems, likened, turns, edits, owed, refused, lost, mixed,
                 astray, crossed, spilled>>

-----------------------------------------------------------------------------
Work(a) ==
  \/ NextFile(a)
  \/ SyncAdd(a)
  \/ SyncRemove(a)
  \/ SyncReplace(a)
  \/ Serve(a)
  \/ Finish(a)
  \/ FinishFailed(a)

Next ==
  \/ \E t \in Targets : \E entries \in SUBSET MayHold[t] : Edit(t, entries)
  \/ \E a \in Agents : BeforeAgentStart(a) \/ AgentEnd(a) \/ Work(a) \/ Throw(a)
  \/ \E p \in Processes : Crash(p)
  \/ \E r \in late : ServeLate(r)

Spec == Init /\ [][Next]_vars

\* The event loop runs what is ready, and every call ends by its timeout.
FairSpec == Spec /\ \A a \in Agents : WF_vars(Work(a))

-----------------------------------------------------------------------------
(* Properties.                                                             *)

Change1 == [do : {"add", "remove", "replace"}, entry : Entries]
Id == Nat \ {0}
Scopes == {"global", "project", "session"}
SyncRecord == [target : Targets, entry : Entries, id : Id,
               fp : Targets \X Scopes \X {"", CuratedProjectId(Conf)} \X Entries]
Request ==
  [call : {"remember"}, entry : Entries, of : Targets]
    \cup [call : {"update"}, id : Id, at : Id, entry : Entries, of : Targets]
    \cup [call : {"forget"}, id : Id, at : Id]

\* The types of all variables.
TypeOK ==
  /\ file \in [Targets -> SUBSET Entries]
  /\ snap \in [Processes -> [Targets -> SUBSET Entries]]
  /\ map \in Seq(SyncRecord)
  /\ queue \in Seq([entry : Entries, target : Targets, id : Nat,
                    do : {"add", "remove", "replace"}])
  /\ Len(queue) <= QueueLimit
  /\ mems \in Seq([body : Entries, of : Targets, active : BOOLEAN])
  /\ late \subseteq Request
  /\ pc \in [Agents -> {"off", "on", "pick", "sent", "back"}]
  /\ target \in [Agents -> Targets]
  /\ now \in [Agents -> SUBSET Entries]
  /\ todo \in [Agents -> Seq(Change1)]
  /\ held \in [Agents -> Seq(SyncRecord)]
  /\ req \in [Agents -> Request \cup {NoRequest}]
  /\ got \in [Agents -> Nat]
  /\ turns \in Nat /\ edits \in Nat /\ faults \in Nat
  /\ owed \in [Targets -> SUBSET Entries]
  /\ {refused, lost, broken, mixed, astray, crossed, spilled, likened}
       \subseteq BOOLEAN

Quiet == \A a \in Agents : ~Handling(a)

\* What the map says once the answers that have arrived are written down.
Answered == {a \in Agents : pc[a] = "back" /\ got[a] # 0}
MapToBe == IF Answered = {} THEN map ELSE NewMap(The(Answered))

Tells(r, i) ==
  r.id = i /\ mems[i] = [body |-> r.entry, of |-> r.target, active |-> TRUE]

\* As long as no answer goes missing, no handler is cut short and no two
\* agents mix, every active memory has a record.  And unless AMM has taken an
\* entry for another one the map is true: every record names an active memory
\* with the wording of its entry, and no two records name the same one.  Calls
\* that fail and files that change at any moment do not matter
\* (syncAdd, syncRemove, syncReplace).
MapIsTrue ==
  ~lost /\ ~broken /\ ~mixed =>
    /\ \A i \in DOMAIN mems : mems[i].active =>
         \E n \in DOMAIN MapToBe : MapToBe[n].id = i
    /\ ~likened =>
         /\ \A n \in DOMAIN MapToBe : \E i \in DOMAIN mems : Tells(MapToBe[n], i)
         /\ \A n, k \in DOMAIN MapToBe : MapToBe[n].id = MapToBe[k].id => n = k

\* What the queue file names, with the calls that have failed just now.
Reports(e, i) ==
  \/ \E n \in DOMAIN queue : queue[n].entry = e \/ (i # 0 /\ queue[n].id = i)
  \/ \E a \in Agents : /\ pc[a] = "back" /\ got[a] = 0
                       /\ Line(a).entry = e \/ (i # 0 /\ Line(a).id = i)

\* Even when answers go missing, and late requests are served, the queue file
\* tells where the map and AMM have parted, by the id of the memory or by the
\* entry: which memories have no record, and, unless AMM has taken an entry for
\* another one, which records are not true.  It takes a handler cut short, two
\* agents that mix or a full queue to part unnoticed (queueFailedSync).
QueueExplains ==
  ~broken /\ ~mixed /\ ~spilled =>
    /\ \A i \in DOMAIN mems : mems[i].active =>
         (\E n \in DOMAIN MapToBe : MapToBe[n].id = i) \/ Reports(mems[i].body, i)
    /\ ~likened =>
         \A n \in DOMAIN MapToBe :
           (\E i \in DOMAIN mems : Tells(MapToBe[n], i))
             \/ Reports(MapToBe[n].entry, MapToBe[n].id)

\* No entry is dropped silently: when the handlers are through, an entry that
\* a comparison found added has a record, or a line in the queue, whichever
\* calls failed or went unheard (reconcileCurated).
NoEntryDropped ==
  Quiet /\ ~broken /\ ~mixed /\ ~astray /\ ~spilled =>
    \A t \in Targets : \A e \in owed[t] :
      Recorded(t, e) \/ \E n \in DOMAIN queue :
                           queue[n].target = t /\ queue[n].entry = e

Mirrored(t) ==
  {mems[i].body : i \in {j \in DOMAIN mems :
                            mems[j].active /\ mems[j].of = t}}

AllWell ==
  Quiet /\ ~refused /\ ~lost /\ ~broken /\ ~mixed /\ ~astray /\ ~likened

\* When all goes well, which includes that AMM takes no entry for another one,
\* it holds the entries of the files that it has been told of, and nothing else
\* unless a turn removed two entries or more and added some.
MirrorIsExact ==
  AllWell =>
    \A t \in Targets :
      /\ owed[t] \subseteq Mirrored(t)
      /\ ~crossed => Mirrored(t) = owed[t]

\* The same with no exception.
RemovalsMirrored ==
  AllWell => \A t \in Targets : Mirrored(t) = owed[t]

\* Every handler comes to an end: no call is waited for or tried for ever.
HandlersEnd == \A a \in Agents : Handling(a) ~> ~Handling(a)
=============================================================================
