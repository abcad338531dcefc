--------------------------- MODULE OpenCodePlugin ---------------------------
(***************************************************************************)
(* The OpenCode plugin (examples/opencode/plugins/amm.js) hears the events *)
(* of the host and hands those worth keeping to a process `amm ingest      *)
(* event` of their own, which it does not wait for.  Three maps in memory  *)
(* decide what is handed over: the text last taken of each message, the    *)
(* time of each session's last idle event, and whether anything happened   *)
(* in the session since.  They are lost when the host restarts; processes  *)
(* that are under way then go on, but nothing ends them any more.          *)
(*                                                                         *)
(* A text is the sequence of its pieces; "unknown" stands for a missing    *)
(* session or id.                                                          *)
(***************************************************************************)
EXTENDS Integers, SequencesExt

CONSTANTS
  Sessions,        \* names of sessions; "unknown" is none of them
  Announcements,   \* what the plugin reads from the events about messages that
                   \* the host may send, see OpenCodeMessages; `about` tells which
                   \* message it really is
  Tools,           \* what a tool is called with and puts out, as texts
  IdleGap,         \* the 60 seconds between two idle events, in ticks
  MaxAnnounced,    \* bound: events of the host that are handed over, but for idle ones
  MaxRestarts      \* bound: restarts of the host

ASSUME ConstantsAssumption ==
  /\ "unknown" \notin Sessions
  /\ \A event \in Announcements : event.session \in Sessions \cup {"unknown"}
  /\ IdleGap \in Nat \ {0}
  /\ MaxAnnounced \in Nat /\ MaxRestarts \in Nat

VARIABLES
  emitted,    \* emittedMessageVersions: the text last taken under each key
  sinceIdle,  \* the time since lastIdleBySession, IdleGap for any longer time
  active,     \* activitySinceLastIdle
  issued,     \* the events handed over
  child,      \* what has become of each: its process runs, or how that ended
  said,       \* history: each message's text last announced as final
  announced, life

maps == <<emitted, sinceIdle, active>>
vars == <<maps, child, issued, said, announced, life>>

-----------------------------------------------------------------------------
\* Bug: the key leaves the role out.
VersionKeyOfAnyRole(event) == <<event.session, event.id, "any">>

VersionKey(event) == <<event.session, event.id, event.role>>

\* Bug: what is remembered differs between the events about one text.
FingerprintOfEvent(event) == <<event.type, event.text>>

Fingerprint(event) == <<Len(event.text), event.text>>

\* The map with a value set.
With(map, key, value) ==
  [k \in DOMAIN map \cup {key} |-> IF k = key THEN value ELSE map[k]]

-----------------------------------------------------------------------------
Running == {i \in DOMAIN child : child[i] \notin {"stored", "failed"}}

Init ==
  /\ emitted = <<>>
  /\ sinceIdle = [s \in Sessions |-> IdleGap]
  /\ active = [s \in Sessions |-> FALSE]
  /\ child = <<>> /\ issued = <<>>
  /\ said = <<>>
  /\ announced = 0 /\ life = 0

\* Bug: no process is started while another one runs.
IngestEventAlone(kind, session, key, text) ==
  /\ issued' = Append(issued, [kind |-> kind, session |-> session, key |-> key,
                               text |-> text, life |-> life])
  /\ child' = IF Running = {} THEN Append(child, "running") ELSE child
  /\ UNCHANGED life

\* runAmmAsync: a process is started, with a timer to end it.
IngestEvent(kind, session, key, text) ==
  /\ issued' = Append(issued, [kind |-> kind, session |-> session, key |-> key,
                               text |-> text, life |-> life])
  /\ child' = Append(child, "running")
  /\ UNCHANGED life

NoKey == <<"none", "none", "none">>

Count == announced < MaxAnnounced /\ announced' = announced + 1

\* Something happened in the session; if there is no session, in "unknown",
\* for which no idle event comes.
Activity(session) ==
  active' = [s \in Sessions |-> active[s] \/ s = session]

-----------------------------------------------------------------------------
(* The hooks.                                                              *)

\* A message is created or updated.  A final text that differs from the one
\* last taken under its key is remembered and handed over.
MessageEvent(event) ==
  LET key == VersionKey(event)
      print == Fingerprint(event) IN
  /\ event.role \in {"user", "assistant"} /\ event.text # <<>> /\ event.final
  /\ said' = With(said, <<event.session, event.about, event.role>>, event.text)
  /\ IF key \in DOMAIN emitted /\ emitted[key] = print
     THEN UNCHANGED <<maps, child, issued, announced, life>>
     ELSE /\ Count
          /\ emitted' = With(emitted, key, print)
          /\ Activity(event.session)
          /\ IngestEvent(IF event.role = "user" THEN "message_user" ELSE "message_assistant",
                         event.session, key, event.text)
          /\ UNCHANGED sinceIdle

ToolExecuteBefore(session, tool) ==
  /\ Count
  /\ Activity(session)
  /\ IngestEvent("tool_call", session, NoKey, tool.args)
  /\ UNCHANGED <<emitted, sinceIdle, said>>

\* The result of a tool is no activity.
ToolExecuteAfter(session, tool) ==
  /\ Count
  /\ IngestEvent("tool_result", session, NoKey, tool.output)
  /\ UNCHANGED <<maps, said>>

SessionCreated(session) ==
  /\ Count
  /\ IngestEvent("session_start", session, NoKey, <<"created">>)
  /\ UNCHANGED <<maps, said>>

\* Bug: the activity is taken back before the time is looked at.
SessionIdleForgetting(session) ==
  /\ active' = [active EXCEPT ![session] = FALSE]
  /\ IF sinceIdle[session] = IdleGap
     THEN sinceIdle' = [sinceIdle EXCEPT ![session] = 0]
     ELSE UNCHANGED sinceIdle
  /\ IF sinceIdle[session] = IdleGap /\ active[session]
     THEN IngestEvent("session_idle", session, NoKey, <<"idle">>)
     ELSE UNCHANGED <<child, issued, life>>
  /\ UNCHANGED <<emitted, said, announced>>

\* Bug: the activity is not taken back.
SessionIdleAgain(session) ==
  /\ sinceIdle[session] = IdleGap
  /\ sinceIdle' = [sinceIdle EXCEPT ![session] = 0]
  /\ active[session]
  /\ IngestEvent("session_idle", session, NoKey, <<"idle">>)
  /\ UNCHANGED <<emitted, active, said, announced>>

\* The session is idle.  Within IdleGap of the last time nothing is done;
\* without any activity the time is noted all the same.
SessionIdle(session) ==
  /\ sinceIdle[session] = IdleGap
  /\ sinceIdle' = [sinceIdle EXCEPT ![session] = 0]
  /\ IF active[session]
     THEN /\ active' = [active EXCEPT ![session] = FALSE]
          /\ IngestEvent("session_idle", session, NoKey, <<"idle">>)
     ELSE UNCHANGED <<active, child, issued, life>>
  /\ UNCHANGED <<emitted, said, announced>>

Tick ==
  /\ sinceIdle' = [s \in Sessions |-> IF sinceIdle[s] < IdleGap THEN sinceIdle[s] + 1
                                      ELSE IdleGap]
  /\ sinceIdle' # sinceIdle
  /\ UNCHANGED <<emitted, active, child, issued, said, announced, life>>

-----------------------------------------------------------------------------
(* The processes.                                                          *)

Becomes(i, state) ==
  /\ child' = [child EXCEPT ![i] = state]
  /\ UNCHANGED <<maps, issued, said, announced, life>>

\* AMM stores an event unless it has no content.  What the process does after
\* that does not matter.
Store(i) == i \in Running /\ issued[i].text # <<>> /\ Becomes(i, "stored")

\* The process cannot store the event.
Fail(i) == i \in Running /\ Becomes(i, "failed")

\* Bug: the process is left alone.
TerminateNothing(i) == child[i] = "running" /\ UNCHANGED vars

\* Five seconds are over: SIGTERM, and SIGKILL two seconds later.
Terminate(i) == child[i] = "running" /\ Becomes(i, "terminating")

Kill(i) == child[i] = "terminating" /\ Becomes(i, "failed")

\* The host restarts: the maps and the timers are gone.
Restart ==
  /\ life < MaxRestarts /\ life' = life + 1
  /\ emitted' = <<>>
  /\ sinceIdle' = [s \in Sessions |-> IdleGap]
  /\ active' = [s \in Sessions |-> FALSE]
  /\ child' = [i \in DOMAIN child |-> IF i \in Running THEN "orphan" ELSE child[i]]
  /\ UNCHANGED <<issued, said, announced>>

Timer(i) == Terminate(i) \/ Kill(i)

Next ==
  \/ \E event \in Announcements : MessageEvent(event)
  \/ \E s \in Sessions :
       \/ \E tool \in Tools : ToolExecuteBefore(s, tool) \/ ToolExecuteAfter(s, tool)
       \/ SessionCreated(s)
       \/ SessionIdle(s)
  \/ Tick
  \/ \E i \in DOMAIN child : Store(i) \/ Fail(i) \/ Timer(i)
  \/ Restart

Spec == Init /\ [][Next]_vars

\* Timers fire; of the host nothing is assumed.
FairSpec ==
  /\ Spec
  /\ \A i \in 1..(2 * MaxAnnounced) : WF_vars(i \in DOMAIN child /\ Timer(i))

-----------------------------------------------------------------------------
(* Properties.                                                             *)

MessageKinds == {"message_user", "message_assistant"}
Work == MessageKinds \cup {"tool_call"}
Kinds == MessageKinds \cup {"tool_call", "tool_result", "session_start", "session_idle"}

\* The types of all variables; there is one process for each event.
TypeOK ==
  /\ \A key \in DOMAIN emitted : Len(key) = 3 /\ Len(emitted[key]) = 2
  /\ sinceIdle \in [Sessions -> 0..IdleGap]
  /\ active \in [Sessions -> BOOLEAN]
  /\ child \in Seq({"running", "terminating", "orphan", "stored", "failed"})
  /\ Len(issued) = Len(child)
  /\ \A e \in Range(issued) :
       e.kind \in Kinds /\ e.session \in Sessions \cup {"unknown"} /\ e.life \in 0..life
  /\ announced \in 0..MaxAnnounced /\ life \in 0..MaxRestarts

\* As long as the host is not restarted, one text of a message is not handed
\* over twice, however often it is announced, unless the message had another
\* text in between (emittedMessageVersions).
NoRepeat ==
  \A i, j \in DOMAIN issued :
    /\ i < j /\ {issued[i].kind, issued[j].kind} \subseteq MessageKinds
    /\ issued[i].key = issued[j].key /\ issued[i].life = issued[j].life
    /\ issued[i].text = issued[j].text
    => \E k \in i..j : issued[k].key = issued[i].key /\ issued[k].text # issued[i].text

\* Whatever is left out as known, the final text of every message reaches AMM
\* unless a process fails: of messages that have no id, and of roles that
\* share one, too (versionKey, isMessageFinal).
FinalTextsStored ==
  (\A i \in DOMAIN child : child[i] = "stored") =>
    \A m \in DOMAIN said :
      \E i \in DOMAIN issued :
        /\ issued[i].session = m[1] /\ issued[i].text = said[m]
        /\ issued[i].kind = IF m[3] = "user" THEN "message_user" ELSE "message_assistant"

\* No self-feeding: between two idle events of a session that AMM gets to see
\* there was a message or a tool call of that session, also across restarts
\* (activitySinceLastIdle).
NoSelfFeeding ==
  \A i, j \in DOMAIN issued :
    i < j /\ issued[i].kind = "session_idle" /\ issued[j].kind = "session_idle"
      /\ issued[i].session = issued[j].session
    => \E k \in i..j : /\ issued[k].session = issued[i].session
                       /\ issued[k].kind \in Work

\* No work is forgotten: what was handed over of a session in this life of the
\* host and has not been followed by an idle event yet is still known, so that
\* the next idle event that does not come too early is handed over, however
\* many were dropped before (lastIdleBySession, activitySinceLastIdle).
WorkIsKnown ==
  \A i \in DOMAIN issued :
    /\ issued[i].kind \in Work /\ issued[i].session \in Sessions
    /\ issued[i].life = life
    /\ \A k \in i..Len(issued) :
         issued[k].session = issued[i].session => issued[k].kind # "session_idle"
    => active[issued[i].session]

\* No process stays for ever, unless the host is restarted while it runs
\* (the timers of runAmmAsync).
ProcessesEnd ==
  \A i \in 1..(2 * MaxAnnounced) :
    (i \in Running /\ child[i] # "orphan") ~> (i \notin Running \/ child[i] = "orphan")
=============================================================================
