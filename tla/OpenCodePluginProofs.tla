----------------------- MODULE OpenCodePluginProofs -----------------------
(***************************************************************************)
(* What the maps of the OpenCode plugin are for, for every set of sessions *)
(* and of announcements and for all bounds: the idle events that AMM gets  *)
(* to see do not feed on themselves, and one text of a message is not      *)
(* handed over twice.  Each follows from what one of the maps remembers of *)
(* the events that have been handed over.                                  *)
(***************************************************************************)
EXTENDS OpenCodePlugin, SequenceTheorems, TLAPS

Texts ==
  {event.text : event \in Announcements} \cup {tool.args : tool \in Tools}
    \cup {tool.output : tool \in Tools} \cup {<<"created">>, <<"idle">>}

Origins == Sessions \cup {event.session : event \in Announcements}
Keys == {VersionKey(event) : event \in Announcements} \cup {NoKey}

Handed == [kind : Kinds, session : Origins, key : Keys, text : Texts, life : Nat]

Shape ==
  /\ issued \in Seq(Handed)
  /\ active \in [Sessions -> BOOLEAN]
  /\ life \in Nat

\* Where a session is active, its last idle event has been followed by work.
ActiveMeansWork ==
  \A i \in DOMAIN issued :
    issued[i].kind = "session_idle" /\ issued[i].session \in Sessions
      /\ active[issued[i].session]
    => \E k \in i..Len(issued) : /\ issued[k].session = issued[i].session
                                 /\ issued[k].kind \in Work

IdleInSession ==
  \A i \in DOMAIN issued : issued[i].kind = "session_idle" => issued[i].session \in Sessions

\* The text last handed over under a key in this life is the one remembered.
EmittedIsLast ==
  \A i \in DOMAIN issued :
    issued[i].kind \in MessageKinds /\ issued[i].life = life
    => /\ issued[i].key \in DOMAIN emitted
       /\ \/ emitted[issued[i].key] = <<Len(issued[i].text), issued[i].text>>
          \/ \E k \in i..Len(issued) : /\ issued[k].key = issued[i].key
                                       /\ issued[k].text # issued[i].text

LivesPast == \A i \in DOMAIN issued : issued[i].life <= life

Feeding == ActiveMeansWork /\ IdleInSession /\ NoSelfFeeding
Repeating == EmittedIsLast /\ LivesPast /\ NoRepeat
Memory == Shape /\ Feeding /\ Repeating

\* Initially nothing has been handed over.
LEMMA MemoryInit == Init => Memory
BY DEF Init, Memory, Shape, Feeding, Repeating, ActiveMeansWork, IdleInSession,
       EmittedIsLast, LivesPast, NoSelfFeeding, NoRepeat

\* One more event is handed over.
LEMMA OneMore ==
  ASSUME Shape, NEW e \in Handed, issued' = Append(issued, e)
  PROVE  /\ issued' \in Seq(Handed)
         /\ Len(issued) \in Nat /\ Len(issued') = Len(issued) + 1
         /\ DOMAIN issued = 1..Len(issued)
         /\ DOMAIN issued' = 1..(Len(issued) + 1)
         /\ issued'[Len(issued) + 1] = e
         /\ \A i \in DOMAIN issued : issued'[i] = issued[i]
BY DEF Shape

\* What IngestEvent hands over.
LEMMA HandedOver ==
  ASSUME Shape, NEW kind \in Kinds, NEW session \in Origins, NEW key \in Keys,
         NEW text \in Texts, IngestEvent(kind, session, key, text)
  PROVE  \E e \in Handed :
           /\ issued' = Append(issued, e) /\ life' = life
           /\ e.kind = kind /\ e.session = session /\ e.key = key /\ e.text = text
           /\ e.life = life
<1> DEFINE e == [kind |-> kind, session |-> session, key |-> key,
                 text |-> text, life |-> life]
<1>1. e \in Handed
  BY DEF Handed, Shape
<1> QED
  BY <1>1 DEF IngestEvent

\* An event that is no message leaves the memory of texts right.
LEMMA RepeatingKept ==
  ASSUME Memory, NEW e \in Handed, issued' = Append(issued, e), life' = life,
         e.life = life, e.kind \notin MessageKinds, emitted' = emitted
  PROVE Repeating'
<1>1. /\ Len(issued) \in Nat /\ Len(issued') = Len(issued) + 1
      /\ DOMAIN issued = 1..Len(issued) /\ DOMAIN issued' = 1..(Len(issued) + 1)
      /\ issued'[Len(issued) + 1] = e
      /\ \A i \in DOMAIN issued : issued'[i] = issued[i]
  BY OneMore DEF Memory
<1>2. LivesPast'
  BY <1>1 DEF Memory, Repeating, LivesPast, Shape
<1>3. EmittedIsLast'
  BY <1>1 DEF Memory, Repeating, EmittedIsLast
<1>4. NoRepeat'
  <2> SUFFICES ASSUME NEW i \in DOMAIN issued', NEW j \in DOMAIN issued', i < j,
                      issued'[i].kind \in MessageKinds, issued'[j].kind \in MessageKinds,
                      issued'[i].key = issued'[j].key, issued'[i].life = issued'[j].life,
                      issued'[i].text = issued'[j].text
               PROVE \E k \in i..j : /\ issued'[k].key = issued'[i].key
                                     /\ issued'[k].text # issued'[i].text
    BY DEF NoRepeat
  <2>1. i \in DOMAIN issued /\ j \in DOMAIN issued /\ i..j \subseteq DOMAIN issued
    BY <1>1
  <2> QED
    BY <1>1, <2>1 DEF Memory, Repeating, NoRepeat
<1> QED
  BY <1>2, <1>3, <1>4 DEF Repeating

\* A message is handed over whose text is not the one remembered: it is
\* remembered from now on, and it parts the earlier texts from the later ones.
LEMMA RepeatingMessage ==
  ASSUME Memory, NEW e \in Handed, issued' = Append(issued, e), life' = life,
         e.life = life,
         ~(e.key \in DOMAIN emitted /\ emitted[e.key] = <<Len(e.text), e.text>>),
         DOMAIN emitted' = {e.key} \cup DOMAIN emitted,
         emitted'[e.key] = <<Len(e.text), e.text>>,
         \A key \in DOMAIN emitted : key # e.key => emitted'[key] = emitted[key]
  PROVE Repeating'
<1>1. /\ Len(issued) \in Nat /\ Len(issued') = Len(issued) + 1
      /\ DOMAIN issued = 1..Len(issued) /\ DOMAIN issued' = 1..(Len(issued) + 1)
      /\ issued'[Len(issued) + 1] = e
      /\ \A i \in DOMAIN issued : issued'[i] = issued[i]
  BY OneMore DEF Memory
<1>2. LivesPast'
  BY <1>1 DEF Memory, Repeating, LivesPast, Shape
<1>3. EmittedIsLast'
  <2> SUFFICES ASSUME NEW i \in DOMAIN issued',
                      issued'[i].kind \in MessageKinds, issued'[i].life = life
               PROVE /\ issued'[i].key \in DOMAIN emitted'
                     /\ \/ emitted'[issued'[i].key] = <<Len(issued'[i].text), issued'[i].text>>
                        \/ \E k \in i..Len(issued') : /\ issued'[k].key = issued'[i].key
                                                      /\ issued'[k].text # issued'[i].text
    BY DEF EmittedIsLast
  <2>1. CASE i = Len(issued) + 1
    BY <1>1, <2>1
  <2>2. CASE i \in DOMAIN issued /\ issued[i].key = e.key
    <3>1. issued'[i] = issued[i] /\ issued'[i].key = e.key
      BY <1>1, <2>2
    <3>2. Len(issued) + 1 \in i..Len(issued')
      BY <1>1, <2>2
    <3>3. CASE issued'[i].text = e.text
      BY <3>1, <3>3
    <3>4. CASE issued'[i].text # e.text
      BY <1>1, <3>1, <3>2, <3>4
    <3> QED
      BY <3>3, <3>4
  <2>3. CASE i \in DOMAIN issued /\ issued[i].key # e.key
    <3>1. issued'[i] = issued[i]
      BY <1>1, <2>3
    <3>2. /\ issued[i].key \in DOMAIN emitted
          /\ \/ emitted[issued[i].key] = <<Len(issued[i].text), issued[i].text>>
             \/ \E k \in i..Len(issued) : /\ issued[k].key = issued[i].key
                                          /\ issued[k].text # issued[i].text
      BY <2>3, <3>1 DEF Memory, Repeating, EmittedIsLast
    <3>3. \A k \in i..Len(issued) : k \in i..Len(issued') /\ issued'[k] = issued[k]
      BY <1>1, <2>3
    <3> QED
      BY <2>3, <3>1, <3>2, <3>3
  <2> QED
    BY <1>1, <2>1, <2>2, <2>3
<1>4. NoRepeat'
  <2> SUFFICES ASSUME NEW i \in DOMAIN issued', NEW j \in DOMAIN issued', i < j,
                      issued'[i].kind \in MessageKinds, issued'[j].kind \in MessageKinds,
                      issued'[i].key = issued'[j].key, issued'[i].life = issued'[j].life,
                      issued'[i].text = issued'[j].text
               PROVE \E k \in i..j : /\ issued'[k].key = issued'[i].key
                                     /\ issued'[k].text # issued'[i].text
    BY DEF NoRepeat
  <2>1. i \in DOMAIN issued /\ issued'[i] = issued[i]
    BY <1>1
  <2>2. CASE j \in DOMAIN issued
    <3>1. i..j \subseteq DOMAIN issued
      BY <1>1, <2>1, <2>2
    <3> QED
      BY <1>1, <2>1, <2>2, <3>1 DEF Memory, Repeating, NoRepeat
  <2>3. CASE j = Len(issued) + 1
    <3>1. /\ issued[i].kind \in MessageKinds /\ issued[i].life = life
          /\ issued[i].key = e.key /\ issued[i].text = e.text
      BY <1>1, <2>1, <2>3
    <3>2. \E k \in i..Len(issued) : /\ issued[k].key = issued[i].key
                                    /\ issued[k].text # issued[i].text
      BY <2>1, <3>1 DEF Memory, Repeating, EmittedIsLast
    <3>3. \A k \in i..Len(issued) : k \in i..j /\ issued'[k] = issued[k]
      BY <1>1, <2>1, <2>3
    <3> QED
      BY <2>1, <3>2, <3>3
  <2> QED
    BY <1>1, <2>2, <2>3
<1> QED
  BY <1>2, <1>3, <1>4 DEF Repeating

\* An event is handed over that is not idle: where a session becomes active,
\* the event is work of it.
LEMMA FeedingKept ==
  ASSUME Memory, NEW e \in Handed, issued' = Append(issued, e),
         e.kind # "session_idle",
         \A s \in Sessions : active'[s] => active[s] \/ (e.session = s /\ e.kind \in Work)
  PROVE Feeding'
<1>1. /\ Len(issued) \in Nat /\ Len(issued') = Len(issued) + 1
      /\ DOMAIN issued = 1..Len(issued) /\ DOMAIN issued' = 1..(Len(issued) + 1)
      /\ issued'[Len(issued) + 1] = e
      /\ \A i \in DOMAIN issued : issued'[i] = issued[i]
  BY OneMore DEF Memory
<1>2. IdleInSession'
  BY <1>1 DEF Memory, Feeding, IdleInSession
<1>3. ActiveMeansWork'
  <2> SUFFICES ASSUME NEW i \in DOMAIN issued', issued'[i].kind = "session_idle",
                      issued'[i].session \in Sessions, active'[issued'[i].session]
               PROVE \E k \in i..Len(issued') : /\ issued'[k].session = issued'[i].session
                                                /\ issued'[k].kind \in Work
    BY DEF ActiveMeansWork
  <2>1. i \in DOMAIN issued /\ issued'[i] = issued[i]
    BY <1>1
  <2>2. \A k \in i..Len(issued) : k \in i..Len(issued') /\ issued'[k] = issued[k]
    BY <1>1, <2>1
  <2>3. CASE active[issued[i].session]
    <3>1. \E k \in i..Len(issued) : /\ issued[k].session = issued[i].session
                                    /\ issued[k].kind \in Work
      BY <2>1, <2>3 DEF Memory, Feeding, ActiveMeansWork
    <3> QED
      BY <2>1, <2>2, <3>1
  <2>4. CASE ~active[issued[i].session]
    <3>1. e.session = issued[i].session /\ e.kind \in Work
      BY <2>1, <2>4
    <3>2. Len(issued) + 1 \in i..Len(issued')
      BY <1>1, <2>1
    <3> QED
      BY <1>1, <2>1, <3>1, <3>2
  <2> QED
    BY <2>3, <2>4
<1>4. NoSelfFeeding'
  BY <1>1 DEF Memory, Feeding, NoSelfFeeding
<1> QED
  BY <1>2, <1>3, <1>4 DEF Feeding

\* The idle event of an active session: the work since the last one makes it
\* one that does not feed on it.
LEMMA FeedingIdle ==
  ASSUME Memory, NEW e \in Handed, NEW s \in Sessions, issued' = Append(issued, e),
         e.kind = "session_idle", e.session = s, active[s],
         active' = [active EXCEPT ![s] = FALSE]
  PROVE Feeding'
<1>1. /\ Len(issued) \in Nat /\ Len(issued') = Len(issued) + 1
      /\ DOMAIN issued = 1..Len(issued) /\ DOMAIN issued' = 1..(Len(issued) + 1)
      /\ issued'[Len(issued) + 1] = e
      /\ \A i \in DOMAIN issued : issued'[i] = issued[i]
  BY OneMore DEF Memory
<1>2. IdleInSession'
  BY <1>1 DEF Memory, Feeding, IdleInSession
<1>3. ActiveMeansWork'
  <2> SUFFICES ASSUME NEW i \in DOMAIN issued', issued'[i].kind = "session_idle",
                      issued'[i].session \in Sessions, active'[issued'[i].session]
               PROVE \E k \in i..Len(issued') : /\ issued'[k].session = issued'[i].session
                                                /\ issued'[k].kind \in Work
    BY DEF ActiveMeansWork
  <2>1. issued'[i].session # s /\ active[issued'[i].session]
    BY DEF Memory, Shape
  <2>2. i \in DOMAIN issued /\ issued'[i] = issued[i]
    BY <1>1, <2>1
  <2>3. \E k \in i..Len(issued) : /\ issued[k].session = issued[i].session
                                  /\ issued[k].kind \in Work
    BY <2>1, <2>2 DEF Memory, Feeding, ActiveMeansWork
  <2>4. \A k \in i..Len(issued) : k \in i..Len(issued') /\ issued'[k] = issued[k]
    BY <1>1, <2>2
  <2> QED
    BY <2>2, <2>3, <2>4
<1>4. NoSelfFeeding'
  <2> SUFFICES ASSUME NEW i \in DOMAIN issued', NEW j \in DOMAIN issued', i < j,
                      issued'[i].kind = "session_idle", issued'[j].kind = "session_idle",
                      issued'[i].session = issued'[j].session
               PROVE \E k \in i..j : /\ issued'[k].session = issued'[i].session
                                     /\ issued'[k].kind \in Work
    BY DEF NoSelfFeeding, Work
  <2>1. i \in DOMAIN issued /\ issued'[i] = issued[i]
    BY <1>1
  <2>2. CASE j \in DOMAIN issued
    <3>1. i..j \subseteq DOMAIN issued
      BY <1>1, <2>1, <2>2
    <3> QED
      BY <1>1, <2>1, <2>2, <3>1 DEF Memory, Feeding, NoSelfFeeding, Work
  <2>3. CASE j = Len(issued) + 1
    <3>1. issued[i].kind = "session_idle" /\ issued[i].session = s
      BY <1>1, <2>1, <2>3
    <3>2. \E k \in i..Len(issued) : /\ issued[k].session = issued[i].session
                                    /\ issued[k].kind \in Work
      BY <2>1, <3>1 DEF Memory, Feeding, ActiveMeansWork
    <3>3. \A k \in i..Len(issued) : k \in i..j /\ issued'[k] = issued[k]
      BY <1>1, <2>1, <2>3
    <3> QED
      BY <2>1, <3>2, <3>3
  <2> QED
    BY <1>1, <2>2, <2>3
<1> QED
  BY <1>2, <1>3, <1>4 DEF Feeding

\* Nothing is handed over and no session becomes active.
LEMMA Quiet ==
  ASSUME Memory, issued' = issued, life' = life, emitted' = emitted,
         active' = active
  PROVE Memory'
BY DEF Memory, Shape, Feeding, Repeating, ActiveMeansWork, IdleInSession,
       EmittedIsLast, LivesPast, NoSelfFeeding, NoRepeat

-----------------------------------------------------------------------------
\* The hooks about messages.
LEMMA MessageStep ==
  ASSUME Memory, NEW event \in Announcements, MessageEvent(event)
  PROVE Memory'
<1> DEFINE key == VersionKey(event)
           kind == IF event.role = "user" THEN "message_user" ELSE "message_assistant"
<1>1. CASE key \in DOMAIN emitted /\ emitted[key] = Fingerprint(event)
  BY <1>1, Quiet DEF MessageEvent, maps
<1>2. CASE ~(key \in DOMAIN emitted /\ emitted[key] = Fingerprint(event))
  <2>1. /\ emitted' = With(emitted, key, Fingerprint(event))
        /\ Activity(event.session)
        /\ IngestEvent(kind, event.session, key, event.text)
    BY <1>2 DEF MessageEvent
  <2>2. kind \in MessageKinds /\ kind \in Kinds
    BY DEF MessageKinds, Kinds
  <2>3. PICK e \in Handed :
          /\ issued' = Append(issued, e) /\ life' = life
          /\ e.kind = kind /\ e.session = event.session /\ e.key = key
          /\ e.text = event.text /\ e.life = life
    <3>1. event.session \in Origins /\ key \in Keys
      BY DEF Origins, Keys
    <3>2. event.text \in Texts
      BY DEF Texts
    <3>3. Shape
      BY DEF Memory
    <3> HIDE DEF key, kind
    <3> QED
      BY <2>1, <2>2, <3>1, <3>2, <3>3, HandedOver
  <2>4. /\ DOMAIN emitted' = {key} \cup DOMAIN emitted
        /\ emitted'[key] = <<Len(event.text), event.text>>
        /\ \A other \in DOMAIN emitted : other # key => emitted'[other] = emitted[other]
    BY <2>1 DEF Fingerprint, With
  <2>5. Repeating'
    BY <1>2, <2>3, <2>4, RepeatingMessage DEF Fingerprint
  <2>6. /\ active' \in [Sessions -> BOOLEAN]
        /\ \A s \in Sessions : active'[s] => active[s] \/ s = event.session
    BY <2>1 DEF Activity, Memory, Shape
  <2>7. Feeding'
    BY <2>2, <2>3, <2>6, FeedingKept DEF Work, MessageKinds
  <2>8. Shape'
    BY <2>3, <2>6 DEF Memory, Shape
  <2> QED
    BY <2>5, <2>7, <2>8 DEF Memory
<1> QED
  BY <1>1, <1>2

\* A hook that hands over an event which is no message and not idle.
LEMMA OtherStep ==
  ASSUME Memory, NEW kind \in Kinds \ (MessageKinds \cup {"session_idle"}),
         NEW s \in Sessions, NEW text \in Texts,
         IngestEvent(kind, s, NoKey, text), emitted' = emitted,
         active' = active \/ (Activity(s) /\ kind = "tool_call")
  PROVE Memory'
<1>1. PICK e \in Handed :
        /\ issued' = Append(issued, e) /\ life' = life
        /\ e.kind = kind /\ e.session = s /\ e.key = NoKey
        /\ e.text = text /\ e.life = life
  <2>1. s \in Origins /\ NoKey \in Keys /\ kind \in Kinds
    BY DEF Origins, Keys
  <2> QED
    BY <2>1, HandedOver DEF Memory
<1>2. Repeating'
  BY <1>1, RepeatingKept
<1>3. /\ active' \in [Sessions -> BOOLEAN]
      /\ \A t \in Sessions : active'[t] => active[t] \/ (t = s /\ kind = "tool_call")
  BY DEF Activity, Memory, Shape
<1>4. Feeding'
  BY <1>1, <1>3, FeedingKept DEF Work
<1> QED
  BY <1>1, <1>2, <1>3, <1>4 DEF Memory, Shape

\* The hook about idle sessions.
LEMMA IdleStep ==
  ASSUME Memory, NEW s \in Sessions, SessionIdle(s)
  PROVE Memory'
<1>1. CASE ~active[s]
  BY <1>1, Quiet DEF SessionIdle
<1>2. CASE active[s]
  <2>1. /\ active' = [active EXCEPT ![s] = FALSE] /\ emitted' = emitted
        /\ IngestEvent("session_idle", s, NoKey, <<"idle">>)
    BY <1>2 DEF SessionIdle
  <2>2. PICK e \in Handed :
          /\ issued' = Append(issued, e) /\ life' = life
          /\ e.kind = "session_idle" /\ e.session = s /\ e.key = NoKey
          /\ e.life = life
    <3>1. /\ "session_idle" \in Kinds /\ s \in Origins
          /\ NoKey \in Keys /\ <<"idle">> \in Texts
      BY DEF Kinds, Origins, Keys, Texts
    <3> QED
      BY <2>1, <3>1, HandedOver DEF Memory
  <2>3. Repeating'
    BY <2>1, <2>2, RepeatingKept DEF MessageKinds
  <2>4. Feeding'
    BY <1>2, <2>1, <2>2, FeedingIdle
  <2> QED
    BY <2>1, <2>2, <2>3, <2>4 DEF Memory, Shape
<1> QED
  BY <1>1, <1>2

\* After a restart nothing is remembered, and nothing of this life handed over.
LEMMA RestartStep ==
  ASSUME Memory, Restart
  PROVE Memory'
<1>1. /\ life' = life + 1 /\ issued' = issued
      /\ active' = [s \in Sessions |-> FALSE]
  BY DEF Restart
<1>2. Shape'
  BY <1>1 DEF Memory, Shape
<1>3. Feeding'
  BY <1>1 DEF Memory, Feeding, ActiveMeansWork, IdleInSession, NoSelfFeeding
<1>4. \A i \in DOMAIN issued : issued[i].life \in Nat /\ issued[i].life < life'
  <2>1. \A i \in DOMAIN issued : issued[i] \in Handed
    BY DEF Memory, Shape
  <2>2. \A e \in Handed : e.life \in Nat
    BY DEF Handed
  <2> QED
    BY <1>1, <2>1, <2>2 DEF Memory, Shape, Repeating, LivesPast
<1>5. Repeating'
  BY <1>1, <1>4 DEF Memory, Shape, Repeating, EmittedIsLast, LivesPast, NoRepeat
<1> QED
  BY <1>2, <1>3, <1>5 DEF Memory

\* Every step of the plugin, of its host and of its processes.
LEMMA MemoryStep == Memory /\ [Next]_vars => Memory'
<1> SUFFICES ASSUME Memory, [Next]_vars PROVE Memory'
  OBVIOUS
<1>1. CASE UNCHANGED vars
  BY <1>1, Quiet DEF vars, maps
<1>2. ASSUME NEW event \in Announcements, MessageEvent(event) PROVE Memory'
  BY <1>2, MessageStep
<1>3. ASSUME NEW s \in Sessions, NEW tool \in Tools, ToolExecuteBefore(s, tool)
      PROVE Memory'
  <2>1. /\ IngestEvent("tool_call", s, NoKey, tool.args) /\ Activity(s)
        /\ emitted' = emitted
    BY <1>3 DEF ToolExecuteBefore
  <2>2. tool.args \in Texts
    BY DEF Texts
  <2>3. "tool_call" \in Kinds \ (MessageKinds \cup {"session_idle"})
    BY DEF Kinds, MessageKinds
  <2> QED
    BY <2>1, <2>2, <2>3, OtherStep
<1>4. ASSUME NEW s \in Sessions, NEW tool \in Tools, ToolExecuteAfter(s, tool)
      PROVE Memory'
  <2>1. /\ IngestEvent("tool_result", s, NoKey, tool.output)
        /\ emitted' = emitted /\ active' = active
    BY <1>4 DEF ToolExecuteAfter, maps
  <2>2. tool.output \in Texts
    BY DEF Texts
  <2>3. "tool_result" \in Kinds \ (MessageKinds \cup {"session_idle"})
    BY DEF Kinds, MessageKinds
  <2> QED
    BY <2>1, <2>2, <2>3, OtherStep
<1>5. ASSUME NEW s \in Sessions, SessionCreated(s) PROVE Memory'
  <2>1. /\ IngestEvent("session_start", s, NoKey, <<"created">>)
        /\ emitted' = emitted /\ active' = active
    BY <1>5 DEF SessionCreated, maps
  <2>2. <<"created">> \in Texts
    BY DEF Texts
  <2>3. "session_start" \in Kinds \ (MessageKinds \cup {"session_idle"})
    BY DEF Kinds, MessageKinds
  <2> QED
    BY <2>1, <2>2, <2>3, OtherStep
<1>6. ASSUME NEW s \in Sessions, SessionIdle(s) PROVE Memory'
  BY <1>6, IdleStep
<1>7. CASE Tick
  BY <1>7, Quiet DEF Tick
<1>8. ASSUME NEW i \in DOMAIN child, Store(i) \/ Fail(i) \/ Timer(i) PROVE Memory'
  BY <1>8, Quiet DEF Store, Fail, Timer, Terminate, Kill, Becomes, maps
<1>9. CASE Restart
  BY <1>9, RestartStep
<1> QED
  BY <1>1, <1>2, <1>3, <1>4, <1>5, <1>6, <1>7, <1>8, <1>9 DEF Next

LEMMA MemoryHolds == Spec => []Memory
BY MemoryInit, MemoryStep, PTL DEF Spec

\* No self-feeding: between two idle events of a session that are handed over
\* there is work of that session (activitySinceLastIdle).
THEOREM IdleFollowsWork == Spec => []NoSelfFeeding
<1>1. Memory => NoSelfFeeding
  BY DEF Memory, Feeding
<1> QED
  BY <1>1, MemoryHolds, PTL

\* While the host is up, one text of a message is not handed over twice
\* without another one in between (emittedMessageVersions).
THEOREM TextsNotRepeated == Spec => []NoRepeat
<1>1. Memory => NoRepeat
  BY DEF Memory, Repeating
<1> QED
  BY <1>1, MemoryHolds, PTL

-----------------------------------------------------------------------------
(* Types and final texts. *)

ChildStates == {"running", "terminating", "orphan", "stored", "failed"}

\* What a process is started for, and in which state, is of the right types.
LEMMA IngestTypes ==
  ASSUME TypeOK, Shape, NEW kind \in Kinds, NEW session \in Sessions \cup {"unknown"},
         NEW key, NEW text, IngestEvent(kind, session, key, text)
  PROVE  /\ child' \in Seq(ChildStates) /\ Len(issued') = Len(child')
         /\ \A e \in Range(issued') :
              e.kind \in Kinds /\ e.session \in Sessions \cup {"unknown"} /\ e.life \in 0..life
         /\ life' = life
<1> DEFINE e == [kind |-> kind, session |-> session, key |-> key, text |-> text, life |-> life]
<1>1. issued' = Append(issued, e) /\ child' = Append(child, "running") /\ life' = life
  BY DEF IngestEvent
<1>2. child \in Seq(ChildStates) /\ Len(issued) = Len(child)
  BY DEF TypeOK, ChildStates
<1>3. child' \in Seq(ChildStates) /\ Len(child') = Len(child) + 1
  BY <1>1, <1>2 DEF ChildStates
<1>4. /\ Len(issued) \in Nat /\ Len(issued') = Len(issued) + 1
      /\ DOMAIN issued = 1..Len(issued) /\ DOMAIN issued' = 1..(Len(issued) + 1)
      /\ issued'[Len(issued) + 1] = e
      /\ \A i \in DOMAIN issued : issued'[i] = issued[i]
  <2> HIDE DEF e
  <2> QED BY <1>1 DEF Shape
<1>5. ASSUME NEW i \in DOMAIN issued'
      PROVE  /\ issued'[i].kind \in Kinds /\ issued'[i].session \in Sessions \cup {"unknown"}
             /\ issued'[i].life \in 0..life
  <2>1. CASE i = Len(issued) + 1
    <3>1. life \in 0..life BY DEF TypeOK
    <3> QED BY <1>4, <2>1, <3>1
  <2>2. CASE i \in DOMAIN issued
    BY <1>4, <2>2 DEF TypeOK, Range
  <2> QED BY <1>4, <2>1, <2>2
<1> QED BY <1>1, <1>2, <1>3, <1>4, <1>5 DEF Range

\* Everything else keeps its type where a process is started.
LEMMA TypesWithIngest ==
  ASSUME TypeOK, Shape, NEW kind \in Kinds, NEW session \in Sessions \cup {"unknown"},
         NEW key, NEW text, IngestEvent(kind, session, key, text),
         \A k \in DOMAIN emitted' : Len(k) = 3 /\ Len(emitted'[k]) = 2,
         sinceIdle' \in [Sessions -> 0..IdleGap], active' \in [Sessions -> BOOLEAN],
         announced' \in 0..MaxAnnounced
  PROVE  TypeOK'
<1>1. /\ child' \in Seq(ChildStates) /\ Len(issued') = Len(child')
      /\ \A e \in Range(issued') :
           e.kind \in Kinds /\ e.session \in Sessions \cup {"unknown"} /\ e.life \in 0..life
      /\ life' = life
  BY IngestTypes
<1>2. life \in 0..MaxRestarts BY DEF TypeOK
<1> QED BY <1>1, <1>2 DEF TypeOK, ChildStates

\* One of the running processes changes its state.
LEMMA TypesOfProcess ==
  ASSUME TypeOK, NEW i \in DOMAIN child, NEW state \in ChildStates, Becomes(i, state)
  PROVE  TypeOK'
<1>1. child \in Seq(ChildStates) BY DEF TypeOK, ChildStates
<1>2. child' = [child EXCEPT ![i] = state] BY DEF Becomes
<1>3. child' \in Seq(ChildStates) /\ Len(child') = Len(child) BY <1>1, <1>2
<1>4. UNCHANGED <<emitted, sinceIdle, active, issued, announced, life>>
  BY DEF Becomes, maps
<1> QED BY <1>3, <1>4 DEF TypeOK, ChildStates

\* No step takes a variable out of its type.
LEMMA TypesKept ==
  ASSUME TypeOK, Shape, [Next]_vars PROVE TypeOK'
<1>0. /\ announced \in 0..MaxAnnounced /\ life \in 0..MaxRestarts
      /\ sinceIdle \in [Sessions -> 0..IdleGap] /\ active \in [Sessions -> BOOLEAN]
      /\ \A k \in DOMAIN emitted : Len(k) = 3 /\ Len(emitted[k]) = 2
  BY DEF TypeOK
<1>c. Count => announced' \in 0..MaxAnnounced BY <1>0, ConstantsAssumption DEF Count
<1>a. ASSUME NEW session, Activity(session) PROVE active' \in [Sessions -> BOOLEAN]
  BY <1>0, <1>a DEF Activity
<1>1. CASE UNCHANGED vars BY <1>1 DEF vars, maps, TypeOK
<1>2. ASSUME NEW event \in Announcements, MessageEvent(event) PROVE TypeOK'
  <2> DEFINE key == VersionKey(event)
             kind == IF event.role = "user" THEN "message_user" ELSE "message_assistant"
  <2>1. CASE key \in DOMAIN emitted /\ emitted[key] = Fingerprint(event)
    BY <1>2, <2>1 DEF MessageEvent, maps, TypeOK
  <2>2. CASE ~(key \in DOMAIN emitted /\ emitted[key] = Fingerprint(event))
    <3>1. /\ Count /\ emitted' = With(emitted, key, Fingerprint(event))
          /\ Activity(event.session) /\ sinceIdle' = sinceIdle
          /\ IngestEvent(kind, event.session, key, event.text)
      BY <1>2, <2>2 DEF MessageEvent
    <3>2. kind \in Kinds BY DEF Kinds, MessageKinds
    <3>3. event.session \in Sessions \cup {"unknown"} BY ConstantsAssumption
    <3>4. Len(key) = 3 /\ Len(Fingerprint(event)) = 2 BY DEF VersionKey, Fingerprint
    <3>5. \A k \in DOMAIN emitted' : Len(k) = 3 /\ Len(emitted'[k]) = 2
      <4> HIDE DEF key
      <4> QED BY <1>0, <3>1, <3>4 DEF With
    <3> HIDE DEF key, kind
    <3> QED BY <1>0, <1>c, <1>a, <3>1, <3>2, <3>3, <3>5, TypesWithIngest
  <2> QED BY <2>1, <2>2
<1>3. ASSUME NEW s \in Sessions, NEW tool \in Tools, ToolExecuteBefore(s, tool)
      PROVE  TypeOK'
  <2>1. /\ Count /\ Activity(s) /\ UNCHANGED <<emitted, sinceIdle>>
        /\ IngestEvent("tool_call", s, NoKey, tool.args)
    BY <1>3 DEF ToolExecuteBefore
  <2>2. "tool_call" \in Kinds BY DEF Kinds
  <2> QED BY <1>0, <1>c, <1>a, <2>1, <2>2, TypesWithIngest
<1>4. ASSUME NEW s \in Sessions, NEW tool \in Tools, ToolExecuteAfter(s, tool)
      PROVE  TypeOK'
  <2>1. /\ Count /\ UNCHANGED <<emitted, sinceIdle, active>>
        /\ IngestEvent("tool_result", s, NoKey, tool.output)
    BY <1>4 DEF ToolExecuteAfter, maps
  <2>2. "tool_result" \in Kinds BY DEF Kinds
  <2> QED BY <1>0, <1>c, <2>1, <2>2, TypesWithIngest
<1>5. ASSUME NEW s \in Sessions, SessionCreated(s) PROVE TypeOK'
  <2>1. /\ Count /\ UNCHANGED <<emitted, sinceIdle, active>>
        /\ IngestEvent("session_start", s, NoKey, <<"created">>)
    BY <1>5 DEF SessionCreated, maps
  <2>2. "session_start" \in Kinds BY DEF Kinds
  <2> QED BY <1>0, <1>c, <2>1, <2>2, TypesWithIngest
<1>6. ASSUME NEW s \in Sessions, SessionIdle(s) PROVE TypeOK'
  <2>1. sinceIdle' \in [Sessions -> 0..IdleGap] /\ UNCHANGED <<emitted, announced>>
    BY <1>0, <1>6, ConstantsAssumption DEF SessionIdle
  <2>2. CASE active[s]
    <3>1. /\ IngestEvent("session_idle", s, NoKey, <<"idle">>)
          /\ active' \in [Sessions -> BOOLEAN]
      BY <1>0, <1>6, <2>2 DEF SessionIdle
    <3>2. "session_idle" \in Kinds BY DEF Kinds
    <3> QED BY <1>0, <2>1, <3>1, <3>2, TypesWithIngest
  <2>3. CASE ~active[s]
    <3>1. UNCHANGED <<active, child, issued, life>> BY <1>6, <2>3 DEF SessionIdle
    <3> QED BY <2>1, <3>1 DEF TypeOK
  <2> QED BY <2>2, <2>3
<1>7. CASE Tick
  <2>1. sinceIdle' \in [Sessions -> 0..IdleGap]
    BY <1>0, <1>7, ConstantsAssumption DEF Tick
  <2>2. UNCHANGED <<emitted, active, child, issued, announced, life>> BY <1>7 DEF Tick
  <2> QED BY <2>1, <2>2 DEF TypeOK
<1>8. ASSUME NEW i \in DOMAIN child, Store(i) \/ Fail(i) \/ Timer(i) PROVE TypeOK'
  <2>1. \E state \in {"stored", "failed", "terminating"} : Becomes(i, state)
    BY <1>8 DEF Store, Fail, Timer, Terminate, Kill
  <2>2. {"stored", "failed", "terminating"} \subseteq ChildStates BY DEF ChildStates
  <2> QED BY <2>1, <2>2, TypesOfProcess
<1>9. CASE Restart
  <2>1. /\ emitted' = <<>> /\ life' = life + 1 /\ life < MaxRestarts
        /\ sinceIdle' = [s \in Sessions |-> IdleGap]
        /\ active' = [s \in Sessions |-> FALSE]
        /\ child' = [i \in DOMAIN child |-> IF i \in Running THEN "orphan" ELSE child[i]]
        /\ UNCHANGED <<issued, announced>>
    BY <1>9 DEF Restart
  <2>2. child \in Seq(ChildStates) BY DEF TypeOK, ChildStates
  <2>3. child' \in Seq(ChildStates) /\ Len(child') = Len(child)
    BY <2>1, <2>2 DEF ChildStates
  <2>4. sinceIdle' \in [Sessions -> 0..IdleGap] /\ active' \in [Sessions -> BOOLEAN]
    BY <2>1, ConstantsAssumption
  <2>5. life' \in 0..MaxRestarts /\ 0..life \subseteq 0..life'
    BY <1>0, <2>1, ConstantsAssumption
  <2>6. \A e \in Range(issued') :
          e.kind \in Kinds /\ e.session \in Sessions \cup {"unknown"} /\ e.life \in 0..life'
    BY <2>1, <2>5 DEF TypeOK
  <2> QED BY <1>0, <2>1, <2>3, <2>4, <2>5, <2>6 DEF TypeOK, ChildStates
<1> QED BY <1>1, <1>2, <1>3, <1>4, <1>5, <1>6, <1>7, <1>8, <1>9 DEF Next

\* Every variable keeps its type, and each event that is handed over has a
\* process of its own, through restarts and timeouts.
THEOREM TypeCorrect == Spec => []TypeOK
<1>1. Init => TypeOK BY ConstantsAssumption DEF Init, TypeOK, Range
<1>2. Memory => Shape BY DEF Memory
<1>3. TypeOK /\ Shape /\ [Next]_vars => TypeOK' BY TypesKept
<1> QED BY <1>1, <1>2, <1>3, MemoryHolds, PTL DEF Spec

KindOf(role) == IF role = "user" THEN "message_user" ELSE "message_assistant"

\* Under each key that is remembered, the text remembered was handed over as a
\* message of the key's session and role.
RememberedIsIssued ==
  \A key \in DOMAIN emitted : \E i \in DOMAIN issued :
    /\ issued[i].session = key[1] /\ issued[i].kind = KindOf(key[3])
    /\ emitted[key] = <<Len(issued[i].text), issued[i].text>>

SaidIsIssued ==
  \A m \in DOMAIN said : \E i \in DOMAIN issued :
    issued[i].session = m[1] /\ issued[i].text = said[m] /\ issued[i].kind = KindOf(m[3])

Heard == RememberedIsIssued /\ SaidIsIssued

\* Handing over another event takes nothing back.
LEMMA HeardGrows ==
  ASSUME Shape, Heard, NEW e, issued' = Append(issued, e), said' = said,
         emitted' = emitted
  PROVE  Heard'
<1>1. DOMAIN issued \subseteq DOMAIN issued' /\ \A i \in DOMAIN issued : issued'[i] = issued[i]
  BY DEF Shape
<1> QED BY <1>1 DEF Heard, RememberedIsIssued, SaidIsIssued

\* A final text that is not handed over again is one that was.
LEMMA HeardOfMessage ==
  ASSUME Shape, Heard, NEW event \in Announcements, MessageEvent(event)
  PROVE  Heard'
<1> DEFINE key == VersionKey(event)
           m == <<event.session, event.about, event.role>>
<1>1. said' = With(said, m, event.text) /\ event.role \in {"user", "assistant"}
  BY DEF MessageEvent
<1>2. m[1] = event.session /\ m[3] = event.role
      /\ key[1] = event.session /\ key[3] = event.role
  BY DEF VersionKey
<1>3. ASSUME DOMAIN issued \subseteq DOMAIN issued',
             \A i \in DOMAIN issued : issued'[i] = issued[i],
             \E i \in DOMAIN issued' : /\ issued'[i].session = event.session
                                       /\ issued'[i].text = event.text
                                       /\ issued'[i].kind = KindOf(event.role)
      PROVE  SaidIsIssued'
  <2> HIDE DEF m
  <2> SUFFICES ASSUME NEW n \in DOMAIN said'
               PROVE  \E i \in DOMAIN issued' : /\ issued'[i].session = n[1]
                                                /\ issued'[i].text = said'[n]
                                                /\ issued'[i].kind = KindOf(n[3])
    BY DEF SaidIsIssued
  <2>1. CASE n = m
    <3>1. said'[n] = event.text BY <1>1, <2>1 DEF With
    <3> QED BY <1>2, <1>3, <2>1, <3>1
  <2>2. CASE n # m
    <3>1. n \in DOMAIN said /\ said'[n] = said[n] BY <1>1, <2>2 DEF With
    <3> QED BY <1>3, <3>1 DEF Heard, SaidIsIssued
  <2> QED BY <2>1, <2>2
<1>4. CASE key \in DOMAIN emitted /\ emitted[key] = Fingerprint(event)
  <2>1. UNCHANGED <<emitted, issued>> BY <1>4 DEF MessageEvent, maps
  <2>2. PICK i \in DOMAIN issued :
          /\ issued[i].session = key[1] /\ issued[i].kind = KindOf(key[3])
          /\ emitted[key] = <<Len(issued[i].text), issued[i].text>>
    BY <1>4 DEF Heard, RememberedIsIssued
  <2>3. issued[i].text = event.text BY <1>4, <2>2 DEF Fingerprint
  <2>4. SaidIsIssued' BY <1>2, <1>3, <2>1, <2>2, <2>3
  <2>5. RememberedIsIssued' BY <2>1 DEF Heard, RememberedIsIssued
  <2> QED BY <2>4, <2>5 DEF Heard
<1>5. CASE ~(key \in DOMAIN emitted /\ emitted[key] = Fingerprint(event))
  <2>1. /\ emitted' = With(emitted, key, Fingerprint(event))
        /\ IngestEvent(KindOf(event.role), event.session, key, event.text)
    BY <1>5 DEF MessageEvent, KindOf
  <2> DEFINE e == [kind |-> KindOf(event.role), session |-> event.session, key |-> key,
                   text |-> event.text, life |-> life]
  <2>2. issued' = Append(issued, e) BY <2>1 DEF IngestEvent
  <2>3. /\ DOMAIN issued \subseteq DOMAIN issued'
        /\ \A i \in DOMAIN issued : issued'[i] = issued[i]
        /\ Len(issued) + 1 \in DOMAIN issued' /\ issued'[Len(issued) + 1] = e
    <3> HIDE DEF e
    <3> QED BY <2>2 DEF Shape
  <2>4. /\ e.session = event.session /\ e.text = event.text /\ e.kind = KindOf(event.role)
    OBVIOUS
  <2> HIDE DEF e
  <2>5. SaidIsIssued' BY <1>3, <2>3, <2>4
  <2>6. RememberedIsIssued'
    <3> SUFFICES ASSUME NEW k \in DOMAIN emitted'
                 PROVE  \E i \in DOMAIN issued' :
                          /\ issued'[i].session = k[1] /\ issued'[i].kind = KindOf(k[3])
                          /\ emitted'[k] = <<Len(issued'[i].text), issued'[i].text>>
      BY DEF RememberedIsIssued
    <3> HIDE DEF key
    <3>1. CASE k = key
      <4>1. emitted'[k] = Fingerprint(event) BY <2>1, <3>1 DEF With
      <4> QED BY <1>2, <2>3, <2>4, <3>1, <4>1 DEF Fingerprint
    <3>2. CASE k # key
      <4>1. k \in DOMAIN emitted /\ emitted'[k] = emitted[k] BY <2>1, <3>2 DEF With
      <4> QED BY <2>3, <4>1 DEF Heard, RememberedIsIssued
    <3> QED BY <3>1, <3>2
  <2> QED BY <2>5, <2>6 DEF Heard
<1> QED BY <1>4, <1>5

LEMMA HeardStep == ASSUME Shape, Heard, [Next]_vars PROVE Heard'
<1>0. ASSUME NEW kind, NEW session, NEW key, NEW text,
             IngestEvent(kind, session, key, text), said' = said, emitted' = emitted
      PROVE  Heard'
  BY <1>0, HeardGrows DEF IngestEvent
<1>q. ASSUME UNCHANGED <<issued, said, emitted>> PROVE Heard'
  BY <1>q DEF Heard, RememberedIsIssued, SaidIsIssued
<1>1. CASE UNCHANGED vars BY <1>1, <1>q DEF vars, maps
<1>2. ASSUME NEW event \in Announcements, MessageEvent(event) PROVE Heard'
  BY <1>2, HeardOfMessage
<1>3. ASSUME NEW s \in Sessions, NEW tool \in Tools,
             ToolExecuteBefore(s, tool) \/ ToolExecuteAfter(s, tool)
      PROVE  Heard'
  BY <1>0, <1>3 DEF ToolExecuteBefore, ToolExecuteAfter, maps
<1>4. ASSUME NEW s \in Sessions, SessionCreated(s) PROVE Heard'
  BY <1>0, <1>4 DEF SessionCreated, maps
<1>5. ASSUME NEW s \in Sessions, SessionIdle(s) PROVE Heard'
  BY <1>0, <1>q, <1>5 DEF SessionIdle
<1>6. CASE Tick BY <1>6, <1>q DEF Tick
<1>7. ASSUME NEW i \in DOMAIN child, Store(i) \/ Fail(i) \/ Timer(i) PROVE Heard'
  BY <1>7, <1>q DEF Store, Fail, Timer, Terminate, Kill, Becomes, maps
<1>8. CASE Restart
  <2>1. emitted' = <<>> /\ UNCHANGED <<issued, said>> BY <1>8 DEF Restart
  <2> QED BY <2>1 DEF Heard, RememberedIsIssued, SaidIsIssued
<1> QED BY <1>1, <1>2, <1>3, <1>4, <1>5, <1>6, <1>7, <1>8 DEF Next

\* The final text of every message is handed over, whatever the maps leave out
\* and however often the host restarts; with the processes that store what they
\* are given, it reaches AMM (versionKey, emittedMessageVersions).
THEOREM FinalTextsHandedOver == Spec => []FinalTextsStored
<1>1. Init => Heard BY DEF Init, Heard, RememberedIsIssued, SaidIsIssued
<1>2. Memory => Shape BY DEF Memory
<1>3. Shape /\ Heard /\ [Next]_vars => Heard' BY HeardStep
<1>4. Heard => FinalTextsStored BY DEF Heard, SaidIsIssued, FinalTextsStored, KindOf
<1> QED BY <1>1, <1>2, <1>3, <1>4, MemoryHolds, PTL DEF Spec

-----------------------------------------------------------------------------
(* The other direction of activitySinceLastIdle.                           *)

\* One more event is handed over: it keeps what is known of the sessions, and
\* makes its own session known if it is work.
LEMMA KnownGrows ==
  ASSUME Shape, WorkIsKnown, NEW e \in Handed, issued' = Append(issued, e), life' = life,
         \A s \in Sessions : active[s] => active'[s],
         e.kind \in Work /\ e.session \in Sessions => active'[e.session]
  PROVE  WorkIsKnown'
<1>1. /\ Len(issued) \in Nat /\ Len(issued') = Len(issued) + 1
      /\ DOMAIN issued = 1..Len(issued) /\ DOMAIN issued' = 1..(Len(issued) + 1)
      /\ issued'[Len(issued) + 1] = e
      /\ \A i \in DOMAIN issued : issued'[i] = issued[i]
  BY OneMore
<1> SUFFICES ASSUME NEW i \in DOMAIN issued',
                    issued'[i].kind \in Work, issued'[i].session \in Sessions,
                    issued'[i].life = life,
                    \A k \in i..Len(issued') : issued'[k].session = issued'[i].session
                                               => issued'[k].kind # "session_idle"
             PROVE  active'[issued'[i].session]
  BY DEF WorkIsKnown
<1>2. CASE i = Len(issued) + 1 BY <1>1, <1>2
<1>3. CASE i \in DOMAIN issued
  <2>1. \A k \in i..Len(issued) : k \in i..Len(issued') /\ issued'[k] = issued[k]
    BY <1>1, <1>3
  <2>2. active[issued[i].session] BY <1>1, <1>3, <2>1 DEF WorkIsKnown
  <2> QED BY <1>1, <1>3, <2>2
<1> QED BY <1>1, <1>2, <1>3

\* The idle event of a session follows all its work.
LEMMA KnownOfIdle ==
  ASSUME Shape, WorkIsKnown, NEW e \in Handed, NEW s \in Sessions,
         issued' = Append(issued, e), life' = life,
         e.kind = "session_idle", e.session = s,
         active' = [active EXCEPT ![s] = FALSE]
  PROVE  WorkIsKnown'
<1>1. /\ Len(issued) \in Nat /\ Len(issued') = Len(issued) + 1
      /\ DOMAIN issued = 1..Len(issued) /\ DOMAIN issued' = 1..(Len(issued) + 1)
      /\ issued'[Len(issued) + 1] = e
      /\ \A i \in DOMAIN issued : issued'[i] = issued[i]
  BY OneMore
<1> SUFFICES ASSUME NEW i \in DOMAIN issued',
                    issued'[i].kind \in Work, issued'[i].session \in Sessions,
                    issued'[i].life = life,
                    \A k \in i..Len(issued') : issued'[k].session = issued'[i].session
                                               => issued'[k].kind # "session_idle"
             PROVE  active'[issued'[i].session]
  BY DEF WorkIsKnown
<1>2. Len(issued) + 1 \in i..Len(issued') BY <1>1
<1>3. issued'[i].session # s BY <1>1, <1>2
<1>4. i \in DOMAIN issued BY <1>1, <1>3
<1>5. \A k \in i..Len(issued) : k \in i..Len(issued') /\ issued'[k] = issued[k]
  BY <1>1, <1>4
<1>6. active[issued[i].session] BY <1>1, <1>4, <1>5 DEF WorkIsKnown
<1> QED BY <1>1, <1>3, <1>4, <1>6 DEF Shape

LEMMA KnownStep == ASSUME Shape, LivesPast, WorkIsKnown, [Next]_vars PROVE WorkIsKnown'
<1>a. ASSUME NEW session, Activity(session)
      PROVE  \A s \in Sessions : /\ active[s] => active'[s]
                                 /\ s = session => active'[s]
  BY <1>a DEF Activity
<1>q. ASSUME UNCHANGED <<issued, active, life>> PROVE WorkIsKnown'
  BY <1>q DEF WorkIsKnown
<1>n. NoKey \in Keys /\ Sessions \subseteq Origins BY DEF Keys, Origins
<1>k. Work \subseteq Kinds /\ {"tool_result", "session_start", "session_idle"} \subseteq Kinds
  BY DEF Work, Kinds
<1>1. CASE UNCHANGED vars BY <1>1, <1>q DEF vars, maps
<1>2. ASSUME NEW event \in Announcements, MessageEvent(event) PROVE WorkIsKnown'
  <2> DEFINE key == VersionKey(event)
             kind == IF event.role = "user" THEN "message_user" ELSE "message_assistant"
  <2>1. CASE key \in DOMAIN emitted /\ emitted[key] = Fingerprint(event)
    BY <1>2, <1>q, <2>1 DEF MessageEvent, maps
  <2>2. CASE ~(key \in DOMAIN emitted /\ emitted[key] = Fingerprint(event))
    <3>1. Activity(event.session) /\ IngestEvent(kind, event.session, key, event.text)
      BY <1>2, <2>2 DEF MessageEvent
    <3>2. /\ kind \in Kinds /\ event.session \in Origins /\ key \in Keys
          /\ event.text \in Texts
      BY DEF Kinds, MessageKinds, Origins, Keys, Texts
    <3> HIDE DEF key, kind
    <3>3. PICK e \in Handed : /\ issued' = Append(issued, e) /\ life' = life
                              /\ e.session = event.session
      BY <3>1, <3>2, HandedOver
    <3> QED BY <1>a, <3>1, <3>3, KnownGrows
  <2> QED BY <2>1, <2>2
<1>3. ASSUME NEW s \in Sessions, NEW tool \in Tools, ToolExecuteBefore(s, tool)
      PROVE  WorkIsKnown'
  <2>1. Activity(s) /\ IngestEvent("tool_call", s, NoKey, tool.args)
    BY <1>3 DEF ToolExecuteBefore
  <2>2. tool.args \in Texts /\ s \in Origins /\ "tool_call" \in Kinds
    BY <1>k, <1>n DEF Texts, Work
  <2>3. PICK e \in Handed : issued' = Append(issued, e) /\ life' = life /\ e.session = s
    BY <1>n, <2>1, <2>2, HandedOver
  <2> QED BY <1>a, <2>1, <2>3, KnownGrows
<1>4. ASSUME NEW s \in Sessions, NEW tool \in Tools, ToolExecuteAfter(s, tool)
      PROVE  WorkIsKnown'
  <2>1. IngestEvent("tool_result", s, NoKey, tool.output) /\ active' = active
    BY <1>4 DEF ToolExecuteAfter, maps
  <2>2. tool.output \in Texts BY DEF Texts
  <2>3. PICK e \in Handed : /\ issued' = Append(issued, e) /\ life' = life
                            /\ e.kind = "tool_result"
    BY <1>k, <1>n, <2>1, <2>2, HandedOver
  <2>4. e.kind \notin Work BY <2>3 DEF Work, MessageKinds
  <2> QED BY <2>1, <2>3, <2>4, KnownGrows
<1>9. ASSUME NEW s \in Sessions, SessionCreated(s) PROVE WorkIsKnown'
  <2>1. IngestEvent("session_start", s, NoKey, <<"created">>) /\ active' = active
    BY <1>9 DEF SessionCreated, maps
  <2>2. <<"created">> \in Texts BY DEF Texts
  <2>3. PICK e \in Handed : /\ issued' = Append(issued, e) /\ life' = life
                            /\ e.kind = "session_start"
    BY <1>k, <1>n, <2>1, <2>2, HandedOver
  <2>4. e.kind \notin Work BY <2>3 DEF Work, MessageKinds
  <2> QED BY <2>1, <2>3, <2>4, KnownGrows
<1>5. ASSUME NEW s \in Sessions, SessionIdle(s) PROVE WorkIsKnown'
  <2>1. CASE active[s]
    <3>1. /\ active' = [active EXCEPT ![s] = FALSE]
          /\ IngestEvent("session_idle", s, NoKey, <<"idle">>)
      BY <1>5, <2>1 DEF SessionIdle
    <3>2. <<"idle">> \in Texts BY DEF Texts
    <3>3. PICK e \in Handed : /\ issued' = Append(issued, e) /\ life' = life
                              /\ e.kind = "session_idle" /\ e.session = s
      BY <1>k, <1>n, <3>1, <3>2, HandedOver
    <3> QED BY <3>1, <3>3, KnownOfIdle
  <2>2. CASE ~active[s] BY <1>5, <1>q, <2>2 DEF SessionIdle
  <2> QED BY <2>1, <2>2
<1>6. CASE Tick BY <1>6, <1>q DEF Tick
<1>7. ASSUME NEW i \in DOMAIN child, Store(i) \/ Fail(i) \/ Timer(i) PROVE WorkIsKnown'
  BY <1>7, <1>q DEF Store, Fail, Timer, Terminate, Kill, Becomes, maps
<1>8. CASE Restart
  <2>1. issued' = issued /\ life' = life + 1 BY <1>8 DEF Restart
  <2>2. \A i \in DOMAIN issued : issued[i].life \in Nat /\ issued[i].life <= life
    <3> SUFFICES ASSUME NEW i \in DOMAIN issued
                 PROVE  issued[i].life \in Nat /\ issued[i].life <= life
      OBVIOUS
    <3>1. issued[i] \in Handed BY DEF Shape
    <3> QED BY <3>1 DEF LivesPast, Handed
  <2>3. \A i \in DOMAIN issued : issued[i].life # life + 1 BY <2>2 DEF Shape
  <2> QED BY <2>1, <2>3 DEF WorkIsKnown
<1> QED BY <1>1, <1>2, <1>3, <1>4, <1>5, <1>6, <1>7, <1>8, <1>9 DEF Next

\* Work of this life that no idle event has followed is known, whichever idle
\* events were dropped in between (activitySinceLastIdle, lastIdleBySession).
THEOREM WorkNotForgotten == Spec => []WorkIsKnown
<1>1. Init => WorkIsKnown BY DEF Init, WorkIsKnown
<1>2. Memory => Shape /\ LivesPast BY DEF Memory, Repeating
<1>3. Shape /\ LivesPast /\ WorkIsKnown /\ [Next]_vars => WorkIsKnown' BY KnownStep
<1> QED BY <1>1, <1>2, <1>3, MemoryHolds, PTL DEF Spec
=============================================================================
