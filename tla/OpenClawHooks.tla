--------------------------- MODULE OpenClawHooks ---------------------------
(***************************************************************************)
(* The hooks of the OpenClaw plugin that capture events and inject recall  *)
(* (examples/openclaw/index.ts, capture.ts, recall.ts), and the calls they *)
(* make (transport.ts, transport-http.ts).  The host runs handlers while   *)
(* others wait for their answers.  A call over HTTP is given up after a    *)
(* time but may have been served, or be served later; a subprocess holds   *)
(* up everything else until it ends.  Nothing is ever tried again.         *)
(*                                                                         *)
(* Values are those of OpenClawConfig, objects among them; a field that a  *)
(* record does not have counts as unset.                                   *)
(***************************************************************************)
EXTENDS OpenClawConfig, SequencesExt

CONSTANTS
  Setups,      \* builds, plugin configurations and environments to start with
  Events,      \* the events of the host
  Prompts,     \* the message lists that a prompt may be built from
  Recalled,    \* what AMM may find: sequences of items
  Policies,    \* the kinds of event that AMM may have been told to ignore
  MaxEvents,   \* bound: captured events
  MaxPrompts,  \* bound: prompts
  MaxFaults    \* bound: calls that fail

Kinds == {"message_user", "message_assistant", "tool_call", "tool_result"}

ASSUME ConstantsAssumption ==
  /\ \A s \in Setups :
       /\ s.build \in {"npm", "dual"}
       /\ \A raw \in {s.cfg["recallLimit"], s.env["recallLimit"]} :
            /\ raw.is \in {"unset", "null", "text", "url", "number", "flag"}
            /\ raw.is = "number" => raw.v \in Int
            /\ raw.is = "flag" => raw.v \in BOOLEAN
  /\ Policies \subseteq SUBSET Kinds
  /\ \A items \in Recalled : items \in Seq([described : BOOLEAN])
  /\ MaxEvents \in Nat /\ MaxPrompts \in Nat /\ MaxFaults \in Nat

VARIABLES
  conf, way,   \* the configuration, and the way to AMM that follows from it
  ignored,     \* the kinds that an ingestion policy ignores
  issued,      \* the events handed to ingestEvent
  call,        \* what has become of each call
  stored,      \* the events as AMM has stored them, in that order
  prompt,      \* where the building of a prompt is
  context,     \* the memories put before the prompt
  heard,       \* history: the events of the host
  prompts, faults

setup == <<conf, way, ignored>>
capture == <<issued, call, stored, heard>>
recalling == <<prompt, context, prompts>>
vars == <<setup, capture, recalling, faults>>

\* A text of nothing but blanks, which is not empty.
Blank == Text(" ")

Field(r, name) == IF name \in DOMAIN r THEN r[name] ELSE Unset

-----------------------------------------------------------------------------
(* capture.ts: what an event says.                                         *)

\* The first of the fields that holds a text which is not empty, be it blank.
FirstText(ctx, names) ==
  LET texts == {i \in DOMAIN names : AsString(Field(ctx, names[i])) # Unset} IN
  IF texts = {} THEN Unset ELSE ctx[names[Min(texts)]]

\* JSON makes two quotes of the empty text, and a text of an object.
ToText(raw) == IF raw = Text("") THEN Text("''") ELSE raw

\* Bug: one of the shapes of the payload is forgotten.
PickInboundBody(ctx) == FirstText(ctx, <<"bodyForAgent", "transcript", "body">>)

PickInboundContent(ctx) ==
  FirstText(ctx, <<"bodyForAgent", "transcript", "body", "content">>)

PickOutboundContent(ctx) == FirstText(ctx, <<"content">>)

PickToolName(ctx) == FirstText(ctx, <<"name", "toolName", "functionName">>)

PickToolInput(ctx) ==
  Coalesce(Coalesce(Field(ctx, "arguments"), Field(ctx, "args")), Field(ctx, "input"))

PickToolOutput(ctx) ==
  Coalesce(Coalesce(Field(ctx, "output"), Field(ctx, "result")), Field(ctx, "content"))

BuildToolCallContent(ctx) ==
  LET name == PickToolName(ctx)
      input == ToText(PickToolInput(ctx)) IN
  IF name = Unset /\ input = Unset THEN Unset
  ELSE [is |-> "call", name |-> name, input |-> input]

Classify(event) ==
  LET hook == <<event.type, event.action>>
      ctx == event.context IN
  CASE hook = <<"message", "preprocessed">> ->
         [kind |-> "message_user", content |-> PickInboundContent(ctx)]
    [] hook = <<"message", "sent">> ->
         [kind |-> "message_assistant", content |-> PickOutboundContent(ctx)]
    [] event.type \in {"tool", "function"} /\ event.action = "called" ->
         [kind |-> "tool_call", content |-> BuildToolCallContent(ctx)]
    [] event.type \in {"tool", "function"} /\ event.action = "completed" ->
         [kind |-> "tool_result", content |-> ToText(PickToolOutput(ctx))]

\* The key of the session, even if it is the empty text, else the conversation.
SessionId(event) ==
  Coalesce(Field(event, "sessionKey"), AsString(Field(event.context, "conversationId")))

\* The handler is registered for these only.
Captured == {<<"message", "preprocessed">>, <<"message", "sent">>,
             <<"tool", "called">>, <<"tool", "completed">>}

-----------------------------------------------------------------------------
(* recall.ts and index.ts: what is put before a prompt.                    *)

\* The last message of the user that is not blank.
ExtractUserQuery(messages) ==
  LET asked == SelectSeq(messages, LAMBDA m : m.role = "user" /\ m.content # "") IN
  IF asked = <<>> THEN "" ELSE Last(asked).content

\* Bug: the items are all taken.
RenderRecallAll(items, limit) == SelectSeq(items, LAMBDA item : item.described)

\* Of the first items those that have a description, one after the other.
RenderRecall(items, limit) ==
  LET n == IF Len(items) < limit THEN Len(items) ELSE limit
      lines[i \in 0..n] ==
        IF i = 0 THEN <<>>
        ELSE IF items[i].described THEN Append(lines[i - 1], items[i])
        ELSE lines[i - 1]
  IN lines[n]

-----------------------------------------------------------------------------
(* What AMM does with a call: it refuses a blank content, and answers an    *)
(* event that a policy ignores as if it had stored it.                     *)

Refused(e) == e.content = Blank

Keeps(e) == ~Refused(e) /\ e.kind \notin ignored

Kept(i, e) == IF Keeps(e) THEN Append(stored, i) ELSE stored

Verdict(e) == IF Refused(e) THEN "failed" ELSE "answered"

-----------------------------------------------------------------------------
Fault == faults < MaxFaults /\ faults' = faults + 1

Init ==
  /\ \E s \in Setups :
       /\ conf = ResolveConfig(s.cfg, s.env)
       /\ way = Way(s.build, ResolveConfig(s.cfg, s.env))
  /\ ignored \in Policies
  /\ issued = <<>> /\ call = <<>> /\ stored = <<>> /\ heard = <<>>
  /\ prompt = "none" /\ context = <<>>
  /\ prompts = 0 /\ faults = 0

\* Bug: a subprocess is not waited for.
IngestEventDetached(event, i) ==
  /\ issued' = Append(issued, event)
  /\ call' = Append(call, IF way = "none" THEN "failed" ELSE "waiting")
  /\ UNCHANGED <<stored, faults>>

\* ingestEvent, the call number i.  A subprocess may store the event and yet
\* fail; over HTTP the answer is waited for.
IngestEvent(event, i) ==
  /\ issued' = Append(issued, event)
  /\ CASE way = "http" -> /\ call' = Append(call, "waiting")
                          /\ UNCHANGED <<stored, faults>>
       [] way = "none" -> /\ call' = Append(call, "failed")
                          /\ UNCHANGED <<stored, faults>>
       [] way = "binary" -> \/ /\ call' = Append(call, Verdict(event))
                               /\ stored' = Kept(i, event)
                               /\ UNCHANGED faults
                            \/ /\ Fault
                               /\ call' = Append(call, "failed")
                               /\ stored' \in {stored, Kept(i, event)}

\* captureEvent, from the hook to its call.
CaptureEvent(event) ==
  LET said == Classify(event) IN
  /\ <<event.type, event.action>> \in Captured
  /\ Len(heard) < MaxEvents
  /\ heard' = Append(heard, event)
  /\ IF said.content = Unset THEN UNCHANGED <<issued, call, stored, faults>>
     ELSE IngestEvent([kind |-> said.kind, content |-> said.content,
                       session |-> SessionId(event), of |-> Len(heard) + 1],
                      Len(call) + 1)
  /\ UNCHANGED <<setup, recalling>>

\* Bug: a call that is given up is made again.
AbortAndRetry(i) ==
  /\ call[i] = "waiting" /\ Fault
  /\ stored' = Kept(i, issued[i])
  /\ UNCHANGED <<setup, recalling, issued, call, heard>>

Unanswered == {"waiting", "given up"}

Becomes(i, state) ==
  /\ call' = [call EXCEPT ![i] = state]
  /\ UNCHANGED <<setup, recalling, issued, heard>>

\* AMM serves a call, even one that the plugin has given up.
Serve(i) ==
  /\ call[i] \in Unanswered
  /\ stored' = Kept(i, issued[i])
  /\ Becomes(i, Verdict(issued[i]))
  /\ UNCHANGED faults

\* The call is refused or lost.
Refuse(i) ==
  /\ call[i] = "waiting" /\ Fault
  /\ Becomes(i, "failed")
  /\ UNCHANGED stored

\* The five seconds of the call are over.
Abort(i) ==
  /\ call[i] = "waiting" /\ Fault
  /\ Becomes(i, "given up")
  /\ UNCHANGED stored

-----------------------------------------------------------------------------
\* before_prompt_build: recall is asked for.
BeforePromptBuild(messages) ==
  /\ prompt = "none" /\ prompts < MaxPrompts
  /\ prompts' = prompts + 1
  /\ context' = <<>>
  /\ prompt' = IF ExtractUserQuery(messages) = "" THEN "none" ELSE "asked"
  /\ UNCHANGED <<setup, capture, faults>>

\* AMM keeps to the limit that it is told of, over HTTP only.
Fits(items) == way = "http" => Len(items) <= conf.recallLimit

\* The answer.
Answer(items) ==
  /\ prompt = "asked" /\ way # "none" /\ Fits(items)
  /\ context' = RenderRecall(items, conf.recallLimit)
  /\ prompt' = "none"
  /\ UNCHANGED <<setup, capture, prompts, faults>>

\* No answer, or one that cannot be used: the prompt goes without memories.
NoAnswer ==
  /\ prompt = "asked"
  /\ IF way = "none" THEN UNCHANGED faults ELSE Fault
  /\ prompt' = "none"
  /\ UNCHANGED <<setup, capture, context, prompts>>

Reply(i) == Serve(i) \/ Refuse(i) \/ Abort(i)

Next ==
  \/ \E event \in Events : CaptureEvent(event)
  \/ \E i \in DOMAIN call : Reply(i)
  \/ \E messages \in Prompts : BeforePromptBuild(messages)
  \/ \E items \in Recalled : Answer(items)
  \/ NoAnswer

Spec == Init /\ [][Next]_vars

-----------------------------------------------------------------------------
(* Properties.                                                             *)

\* The types of all variables, and the values a configuration may come to.
TypeOK ==
  /\ conf.recallLimit \in Nat \ {0}
  /\ way \in {"http", "binary", "none"}
  /\ Len(issued) = Len(call) /\ Len(issued) <= Len(heard)
  /\ call \in Seq(Unanswered \cup {"answered", "failed"})
  /\ stored \in Seq(DOMAIN issued) /\ heard \in Seq(Events)
  /\ \A e \in Range(issued) :
       /\ e.kind \in Kinds /\ e.content # Unset /\ e.of \in DOMAIN heard
  /\ prompt \in {"none", "asked"} /\ faults \in 0..MaxFaults

\* No event is stored twice: calls are not repeated, also when they are given
\* up and served afterwards (postJson, ingestEvent).
StoredOnce == \A i, j \in DOMAIN stored : stored[i] = stored[j] => i = j

\* With the binary AMM stores the events in the order in which they happened:
\* no handler gets in before a subprocess has ended (runAmm).
StoredInOrder ==
  way = "binary" =>
    \A i, j \in DOMAIN stored : i < j => stored[i] < stored[j]

\* The kind of the event of each hook, and the fields that hold its substance:
\* those in which only a text counts, and those in which any value does.
Hooked ==
  [preprocessed |-> [kind |-> "message_user", values |-> {},
                     texts |-> {"bodyForAgent", "transcript", "body", "content"}],
   sent |-> [kind |-> "message_assistant", texts |-> {"content"}, values |-> {}],
   called |-> [kind |-> "tool_call", texts |-> {"name", "toolName", "functionName"},
               values |-> {"arguments", "args", "input"}],
   completed |-> [kind |-> "tool_result", texts |-> {},
                  values |-> {"output", "result", "content"}]]

Substantial(event) ==
  LET hook == Hooked[event.action] IN
  \/ \E f \in hook.texts : AsString(Field(event.context, f)) # Unset
  \/ \E f \in hook.values : Field(event.context, f).is \notin {"unset", "null"}

\* A blank field may hide the others; the description of a call is never blank.
Blanked(event) ==
  /\ event.action # "called"
  /\ \E f \in Hooked[event.action].texts \cup Hooked[event.action].values :
       Field(event.context, f) = Blank

\* If there is a way to AMM, every event that has any substance, in whichever
\* shape the host gave it, has a call under its kind, and AMM has stored it
\* unless the call is on its way, has met with a fault, or is one that a policy
\* ignores (captureEvent, IngestEvent).  Left out: an event that has a blank
\* field, which is picked before a good one and then refused.
NothingMissing ==
  way # "none" =>
    \A h \in DOMAIN heard : Substantial(heard[h]) /\ ~Blanked(heard[h]) =>
      \E i \in DOMAIN issued :
        /\ issued[i].of = h /\ issued[i].kind = Hooked[heard[h].action].kind
        /\ \/ i \in Range(stored)
           \/ call[i] = "waiting"
           \/ faults > 0 /\ call[i] \in {"given up", "failed"}
           \/ issued[i].kind \in ignored

\* What is injected never goes beyond the limit, however it was configured,
\* though only a call over HTTP tells AMM of it (renderRecall).
ContextBounded ==
  Len(context) <= conf.recallLimit /\ \A item \in Range(context) : item.described
=============================================================================
