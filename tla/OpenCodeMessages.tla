-------------------------- MODULE OpenCodeMessages --------------------------
(***************************************************************************)
(* How the OpenCode plugin reads an event about a message                  *)
(* (examples/opencode/plugins/amm.js): where the message is, what it says, *)
(* who says it and whether it is final.  The host's payloads differ, so    *)
(* that everything is looked for in several places.                        *)
(*                                                                         *)
(* A property that is absent is a field that a record does not have, and   *)
(* a text the sequence of its pieces.                                      *)
(***************************************************************************)
EXTENDS SequencesExt

Has(r, field) == field \in DOMAIN r

\* The first of the fields that there is.
FirstOf(r, fields, default) ==
  LET there == SelectSeq(fields, LAMBDA f : f \in DOMAIN r) IN
  IF there = <<>> THEN default ELSE r[Head(there)]

Nothing == <<>>

ExtractMessagePayload(event) ==
  LET p == event.properties
      holders == SelectSeq(<<"data", "payload">>,
                           LAMBDA f : Has(p, f) /\ Has(p[f], "message")) IN
  CASE Has(p, "message") -> p.message
    [] ~Has(p, "message") /\ holders # <<>> -> p[Head(holders)].message
    [] OTHER -> IF Has(p, "role") \/ Has(p, "content") THEN p ELSE Nothing

ExtractMessageRole(message) ==
  FirstOf(message, <<"role", "type">>,
          IF Has(message, "author") THEN FirstOf(message.author, <<"role">>, "none")
          ELSE "none")

ExtractMessageID(message) ==
  FirstOf(message, <<"id", "messageID", "messageId">>, "unknown")

\* A part is a text (str), or has one in the first of some fields that it has;
\* a content is a text or a list of parts.
RECURSIVE TextIn(_, _)
TextIn(part, fields) ==
  LET Joined(list) ==
        FlattenSeq([i \in DOMAIN list |-> TextIn(list[i], <<"text", "content", "parts">>)])
      found == SelectSeq(fields, LAMBDA f : Has(part, f)) IN
  IF Has(part, "str") THEN part.str
  ELSE IF Has(part, "list") THEN Joined(part.list)
  ELSE IF found = <<>> THEN <<>>
  ELSE TextIn(part[Head(found)], <<>>)

ExtractMessageText(message) == TextIn(message, <<"content", "text", "parts">>)

\* A created message is final unless it says otherwise, an updated one only
\* if it says so.
IsMessageFinal(message, type) ==
  LET status == FirstOf(message, <<"status">>, "") IN
  \/ type = "message.created" /\ status \notin {"streaming", "in_progress", "pending", "partial"}
  \/ type = "message.updated"
       /\ \/ \E flag \in {"final", "done", "complete"} : Has(message, flag) /\ message[flag]
          \/ status \in {"completed", "complete", "done", "final"}

\* What the hook goes by.
Read(event) ==
  LET message == ExtractMessagePayload(event) IN
  [type |-> event.type, about |-> event.about,
   session |-> FirstOf(event.properties, <<"sessionID">>, "unknown"),
   role |-> ExtractMessageRole(message), id |-> ExtractMessageID(message),
   text |-> ExtractMessageText(message), final |-> IsMessageFinal(message, event.type)]
=============================================================================
