----------------------------- MODULE MCOpenCode -----------------------------
(* Small instances of OpenCodePlugin for TLC. *)
EXTENDS OpenCodePlugin, OpenCodeMessages

Str(text) == [str |-> text]
About(m, type, properties) == [about |-> m, type |-> type, properties |-> properties]

\* A user's message; an answer that shares its id, grows in parts and is
\* worded twice; messages with no id or no session; one that AMM is not told.
Heard == {
  About("m1", "message.created",
    [sessionID |-> "s1", message |-> [id |-> "i1", role |-> "user", content |-> Str(<<"A">>)]]),
  About("m2", "message.updated",
    [sessionID |-> "s1", message |-> [id |-> "i1", role |-> "assistant", status |-> "partial",
                                     content |-> Str(<<"A">>)]]),
  About("m2", "message.updated",
    [sessionID |-> "s1", data |-> [message |->
      [messageID |-> "i1", type |-> "assistant", status |-> "completed",
       content |-> [list |-> <<[content |-> [list |-> <<Str(<<"A">>)>>]]>>]]]]),
  About("m2", "message.created",
    [sessionID |-> "s1", payload |-> [message |->
      [messageId |-> "i1", role |-> "assistant", parts |-> [list |-> <<[text |-> Str(<<"A">>)]>>]]]]),
  About("m2", "message.updated",
    [sessionID |-> "s1", message |-> [id |-> "i1", role |-> "assistant", final |-> TRUE,
                                     content |-> Str(<<"B">>)]]),
  About("m3", "message.created",
    [sessionID |-> "s1", role |-> "user", content |-> Str(<<"A">>)]),
  About("m4", "message.created",
    [message |-> [role |-> "user", content |-> Str(<<"A">>)]]),
  About("m5", "message.created",
    [sessionID |-> "s1", message |-> [id |-> "i5", role |-> "system", content |-> Str(<<"A">>)]]) }

Told == {Read(event) : event \in Heard}

Calls == {[args |-> <<>>, output |-> <<"O">>]}
=============================================================================
