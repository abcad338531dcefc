-------------------------- MODULE MCOpenClawHooks --------------------------
(* A small instance of OpenClawHooks for TLC. *)
EXTENDS OpenClawHooks

Nothing == [name \in {"apiUrl", "projectId", "recallLimit", "syncCuratedMemory",
                     "curatedProjectId", "memoryScope", "userScope",
                     "memoryType", "userType"} |-> Unset]
Base == Url(<<"http", "/", "/", "amm", "/">>)

\* The server in the configuration or in the environment, or none of them;
\* limits that are a fraction, too low, or no number.
Ways == {
  [build |-> "npm", cfg |-> [Nothing EXCEPT !["apiUrl"] = Base, !["recallLimit"] = Number(25)],
   env |-> Nothing],
  [build |-> "dual", cfg |-> [Nothing EXCEPT !["apiUrl"] = Text(""), !["recallLimit"] = Null],
   env |-> [Nothing EXCEPT !["apiUrl"] = Base, !["recallLimit"] = Text("0.5")]],
  [build |-> "dual", cfg |-> [Nothing EXCEPT !["recallLimit"] = Flag(TRUE)], env |-> Nothing],
  [build |-> "npm", cfg |-> [Nothing EXCEPT !["recallLimit"] = Text("many")], env |-> Nothing] }

Hook(type, action, key, ctx) ==
  [type |-> type, action |-> action, sessionKey |-> key, context |-> ctx]

Seen == {
  Hook("message", "preprocessed", Text("k"),
       [bodyForAgent |-> Text(""), transcript |-> Text("A")]),
  Hook("message", "preprocessed", Unset, [content |-> Text("A"), conversationId |-> Text("c")]),
  Hook("message", "preprocessed", Text("k"), [bodyForAgent |-> Blank, body |-> Text("A")]),
  Hook("message", "preprocessed", Text("k"), [transcript |-> Object, body |-> Text("A")]),
  Hook("message", "sent", Text("k"), [content |-> Text("")]),
  Hook("tool", "called", Text("k"), [arguments |-> Null, input |-> Object]),
  Hook("tool", "called", Text("k"), [name |-> Blank]),
  Hook("tool", "completed", Text("k"), [output |-> Text("")]),
  Hook("tool", "completed", Text("k"), [output |-> Null, content |-> Text("A")]),
  Hook("function", "called", Text("k"), [name |-> Text("f")]) }

Ignored == { {}, {"tool_call", "tool_result"} }

Said(role, content) == [role |-> role, content |-> content]
Asked == { <<Said("user", "A"), Said("assistant", "B"), Said("user", "")>>,
           <<Said("assistant", "B")>> }

Item(described) == [described |-> described]
Found == { <<>>, <<Item(TRUE), Item(TRUE)>>, <<Item(FALSE), Item(TRUE), Item(TRUE)>>,
           <<Item(TRUE), Item(TRUE), Item(TRUE), Item(TRUE)>> }

\* The address is brought into its form once and for all: it is empty, or has
\* the version at its end.
Addresses == UNION {[1..n -> {"http", "/", "amm", "v1"}] : n \in 0..4}
ASSUME \A url \in Addresses :
         LET normal == NormalizeApiUrl(url) IN
         /\ NormalizeApiUrl(normal) = normal
         /\ normal = <<>> \/ IsSuffix(<<"/", "v1">>, normal)
=============================================================================
