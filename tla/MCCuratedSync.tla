--------------------------- MODULE MCCuratedSync ---------------------------
(* Small instances of CuratedSync for TLC. *)
EXTENDS CuratedSync

CONSTANTS a1, a2, p1, p2

\* The plugin's defaults, with an AMM server and a project.
Nothing == [name \in {"apiUrl", "projectId", "recallLimit", "syncCuratedMemory",
                     "curatedProjectId", "memoryScope", "userScope",
                     "memoryType", "userType"} |-> Unset]
Served == [apiUrl |-> <<"http", "/", "/", "amm", "/", "v1">>, projectId |-> "p",
           recallLimit |-> 5, syncCuratedMemory |-> TRUE, curatedProjectId |-> "p",
           memoryScope |-> "project", userScope |-> "global",
           memoryType |-> "fact", userType |-> "preference"]

ASSUME Served = ResolveConfig(
  [Nothing EXCEPT !["apiUrl"] = Url(<<"http", "/", "/", "amm">>),
                  !["projectId"] = Text("p")],
  [Nothing EXCEPT !["syncCuratedMemory"] = Text("true")])

\* Three entries of MEMORY.md, one of which may also stand in USER.md.
Shared == [t \in Targets |-> IF t = "user" THEN {"x"} ELSE Entries]
One == [t \in Targets |-> IF t = "user" THEN {} ELSE Entries]

Pair == [t \in Targets |-> IF t = "user" THEN {} ELSE {"x", "y"}]
Empty == [t \in Targets |-> {}]
Old == [t \in Targets |-> IF t = "user" THEN {} ELSE {"x"}]

Alone == a1 :> p1
Apart == a1 :> p1 @@ a2 :> p2

\* The first two entries resemble each other.
Similar == {{"x", "y"}}

ASSUME UseHttpApi(Served)
=============================================================================
