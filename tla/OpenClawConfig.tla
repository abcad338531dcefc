--------------------------- MODULE OpenClawConfig ---------------------------
(***************************************************************************)
(* How the OpenClaw plugin arrives at its configuration                    *)
(* (examples/openclaw/src/config.ts), and what follows from it: by which   *)
(* way a call reaches AMM (transport.ts, transport-http.ts) and under      *)
(* which heading curated entries are filed (curated-sync.ts).              *)
(*                                                                         *)
(* A raw value is a JSON value of the plugin's configuration or an         *)
(* environment variable: unset, a text, a URL (a text of which the parts   *)
(* are told apart, slashes among them), a number or a boolean.  Numbers    *)
(* are counted in tenths, so that there are fractions.                     *)
(***************************************************************************)
EXTENDS Integers, Sequences, FiniteSetsExt

Unset == [is |-> "unset"]
Text(s) == [is |-> "text", v |-> s]
Url(parts) == [is |-> "url", v |-> parts]
Number(tenths) == [is |-> "number", v |-> tenths]
Flag(b) == [is |-> "flag", v |-> b]

Null == [is |-> "null"]

\* A value that only the hooks see: an array or an object.
Object == [is |-> "object"]

\* The operator ?? of the language.
Coalesce(a, b) == IF a.is \in {"unset", "null"} THEN b ELSE a

\* A text that is not empty; any other value counts as unset.
AsString(raw) ==
  IF (raw.is = "text" /\ raw.v # "") \/ (raw.is = "url" /\ raw.v # <<>>)
  THEN raw ELSE Unset

\* Capitals and blanks around the word are left out.
EnvBool(raw) ==
  raw.is = "text" /\ raw.v \in {"1", "true", "yes", "on"}

\* Slashes at the end go, and the version is added unless it is there.
NormalizeApiUrl(url) ==
  LET named == {i \in DOMAIN url : url[i] # "/"}
      trimmed == IF named = {} THEN <<>> ELSE SubSeq(url, 1, Max(named))
      n == Len(trimmed)
  IN IF n = 0 \/ (n > 1 /\ trimmed[n - 1] = "/" /\ trimmed[n] = "v1")
     THEN trimmed
     ELSE trimmed \o <<"/", "v1">>

DefaultRecallLimit == 5

\* The texts that are numbers, in tenths; the empty text is 0.
Numeral == [t \in {"", "0", "0.5", "2.5", "7"} |->
             CASE t = "0.5" -> 5 [] t = "2.5" -> 25 [] t = "7" -> 70
               [] OTHER -> 0]

\* Bug: no limit is too low.
ClampRecallLimitNot(raw) ==
  IF raw.is = "number" THEN raw.v \div 10
  ELSE IF raw.is = "text" /\ raw.v \in DOMAIN Numeral THEN Numeral[raw.v] \div 10
  ELSE DefaultRecallLimit

\* A whole number that is at least 1, or the default.  A URL is no number.
ClampRecallLimit(raw) ==
  LET known == raw.is # "url" /\ (raw.is = "text" => raw.v \in DOMAIN Numeral)
      tenths == CASE raw.is = "number" -> raw.v
                  [] raw.is = "flag" -> IF raw.v THEN 10 ELSE 0
                  [] raw.is = "text" -> Numeral[raw.v]
  IN IF known /\ tenths >= 10 THEN tenths \div 10 ELSE DefaultRecallLimit

\* cfg is the plugin's configuration, env the environment, both total: a
\* name that does not occur is unset.  syncCuratedMemory goes through
\* AsString like the texts do.
Given(cfg, env, name, default) ==
  Coalesce(AsString(cfg[name]), Coalesce(env[name], default))

ResolveConfig(cfg, env) ==
  LET project == Given(cfg, env, "projectId", Text("")) IN
  [apiUrl |-> NormalizeApiUrl(Given(cfg, env, "apiUrl", Url(<<>>)).v),
   projectId |-> project.v,
   recallLimit |-> ClampRecallLimit(
     Coalesce(cfg["recallLimit"],
              Coalesce(env["recallLimit"], Number(10 * DefaultRecallLimit)))),
   syncCuratedMemory |-> EnvBool(Given(cfg, env, "syncCuratedMemory", Unset)),
   curatedProjectId |-> Given(cfg, env, "curatedProjectId", project).v,
   memoryScope |-> Given(cfg, env, "memoryScope", Text("project")).v,
   userScope |-> Given(cfg, env, "userScope", Text("global")).v,
   memoryType |-> Given(cfg, env, "memoryType", Text("fact")).v,
   userType |-> Given(cfg, env, "userType", Text("preference")).v]

-----------------------------------------------------------------------------
(* The way to AMM.  The npm package has only the HTTP transport; install.sh *)
(* puts the dual one in its place.                                         *)

UseHttpApi(conf) == conf.apiUrl # <<>>

Way(build, conf) ==
  IF UseHttpApi(conf) THEN "http"
  ELSE IF build = "dual" THEN "binary"
  ELSE "none"

\* What may become of a call: it is done and known to be; it is refused or
\* never gets there; it is done but the answer is an error, a broken
\* connection or too late; or it is given up and AMM gets to it later, which
\* a subprocess that is killed does not.
Outcomes(way) ==
  CASE way = "http" -> {"done", "refused", "unheard", "delayed"}
    [] way = "binary" -> {"done", "refused", "unheard"}
    [] way = "none" -> {"refused"}

-----------------------------------------------------------------------------
(* Curated entries.                                                        *)

CuratedProjectId(conf) ==
  IF conf.curatedProjectId # "" THEN conf.curatedProjectId ELSE conf.projectId

CuratedScope(conf, target) ==
  LET configured == IF target = "user" THEN conf.userScope ELSE conf.memoryScope
      scope == IF configured \in {"global", "project", "session"} THEN configured
               ELSE IF target = "user" THEN "global" ELSE "project"
  IN IF scope = "project" /\ CuratedProjectId(conf) = "" THEN "global" ELSE scope

EffectiveProjectId(conf, target) ==
  IF CuratedScope(conf, target) = "project" THEN CuratedProjectId(conf) ELSE ""

CuratedType(conf, target) ==
  IF target = "user" THEN conf.userType ELSE conf.memoryType

\* What Remember compares memories within: type, scope and project.
Heading(conf, target) ==
  <<CuratedType(conf, target), CuratedScope(conf, target),
    EffectiveProjectId(conf, target)>>
=============================================================================
