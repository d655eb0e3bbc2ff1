---------------------------- MODULE HealthCheck ----------------------------
(***************************************************************************)
(* The health usecase's Check as both servers call it: what it reports for *)
(* a mode and the call that fails, if one does.                            *)
(***************************************************************************)
EXTENDS Integers

\* The repository calls of a check; each answers or fails.
DBCalls == {"db.Ping", "db.GetServerStatus"}
Calls == DBCalls \cup {"cache.Ping", "kv.Ping"}

IsValid(mode) == mode \in {"live", "ready"}
\* No mode at all means ready; an unknown one is refused, and comes back as "".
ParseCheckMode(raw) == IF raw = "" THEN "ready" ELSE IF IsValid(raw) THEN raw ELSE ""

\* The calls are made in order and the first failure ends the check: what comes after it
\* stays skipped.  A live check makes none; the mode "" is a ready check.
Check(mode, failing) ==
    LET reached == CASE failing = "none" -> 3
                     [] failing \in DBCalls -> 0
                     [] failing = "cache.Ping" -> 1
                     [] failing = "kv.Ping" -> 2
        status(n) == IF mode = "live" \/ n > reached + 1 THEN "skipped"
                     ELSE IF n <= reached THEN "up" ELSE "down"
    IN [database |-> status(1), cache |-> status(2), kvstore |-> status(3)]

Reports == [database : {"up", "down", "skipped"}, cache : {"up", "down", "skipped"},
            kvstore : {"up", "down", "skipped"}]
Down(report) == "down" \in {report.database, report.cache, report.kvstore}

\* A report says which dependency stopped the check: everything before it is up,
\* everything after it skipped.
Consistent(report) ==
    \/ report = [database |-> "skipped", cache |-> "skipped", kvstore |-> "skipped"]
    \/ \E failing \in Calls \cup {"none"} : report = Check("ready", failing)
=============================================================================
