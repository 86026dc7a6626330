---------------------------- MODULE MCFeatureCheck ----------------------------
(* Three runs of two candidates; the third has the process id and the candidate of the first. *)
EXTENDS FeatureCheck, TLC

CONSTANTS r1, r2, r3

Scenario(title, verifier, ref) == [title |-> title, verifier |-> verifier, ref |-> ref]

MCPid == r1 :> 1 @@ r2 :> 2 @@ r3 :> 1

\* "b" is covered by the twin of "b (two)"; "C" has no twin and differs from "c" in case
\* only; nobody verifies "d"; "e" of the second candidate has a twin of comments only.
MCRecord == <<Scenario("a", "hurl", "a.hurl"), Scenario("b", "hurl", "gone.hurl"),
              Scenario("C", "hurl", None), Scenario("c", "hurl", "b.hurl"), Scenario("d", None, None)>>
MCTwins  == <<"a.hurl", "b.hurl", "c.hurl">>
MCClaims == [w \in ToSet(MCTwins) |->
               CASE w = "a.hurl" -> {} [] w = "b.hurl" -> {"b (two)"} [] OTHER -> {"e"}]
MCLower  == [t \in {"a", "b", "C", "c", "d", "e", "what the finished feature answers"} |->
               IF t = "C" THEN "c" ELSE t]

First  == [sha |-> "one", record |-> MCRecord, works |-> {"a.hurl", "b.hurl", "c.hurl"},
           posts |-> {<<"users">>, <<>>, <<"{id}">>},
           base |-> TRUE, changed |-> {"own_gate.py", "health_gate.py", "deleted_gate.py"},
           registered |-> [g1 |-> "own_gate.py"], before |-> {}]
Second == [First EXCEPT !.sha = "two", !.works = {"a.hurl"}, !.changed = {},
           !.record = <<Scenario("a", "hurl", None), Scenario("e", "hurl", None)>>,
           !.registered = [g1 |-> "own_gate.py", g2 |-> "other_gate.py"], !.before = {"g2"}]
MCDecorated == {<<"b (two)", "b">>}
MCCandidate == r1 :> First @@ r2 :> Second @@ r3 :> First
MCPathOf == [f \in {"own_gate.py", "health_gate.py", "other_gate.py"} |->
               IF f = "other_gate.py" THEN None ELSE <<"users", "count">>]
MCNotOwn == {"health_gate.py"}
=============================================================================
