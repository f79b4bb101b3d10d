---------------------------- MODULE TestCommands ----------------------------
(***************************************************************************)
(* What a command that runs tests may prove                                *)
(* (nexus/verification_evidence.py).  A command is the form in which it    *)
(* names its tests and the test files it names; the runners differ only in *)
(* what their output shows.                                                *)
(***************************************************************************)

\* A whole suite; files or nodes; a selector the parser knows as a word of its own (-k name); an
\* option it does not know that narrows the run all the same (-kname, --ignore=..., -run=...); an
\* assertion script of the workspace; anything else: chained, interpolated or no test at all.
Forms == {"suite", "paths", "selector", "joined", "script", "other"}

Command(form, targets) == [form |-> form, targets |-> targets]

\* analyse_test_command
Analyse(command, present) ==
    [valid |-> /\ command.form # "other"
               /\ command.form = "script" => command.targets \subseteq present,
     scope |-> CASE command.form \in {"suite", "joined"} -> "full_suite"
                 [] command.form \in {"paths", "selector"} -> "targeted"
                 [] command.form = "script" -> "script"
                 [] OTHER -> "unknown",
     targets |-> IF command.form \in {"paths", "script"} THEN command.targets ELSE {}]

\* The test files that the command may in fact run.
MayRun(command, present) ==
    CASE command.form = "suite" -> {present}
      [] command.form \in {"paths", "script"} -> {command.targets \intersect present}
      [] command.form \in {"selector", "joined"} -> SUBSET present
      [] OTHER -> {{}}

\* What the output shows: a number of tests, the runner's own mark of success, nothing, or nothing
\* but from a script with assertions in its text.
Shown == {"count", "marker", "silent", "asserting"}

\* validate_test_execution: a run that returned zero and let see that tests were executed.
ValidExecution(profile, ran, passed, shown) ==
    /\ profile.valid /\ passed
    /\ \/ shown = "count" /\ ran # {}
       \/ shown = "marker"
       \/ shown = "asserting" /\ profile.scope = "script"
=============================================================================
