-------------------------------- MODULE NovaTurn --------------------------------
(* A turn that the local model works on: alone (ExecutionPipeline._run_nova_turn with
   nova_backend.py) or as the intern of a hosted model, the ceiling (_run_two_node_turn with
   two_node_backend.py).  Both parse the strict protocol of nova_runtime.py, try every candidate
   in a temporary tree, and hand what passed to the tools of the agent as calls.  How the tasks
   of a list are scheduled is TaskDag's; here is what becomes of each of them. *)
EXTENDS Naturals, Sequences, FiniteSets, SequencesExt

CONSTANTS
    Paths,      \* the files of the workspace that matter
    OnDisk,     \* their content at first, as a sequence of lines; <<>> is a missing file
    Named,      \* the paths that the request names, or that are ranked relevant to it
    Replies,    \* what a model may answer
    Lists,      \* how the ceiling may split the request
    Nodes       \* who works on the turn: a subset of {"nova", "two_node"}

ConstantsOK ==
    /\ DOMAIN OnDisk = Paths /\ Named \subseteq Paths /\ Nodes \subseteq {"nova", "two_node"}
    /\ \A r \in Replies :
           /\ r.wrapped \in BOOLEAN /\ r.thinking \in BOOLEAN /\ r.promises \in BOOLEAN /\ r.json \in BOOLEAN
           /\ r.text \in {"none", "answer", "empty"} /\ r.ends \in BOOLEAN
           /\ r.keeps \in BOOLEAN /\ r.compiles \in BOOLEAN
           /\ r.test \in {"none", "passes", "fails", "unsafe"}
           /\ \A a \in Range(r.actions) :
                  /\ a.path \in Paths /\ a.kind \in {"CREATE", "MODIFY", "DELETE"}
                  /\ a.shape \in {"whole", "patches", "diff", "dressed", "empty"}
    /\ \A l \in Lists : \A i \in DOMAIN l :
           /\ l[i].needs \subseteq DOMAIN l /\ l[i].names \subseteq Paths
           /\ l[i].expects \in Nat /\ l[i].scope \in {"atomic", "multi_file", "vague", "untagged"}
           /\ l[i].risky \in BOOLEAN /\ l[i].long \in BOOLEAN

VARIABLES
    node,       \* "nova" or "two_node"
    phase,      \* where the turn is
    tasks,      \* the tasks of this run of the backend
    status,     \* PlanStep.status of each
    kept,       \* the actions of the accepted candidate of each task
    work,       \* the task at hand: [task, who, tries, repaired]
    tree,       \* the verification workspace
    round,      \* runs of the backend in this turn
    disk,       \* the workspace of the agent
    todo,       \* tool calls that are still to be made
    refused,    \* a call of this round failed
    review,     \* the reviewer's answer: [approved, explained, findings]
    test,       \* the test command the local model declared
    asked,      \* calls of a model in this run of the backend
    says,       \* what the final text adds to the model's words
    messages    \* the roles the turn added to the conversation

vars == <<node, phase, tasks, status, kept, work, tree, round, disk, todo, refused, review, test,
          asked, says, messages>>
backend == <<tasks, status, kept, work, tree>>
outcome == <<says, messages>>

-----------------------------------------------------------------------------
(* The protocol (NovaOutputParser). *)

\* parse: JSON needs thinking and a body, and never a text beside files; the legacy form ends with
\* its first text, and finds files only inside its wrapper.  An empty file is dropped.
Usable(r) == SelectSeq(r.actions, LAMBDA a : a.shape # "empty" \/ a.kind = "DELETE")
ParsedFiles(r) == IF ~r.wrapped \/ (r.text # "none" /\ ~r.json) THEN <<>> ELSE Usable(r)

\* parse_errors.
Errors(r) ==
    \/ ~r.thinking
    \/ r.json /\ r.text = "answer" /\ r.actions # <<>>
    \/ ~r.json /\ r.text = "empty"
    \/ (r.json \/ r.text = "none") /\ (~r.wrapped \/ Usable(r) # r.actions)
    \/ r.text # "answer" /\ ParsedFiles(r) = <<>>
Valid(r) == r.ends /\ ~Errors(r)

\* _parse_ceiling_response: blocks of files are also found without the wrapper.
FoundFiles(r) == IF ParsedFiles(r) = <<>> /\ ~r.wrapped THEN Usable(r)
                 ELSE IF Errors(r) THEN <<>> ELSE ParsedFiles(r)

-----------------------------------------------------------------------------
(* Writing a candidate, and the calls that are to repeat it. *)

Occurrences(content, line) == Cardinality({i \in DOMAIN content : content[i] = line})

\* Old text is replaced when it occurs exactly once; Failed otherwise.
Failed == <<"failed">>
Replaced(content, edit) ==
    IF content = Failed \/ Occurrences(content, edit[1]) # 1 THEN Failed
    ELSE [i \in DOMAIN content |-> IF content[i] = edit[1] THEN edit[2] ELSE content[i]]

\* What the model wrote, markers and all, and what is left when they are taken off.
Raw(a) == IF a.shape \in {"dressed", "patches", "diff"} THEN <<"marker">> \o a.text ELSE a.text
Bare(a) == a.text

\* TestExecutor.write_files, for one file.
WrittenFile(content, a) ==
    CASE a.kind = "DELETE" -> Failed
      [] a.kind = "CREATE" /\ content # <<>> -> Failed
      [] a.kind = "MODIFY" /\ a.shape = "patches" -> FoldLeft(Replaced, content, a.edits)
      [] OTHER -> IF Raw(a) = <<>> THEN Failed ELSE Raw(a)

Written(files, actions) ==
    FoldLeft(LAMBDA fs, a : [fs EXCEPT ![a.path] = WrittenFile(fs[a.path], a)], files, actions)
Broken(files) == \E p \in Paths : files[p] = Failed

\* _file_action_to_tool_calls: patches and diffs become edits, the rest one write of the content
\* without its markers.  A deletion, or nothing, is an error.
ToolCalls(a) ==
    IF (a.kind = "MODIFY" /\ a.shape = "patches") \/ a.shape = "diff"
    THEN [i \in DOMAIN a.edits |-> [tool |-> "edit_file", path |-> a.path, edit |-> a.edits[i]]]
    ELSE <<[tool |-> "write_file", path |-> a.path, text |-> Bare(a)]>>
NoCalls(a) == a.kind = "DELETE" \/ (Bare(a) = <<>> /\ a.edits = <<>>)
AllCalls(actions) == FoldLeft(LAMBDA calls, a : calls \o ToolCalls(a), <<>>, actions)

\* The tools edit_file and write_file; _materialize_proposals does the same in a directory.
Called(files, call) ==
    [files EXCEPT ![call.path] =
        IF call.tool = "write_file" THEN call.text
        ELSE IF @ = <<>> THEN Failed ELSE Replaced(@, call.edit)]
Materialised(files, calls) ==
    FoldLeft(LAMBDA fs, call : IF Broken(fs) THEN fs ELSE Called(fs, call), files, calls)

\* _seed_verification_workspace and _seed_workspace copy what is named, as far as it exists.
Seeded(files) == [p \in Paths |-> IF p \in Named THEN files[p] ELSE <<>>]

-----------------------------------------------------------------------------
(* The gates. *)

\* TaskGuardrail.pre_check: a vague task, or one without an exact size, is not started.
PreCheck(t) ==
    /\ t.scope \in {"atomic", "multi_file"} /\ t.expects >= 1
    /\ t.scope = "atomic" => t.expects = 1

\* post_check and thinking_files_consistency_check.
CountIsRight(t, r) == r.text = "answer" \/ Len(ParsedFiles(r)) = t.expects
KeepsPromise(r) == r.promises => ParsedFiles(r) # <<>>

PathsOf(actions) == {a.path : a \in Range(actions)}

\* _validate_response: the calls themselves are repeated, and checked, in a second directory.
NovaAccepts(t, r) ==
    LET actions == ParsedFiles(r)
    IN  /\ Valid(r) /\ CountIsRight(t, r) /\ KeepsPromise(r) /\ r.keeps
        /\ Named # {} => PathsOf(actions) = Named /\ Len(actions) = Cardinality(Named)
        /\ ~Broken(Written(Seeded(disk), actions))
        /\ \A a \in Range(actions) : ~NoCalls(a)
        /\ ~Broken(Materialised(Seeded(disk), AllCalls(actions)))
        /\ r.compiles

\* _run_model_test_command.
TestAllows(r) == r.test \in {"none", "passes"}

\* _check_intern_response; the checks read what is in the files, markers included.
InternAccepts(t, r) ==
    LET actions == ParsedFiles(r)
    IN  /\ Valid(r) /\ r.keeps
        /\ Cardinality(Named) = 1 /\ Len(actions) = 1 => PathsOf(actions) = Named
        /\ ~Broken(Written(tree, actions))
        /\ CountIsRight(t, r) /\ KeepsPromise(r) /\ r.compiles /\ TestAllows(r)

\* The checks in _escalate_to_ceiling: files without errors, which may be found outside the
\* protocol, and no look at their number, at the promise or at names of functions.
CeilingAccepts(t, r) ==
    LET actions == FoundFiles(r)
        expected == IF Named # {} THEN Named ELSE t.names
    IN  /\ actions # <<>> /\ r.keeps
        /\ Cardinality(expected) = 1 => Len(actions) = 1 /\ PathsOf(actions) = expected
        /\ ~Broken(Written(tree, actions))
        /\ r.compiles /\ TestAllows(r)

\* _route_task: the intern gets one small, explicit and harmless file at a time.
RouteTask(t) ==
    IF t.scope # "vague" /\ t.expects = 1 /\ Cardinality(t.names) = 1 /\ ~t.risky /\ ~t.long
    THEN "intern" ELSE "ceiling"

-----------------------------------------------------------------------------
NoWork == [task |-> 0, who |-> "nobody", tries |-> 0, repaired |-> FALSE]
NoReview == [approved |-> FALSE, explained |-> TRUE, findings |-> FALSE]

Init ==
    /\ node \in Nodes /\ phase = "start" /\ tasks = <<>> /\ status = <<>> /\ kept = <<>>
    /\ work = NoWork /\ tree = [p \in Paths |-> <<>>] /\ round = 0 /\ disk = OnDisk
    /\ todo = <<>> /\ refused = FALSE /\ review = NoReview /\ test = "none" /\ asked = 0
    /\ says = {} /\ messages = <<>>

\* The one task of a turn without a ceiling, and the task when a request cannot be split.
WholeRequest ==
    [needs |-> {}, names |-> Named, risky |-> FALSE, long |-> FALSE,
     expects |-> IF Named = {} THEN 1 ELSE Cardinality(Named),
     scope |-> IF Cardinality(Named) <= 1 THEN "atomic" ELSE "multi_file"]
Undivided == [WholeRequest EXCEPT !.scope = IF Named = {} THEN "vague" ELSE "atomic"]

\* TwoNodeBackend.run begins, with tasks that decompose found or fell back to.
Divided(list) ==
    /\ tasks' = list /\ status' = [i \in DOMAIN list |-> "pending"]
    /\ kept' = [i \in DOMAIN list |-> <<>>]
    /\ work' = NoWork /\ tree' = Seeded(disk) /\ asked' = 1
    /\ round' = round + 1 /\ refused' = FALSE /\ review' = NoReview

StartTwoNode ==
    /\ node = "two_node" /\ phase = "start"
    /\ \E list \in Lists \cup {<<Undivided>>} : Divided(list)
    /\ messages' = <<"user">> /\ phase' = "tasks"
    /\ UNCHANGED <<node, disk, todo, test, says>>

StartNova ==
    /\ node = "nova" /\ phase = "start"
    /\ tasks' = <<WholeRequest>> /\ status' = <<"in_progress">> /\ kept' = <<<<>>>>
    /\ round' = 1 /\ messages' = <<"user">>
    /\ work' = [NoWork EXCEPT !.task = 1, !.who = "nova"]
    /\ phase' = IF PreCheck(WholeRequest) THEN "tasks" ELSE "answered"
    /\ UNCHANGED <<node, tree, disk, todo, refused, review, test, asked, says>>

\* execute_step: a task whose needs are met, by its route.
Take ==
    /\ node = "two_node" /\ phase = "tasks" /\ work = NoWork
    /\ \E i \in DOMAIN tasks :
          /\ status[i] = "pending" /\ \A n \in tasks[i].needs : status[n] = "completed"
          /\ status' = [status EXCEPT ![i] = "in_progress"]
          /\ work' = [task |-> i, who |-> RouteTask(tasks[i]), tries |-> 0, repaired |-> FALSE]
    /\ UNCHANGED <<node, phase, tasks, kept, tree, round, disk, todo, refused, review, test,
                   asked, outcome>>

Task == tasks[work.task]

\* An attempt that is not accepted: two are made, by whoever makes them.
Again == work.tries = 0 /\ work' = [work EXCEPT !.tries = 1] /\ UNCHANGED <<phase, status>>
Fails == work' = NoWork /\ status' = [status EXCEPT ![work.task] = "failed"]

\* Then the local model gives up, and the kernel repairs a task once, with the ceiling.
Refuse ==
    \/ Again
    \/ /\ work.tries = 1 /\ ~work.repaired
       /\ work' = [work EXCEPT !.who = "ceiling", !.tries = 0, !.repaired = TRUE]
       /\ UNCHANGED <<phase, status>>
    \/ work.tries = 1 /\ work.repaired /\ Fails /\ UNCHANGED phase

\* NovaPipelineBackend.run: a text ends the turn; so does a candidate that passes, whose calls are
\* then made.
NovaReplies(r) ==
    /\ work.who = "nova"
    /\ asked' = asked + 1
    /\ \/ /\ r.text = "answer"
          /\ phase' = "answered" /\ work' = NoWork
          /\ UNCHANGED <<status, kept, tree, todo, test>>
       \/ /\ r.text # "answer" /\ NovaAccepts(Task, r)
          /\ kept' = <<ParsedFiles(r)>> /\ status' = <<"completed">> /\ work' = NoWork
          /\ tree' = Materialised(Seeded(disk), AllCalls(ParsedFiles(r)))
          /\ todo' = AllCalls(ParsedFiles(r)) /\ test' = r.test /\ phase' = "applying"
       \/ /\ r.text # "answer" /\ ~NovaAccepts(Task, r)
          /\ Again \/ (work.tries = 1 /\ Fails /\ phase' = "answered")
          /\ UNCHANGED <<kept, tree, todo, test>>
    /\ UNCHANGED <<node, tasks, round, disk, refused, review, outcome>>

\* Faulty variant: candidates are tried in the shared tree.
PromotedWhatever(ok, actions) ==
    IF Broken(Written(tree, actions)) THEN tree ELSE Written(tree, actions)

\* Only an accepted candidate is copied into the shared tree (_promote_candidate_files).
Promoted(ok, actions) == IF ok THEN Written(tree, actions) ELSE tree

\* _execute_with_intern and _escalate_to_ceiling: an accepted candidate is promoted and turned
\* into calls, which may fail the whole turn; an answer without files completes nothing.
CandidateReplies(r) ==
    /\ work.who \in {"intern", "ceiling"}
    /\ work.who = "intern" => PreCheck(Task)
    /\ LET ok == IF work.who = "intern" THEN InternAccepts(Task, r) ELSE CeilingAccepts(Task, r)
           actions == IF work.who = "intern" THEN ParsedFiles(r) ELSE FoundFiles(r)
       IN  /\ asked' = asked + 1 /\ tree' = Promoted(ok, actions)
           /\ \/ /\ ok /\ actions # <<>> /\ \A a \in Range(actions) : ~NoCalls(a)
                 /\ kept' = [kept EXCEPT ![work.task] = actions]
                 /\ status' = [status EXCEPT ![work.task] = "completed"]
                 /\ work' = NoWork /\ UNCHANGED <<phase, messages>>
              \/ /\ ok /\ actions # <<>> /\ \E a \in Range(actions) : NoCalls(a)
                 /\ phase' = "raised" /\ messages' = IF round = 1 THEN <<>> ELSE messages
                 /\ UNCHANGED <<status, kept, work>>
              \/ /\ ok /\ actions = <<>>
                 /\ work' = [work EXCEPT !.who = "ceiling", !.tries = 0, !.repaired = TRUE]
                 /\ UNCHANGED <<phase, status, kept, messages>>
              \/ /\ ~ok /\ Refuse /\ UNCHANGED <<kept, messages>>
    /\ UNCHANGED <<node, tasks, round, disk, todo, refused, review, test, says>>

\* A task that the guardrail does not let the intern begin goes to the ceiling, as its repair.
NotForIntern ==
    /\ phase = "tasks" /\ work.who = "intern" /\ ~PreCheck(Task)
    /\ work' = [work EXCEPT !.who = "ceiling", !.repaired = TRUE]
    /\ UNCHANGED <<node, phase, tasks, status, kept, tree, round, disk, todo, refused, review,
                   test, asked, outcome>>

Reply == phase = "tasks" /\ \E r \in Replies : NovaReplies(r) \/ CandidateReplies(r)

\* The local model cannot be reached, or the ceiling fails in a way that is not retried: the turn
\* ends.  Only the first run of the backend takes the request back from the conversation.
Raise ==
    /\ phase = "tasks" /\ work # NoWork
    /\ phase' = "raised" /\ messages' = IF round = 1 THEN <<>> ELSE messages
    /\ UNCHANGED <<node, backend, round, disk, todo, refused, review, test, asked, says>>

\* A call of the ceiling times out or is refused by the network: an attempt is used up.
CeilingFails ==
    /\ phase = "tasks" /\ work.who = "ceiling"
    /\ Refuse
    /\ UNCHANGED <<node, tasks, kept, tree, round, disk, todo, refused, review, test, asked,
                   outcome>>

Stuck == \A i \in DOMAIN tasks : ~(/\ status[i] \in {"pending", "in_progress"}
                                   /\ \A n \in tasks[i].needs : status[n] = "completed")

\* The reviewer is asked when every task is done; its answer may lack a summary or findings.
Review ==
    /\ node = "two_node" /\ phase = "tasks" /\ work = NoWork /\ Stuck
    /\ IF \A i \in DOMAIN tasks : status[i] = "completed"
       THEN /\ review' \in [approved : BOOLEAN, explained : BOOLEAN, findings : BOOLEAN]
            /\ asked' = asked + 1
       ELSE review' = NoReview /\ UNCHANGED asked
    /\ phase' = "reviewed"
    /\ UNCHANGED <<node, backend, round, disk, todo, refused, test, outcome>>

\* TwoNodeResult.proposals: none when the reviewer gave its reasons for a rejection, or a task
\* failed; otherwise those of all tasks.
Proposals == IF review.explained /\ ~review.approved THEN {}
             ELSE {i \in DOMAIN tasks : kept[i] # <<>>}

\* They are made in the order in which the tasks are listed.
InListOrder(chosen) ==
    FoldLeft(LAMBDA calls, i : calls \o (IF i \in chosen THEN AllCalls(kept[i]) ELSE <<>>),
             <<>>, [i \in DOMAIN tasks |-> i])

\* A rejection with findings starts the backend anew, once; the result of that run counts.
RepairReview ==
    /\ phase = "reviewed" /\ round = 1 /\ ~review.approved /\ review.findings
    /\ \E list \in Lists : Divided(list)
    /\ phase' = "tasks"
    /\ UNCHANGED <<node, disk, todo, test, outcome>>

BeginApply ==
    /\ phase = "reviewed" /\ (round = 1 => review.approved \/ ~review.findings)
    /\ round = 3 => review.approved
    /\ todo' = InListOrder(Proposals)
    /\ phase' = "applying"
    /\ UNCHANGED <<node, backend, round, disk, refused, review, test, asked, outcome>>

\* The repair after a failed verification is applied only when it was approved.
DropRepair ==
    /\ phase = "reviewed" /\ round = 3 /\ ~review.approved
    /\ phase' = "answered"
    /\ UNCHANGED <<node, backend, round, disk, todo, refused, review, test, asked, outcome>>

\* Every call is made, also after one that failed or that a gate refused.
Apply ==
    /\ phase = "applying" /\ todo # <<>>
    /\ todo' = Tail(todo)
    /\ LET after == Called(disk, Head(todo))
       IN  \/ ~Broken(after) /\ disk' = after /\ UNCHANGED refused
           \/ disk' = disk /\ refused' = TRUE
    /\ UNCHANGED <<node, phase, backend, round, review, test, asked, outcome>>

\* The declared test is run when everything was written.
TestNova ==
    /\ node = "nova" /\ phase = "applying" /\ todo = <<>>
    /\ says' = (IF refused THEN {"operation failed"} ELSE {})
               \cup (IF ~refused /\ test # "none" /\ test # "passes" THEN {"test failed"} ELSE {})
    /\ phase' = "answered"
    /\ UNCHANGED <<node, backend, round, disk, todo, refused, review, test, asked, messages>>

\* Verification follows what was written completely; when it fails the backend repairs, once more.
VerifyTwoNode ==
    /\ node = "two_node" /\ phase = "applying" /\ todo = <<>>
    /\ \/ phase' = "answered" /\ UNCHANGED <<backend, round, refused, review, asked>>
       \/ /\ round < 3 /\ ~refused /\ Proposals # {}
          /\ \E list \in Lists :
                /\ tasks' = list /\ status' = [i \in DOMAIN list |-> "pending"]
                /\ kept' = [i \in DOMAIN list |-> <<>>] /\ work' = NoWork
                /\ tree' = Seeded(disk) /\ asked' = 1 /\ round' = 3
                /\ refused' = FALSE /\ review' = NoReview
          /\ phase' = "tasks"
    /\ UNCHANGED <<node, disk, todo, test, outcome>>

Answer ==
    /\ phase = "answered"
    /\ messages' = Append(messages, "assistant")
    /\ phase' = "end"
    /\ UNCHANGED <<node, backend, round, disk, todo, refused, review, test, asked, says>>

Next ==
    \/ StartNova \/ StartTwoNode \/ Take \/ NotForIntern \/ Reply \/ Raise \/ CeilingFails
    \/ Review \/ RepairReview \/ BeginApply \/ DropRepair \/ Apply
    \/ TestNova \/ VerifyTwoNode \/ Answer

Spec == Init /\ [][Next]_vars

-----------------------------------------------------------------------------
TypeOK ==
    /\ node \in Nodes
    /\ phase \in {"start", "tasks", "reviewed", "applying", "answered", "raised", "end"}
    /\ DOMAIN status = DOMAIN tasks /\ DOMAIN kept = DOMAIN tasks
    /\ \A i \in DOMAIN status : status[i] \in {"pending", "in_progress", "completed", "failed"}
    /\ work.task \in 0..Len(tasks) /\ work.tries \in 0..1
    /\ work.who \in {"nobody", "nova", "intern", "ceiling"}
    /\ ~Broken(disk) /\ ~Broken(tree) /\ round \in 0..3
    /\ messages \in {<<>>, <<"user">>, <<"user", "assistant">>}
    /\ says \subseteq {"operation failed", "test failed"}

\* Where a repetition is one at all.  What was tested with its markers is not what is written without
\* them: the ceiling and the intern check the text that they write themselves.  And the kernel tests
\* tasks as they become ready (kernel.py:727), while their candidates are repeated in the order of
\* the list: that is the same for tasks that share no file, or whose order the dependencies give.
Dressed(a) == a.shape \in {"dressed", "diff"} \/ (a.shape = "patches" /\ a.kind = "CREATE")
InOrder(i, j) == i \in tasks[j].needs \/ PathsOf(kept[i]) \cap PathsOf(kept[j]) = {}
AsWritten ==
    \/ node = "nova"
    \/ /\ \A i \in DOMAIN tasks : \A a \in ToSet(kept[i]) : ~Dressed(a)
       /\ \A i, j \in DOMAIN tasks : i < j => InOrder(i, j)
Chosen == IF node = "nova" THEN {1} ELSE Proposals

\* "temporary-tree replay" (README.md:22): the calls that repeat the accepted candidates find what
\* they found in the temporary tree, none fails by itself, and they leave in the workspace what was
\* tested there, whatever was refused, retried and escalated before.
CandidatesRepeat ==
    phase = "applying" /\ ~refused /\ AsWritten =>
        /\ todo # <<>> => ~Broken(Called(disk, Head(todo)))
        /\ todo = <<>> => \A i \in Chosen : \A a \in ToSet(kept[i]) : disk[a.path] = tree[a.path]

\* "independent review": no call of the intern or the ceiling is made when the reviewer explained
\* its rejection, or when a task was not completed.
NothingUnreviewed ==
    phase = "applying" /\ node = "two_node" /\ todo # <<>> =>
        /\ \A i \in DOMAIN tasks : status[i] = "completed"
        /\ review.approved \/ ~review.explained

\* "bounded repair, escalation": two attempts of the local model, two or four of the ceiling on
\* a task, one split and one review in each of at most three runs.
AsksBounded ==
    asked <= IF node = "nova" THEN 2 ELSE 2 + 4 * Len(tasks)

CandidatesSound == CandidatesRepeat /\ NothingUnreviewed /\ AsksBounded
=============================================================================
