--------------------------- MODULE Collaboration ---------------------------
(***************************************************************************)
(* A multi-agent run: LeadOrchestrator.run_collaboration with the          *)
(* assignment graph, the scope reservations, the worker lifecycle, the     *)
(* workers and the review (nexus/collaboration).  The integration of the   *)
(* approved results is module LeadIntegration; here it is one step.        *)
(*                                                                         *)
(* The orchestrator and the workers are coroutines of one event loop;      *)
(* provider and tool calls are threads, which a timeout abandons but does  *)
(* not stop.  Prompts, evidence, costs, events and the blackboard, which   *)
(* only repeats the run state, are left out.                               *)
(***************************************************************************)
EXTENDS Naturals, FiniteSets

CONSTANTS
    Workers,   \* assignments, numbered in the order they are given
    Teams,     \* what a lead may ask for: dependencies, mutators and scopes
    MaxCalls,  \* budget.max_model_calls
    MaxTools,  \* budget.max_tool_calls
    MaxRetries \* budget.max_retries

ASSUME TeamAssumption ==
    /\ Workers \subseteq Nat /\ IsFiniteSet(Workers)
    /\ \A t \in Teams : t.deps \in [Workers -> SUBSET Workers] /\ t.mutates \subseteq Workers
    /\ \A t \in Teams : DOMAIN t.scope = Workers
    /\ {MaxCalls, MaxTools, MaxRetries} \subseteq Nat

VARIABLES
    team,                  \* the assignments: dependencies, mutators and scopes
    teamPc,                \* the step of run_collaboration
    outcome,               \* how it ended
    registered,            \* assignments of the graph
    reserved,              \* assignments holding their exclusive reservation
    expired,               \* the reservations are older than their TTL
    launched,              \* assignments of the groups started so far
    wpc,                   \* the step of each worker
    result,                \* status of its AssignmentResult
    calls, tools, retries, \* what each worker has used
    changes,               \* proposed_changes: mutations the worker may report
    written,               \* mutations really made in its workspace
    checked,               \* mutations its local verification saw
    orphans,               \* workers whose tool thread outlives them
    spaces,                \* isolated workspaces on disk
    cancelled, events,     \* cancel_all and the workers' cancellation events
    approved,              \* accepted by the review
    integrated,            \* applied to the lead workspace
    teamSaved              \* the state of the persisted run, which knows no results

teamVars == <<team, teamPc, outcome, registered, reserved, expired, launched, wpc, result, calls,
              tools, retries, changes, written, checked, orphans, spaces, cancelled, events,
              approved, integrated, teamSaved>>
plan == <<team, registered>>
usage == <<calls, tools, retries>>
work == <<changes, written, checked>>
signals == <<cancelled, events>>
verdict == <<approved, integrated>>
worker == <<wpc, result, usage, work, orphans>>

Finished == {"COMPLETED", "LOCALLY_VALIDATED"}
Statuses == Finished \cup {"none", "BLOCKED", "FAILED", "TIMED_OUT", "INVALID"}

TeamInit ==
    /\ team \in Teams
    /\ teamPc = "analyzing" /\ outcome = "none"
    /\ registered = {} /\ reserved = {} /\ expired = FALSE /\ launched = {}
    /\ wpc = [w \in Workers |-> "none"] /\ result = [w \in Workers |-> "none"]
    /\ calls = [w \in Workers |-> 0] /\ tools = [w \in Workers |-> 0]
    /\ retries = [w \in Workers |-> 0]
    /\ changes = [w \in Workers |-> 0] /\ written = [w \in Workers |-> 0]
    /\ checked = [w \in Workers |-> 0]
    /\ orphans = {} /\ spaces = {} /\ cancelled = FALSE /\ events = {}
    /\ approved = {} /\ integrated = {}
    /\ teamSaved = "none"

Deps == team.deps
Mutates == team.mutates
scope == team.scope

LeastOf(S) == CHOOSE x \in S : \A y \in S : x <= y
End(how) == teamPc' = "done" /\ outcome' = how

\* _cleanup_all: every reservation is released, every workspace removed; the
\* removal of one may fail.
Cleanup ==
    /\ reserved' = {}
    /\ spaces' \in SUBSET spaces

-----------------------------------------------------------------------------
(* run_collaboration up to the workers                                     *)

\* The decision, SINGLE_AGENT for a disabled policy, a trivial or coupled
\* task or a small budget, sets a mode that nothing below reads.
Decide ==
    /\ teamPc = "analyzing"
    /\ teamPc' = "registering"
    /\ UNCHANGED <<outcome, plan, reserved, expired, launched, worker, spaces, signals, verdict,
                   teamSaved>>

\* An assignment is rejected when it has no outputs or checks, or depends on
\* one that is not registered before it.
Register ==
    /\ teamPc = "registering"
    /\ IF registered = Workers
         THEN teamPc' = "reserving" /\ UNCHANGED <<outcome, registered>>
         ELSE LET w == LeastOf(Workers \ registered)
              IN \/ /\ Deps[w] \subseteq registered
                    /\ registered' = registered \cup {w}
                    /\ UNCHANGED <<teamPc, outcome>>
                 \/ End("FAILED") /\ UNCHANGED registered
    /\ UNCHANGED <<team, reserved, expired, launched, worker, spaces, signals, verdict,
                   teamSaved>>

\* Reservations are tried in the order of the assignments; one that names no
\* path has none.
Unreserved == {w \in Mutates : scope[w] # {} /\ \A v \in reserved : v < w} \ reserved

Overlaps(w) == \E v \in reserved : scope[v] \cap scope[w] # {}

Reserve ==
    /\ teamPc = "reserving"
    /\ IF Unreserved = {}
         THEN teamPc' = "preparing" /\ UNCHANGED <<outcome, reserved>>
         ELSE LET w == LeastOf(Unreserved)
              IN IF Overlaps(w)
                   THEN End("FAILED") /\ UNCHANGED reserved
                   ELSE reserved' = reserved \cup {w} /\ UNCHANGED <<teamPc, outcome>>
    /\ UNCHANGED <<plan, expired, launched, worker, spaces, signals, verdict, teamSaved>>

\* The run is saved before any worker has run.
Prepare ==
    /\ teamPc = "preparing"
    /\ teamPc' = "running"
    /\ teamSaved' = "preparing_workers"
    /\ UNCHANGED <<outcome, plan, reserved, expired, launched, worker, spaces, signals, verdict>>

-----------------------------------------------------------------------------
(* Groups of workers                                                       *)

\* find_parallel_groups: the next topological level.
Group == {w \in Workers \ launched : Deps[w] \subseteq launched}

\* _run_group: a workspace for every mutating member, then one task each.
Launch ==
    /\ teamPc = "running" /\ ~cancelled /\ Group # {}
    /\ launched' = launched \cup Group
    /\ spaces' = spaces \cup (Group \cap Mutates)
    /\ wpc' = [w \in Workers |-> IF w \in Group THEN "loop" ELSE wpc[w]]
    /\ teamPc' = "gathering"
    /\ UNCHANGED <<outcome, plan, reserved, expired, result, usage, work, orphans, signals,
                   verdict, teamSaved>>

\* create_worker or prepare_workspace raises (git write-tree, the copy): the
\* exception leaves run_collaboration and the tasks made so far never start.
LaunchFails ==
    /\ teamPc = "running" /\ ~cancelled /\ Group # {}
    /\ \E made \in SUBSET (Group \cap Mutates) : spaces' = spaces \cup made
    /\ End("raised")
    /\ UNCHANGED <<plan, reserved, expired, launched, worker, signals, verdict, teamSaved>>

\* gather returns when every worker of the group has returned.
Gathered ==
    /\ teamPc = "gathering"
    /\ \A w \in launched : wpc[w] = "ended"
    /\ teamPc' = "running"
    /\ UNCHANGED <<outcome, plan, reserved, expired, launched, worker, spaces, signals, verdict,
                   teamSaved>>

\* After the last group, or a cancelled one.
WorkersDone ==
    /\ teamPc = "running" /\ (cancelled \/ Group = {})
    /\ IF cancelled THEN End("CANCELLED") /\ Cleanup
                    ELSE teamPc' = "reviewing" /\ UNCHANGED <<outcome, reserved, spaces>>
    /\ UNCHANGED <<plan, expired, launched, worker, signals, verdict, teamSaved>>

-----------------------------------------------------------------------------
(* WorkerRuntime.execute                                                   *)

Step(w, s) == wpc' = [wpc EXCEPT ![w] = s]
Result(w, status) == Step(w, "ended") /\ result' = [result EXCEPT ![w] = status]
SameOrchestrator == UNCHANGED <<teamPc, outcome, plan, reserved, expired, launched, spaces,
                                signals, verdict, teamSaved>>

\* The head of the loop: the event, the call budget, then the provider.
Ask(w) ==
    /\ wpc[w] = "loop"
    /\ IF w \in events \/ calls[w] >= MaxCalls
         THEN Result(w, "BLOCKED")
         ELSE Step(w, "asking") /\ UNCHANGED result
    /\ UNCHANGED <<usage, work, orphans>> /\ SameOrchestrator

Answered(w) == wpc[w] = "asking" /\ calls' = [calls EXCEPT ![w] = @ + 1]

\* Output that is not the protocol is retried, then given up.
AnswerInvalid(w) ==
    /\ Answered(w)
    /\ retries' = [retries EXCEPT ![w] = @ + 1]
    /\ IF retries[w] >= MaxRetries THEN Result(w, "BLOCKED")
                                   ELSE Step(w, "loop") /\ UNCHANGED result
    /\ UNCHANGED <<tools, work, orphans>> /\ SameOrchestrator

\* The worker gives up, its budget is exceeded, or the provider raises.
AnswerEnds(w) ==
    /\ Answered(w)
    /\ \E status \in {"BLOCKED", "FAILED"} : Result(w, status)
    /\ UNCHANGED <<tools, retries, work, orphans>> /\ SameOrchestrator

AnswerTools(w) ==
    /\ Answered(w)
    /\ Step(w, "tools")
    /\ UNCHANGED <<tools, retries, result, work, orphans>> /\ SameOrchestrator

\* The final answer: a mutating worker must have changed something and pass
\* the local verification.
AnswerFinal(w) ==
    /\ Answered(w)
    /\ IF w \notin Mutates THEN Result(w, "COMPLETED")
       ELSE IF changes[w] = 0 THEN Result(w, "BLOCKED")
       ELSE Step(w, "verifying") /\ UNCHANGED result
    /\ UNCHANGED <<tools, retries, work, orphans>> /\ SameOrchestrator

\* A request is checked against the event, the budget, the scope and the
\* reservation before the tool runs; a tool that only reads needs none.
MayWrite(w) == w \in reserved /\ ~expired

ToolStarts(w) ==
    /\ wpc[w] = "tools"
    /\ tools' = [tools EXCEPT ![w] = @ + 1]
    /\ \E kind \in {"reading", "writing"} :
          IF \/ w \in events \/ tools[w] >= MaxTools
             \/ kind = "writing" /\ (w \notin Mutates \/ ~MayWrite(w))
            THEN Result(w, "BLOCKED")
            ELSE Step(w, kind) /\ UNCHANGED result
    /\ UNCHANGED <<calls, retries, work, orphans>> /\ SameOrchestrator

Wrote(w) == written' = [written EXCEPT ![w] = @ + 1]

\* The tool succeeds; what it changed must be in scope and still reserved.
ToolSucceeds(w) ==
    /\ wpc[w] \in {"reading", "writing"}
    /\ IF wpc[w] = "writing"
         THEN /\ Wrote(w)
              /\ IF MayWrite(w)
                   THEN /\ changes' = [changes EXCEPT ![w] = @ + 1]
                        /\ \E s \in {"tools", "loop"} : Step(w, s)
                        /\ UNCHANGED result
                   ELSE Result(w, "BLOCKED") /\ UNCHANGED changes
         ELSE /\ \E s \in {"tools", "loop"} : Step(w, s)
              /\ UNCHANGED <<result, written, changes>>
    /\ UNCHANGED <<usage, checked, orphans>> /\ SameOrchestrator

\* The tool fails, or has changed a path outside the scope.
ToolFails(w) ==
    /\ wpc[w] \in {"reading", "writing"}
    /\ \E status \in {"FAILED", "BLOCKED"} : Result(w, status)
    /\ (wpc[w] = "writing" /\ Wrote(w)) \/ UNCHANGED written
    /\ UNCHANGED <<usage, changes, checked, orphans>> /\ SameOrchestrator

\* The local verification; a result may still break the result schema.
LocallyVerified(w) ==
    /\ wpc[w] = "verifying"
    /\ checked' = [checked EXCEPT ![w] = written[w]]
    /\ \E status \in {"LOCALLY_VALIDATED", "INVALID", "FAILED"} : Result(w, status)
    /\ UNCHANGED <<usage, changes, written, orphans>> /\ SameOrchestrator

\* Faulty variant: the changes seen so far are reported.
TimeoutKeepsChanges(w) ==
    /\ wpc[w] \in {"asking", "reading", "writing", "verifying"}
    /\ Result(w, IF changes[w] > 0 THEN "LOCALLY_VALIDATED" ELSE "TIMED_OUT")
    /\ orphans' = IF wpc[w] = "writing" THEN orphans \cup {w} ELSE orphans
    /\ UNCHANGED <<usage, work>> /\ SameOrchestrator

\* wait_for: the coroutine is cancelled at its await; its thread runs on.
Timeout(w) ==
    /\ wpc[w] \in {"asking", "reading", "writing", "verifying"}
    /\ Result(w, "TIMED_OUT")
    /\ orphans' = IF wpc[w] = "writing" THEN orphans \cup {w} ELSE orphans
    /\ UNCHANGED <<usage, work>> /\ SameOrchestrator

\* An abandoned mutating tool thread ends, perhaps with a mutation.
OrphanEnds(w) ==
    /\ w \in orphans
    /\ orphans' = orphans \ {w}
    /\ Wrote(w) \/ UNCHANGED written
    /\ UNCHANGED <<wpc, result, usage, changes, checked>> /\ SameOrchestrator

Work(w) ==
    \/ Ask(w) \/ AnswerInvalid(w) \/ AnswerEnds(w) \/ AnswerTools(w) \/ AnswerFinal(w)
    \/ ToolStarts(w) \/ ToolSucceeds(w) \/ ToolFails(w) \/ LocallyVerified(w) \/ Timeout(w)

-----------------------------------------------------------------------------
(* Review, integration and the end                                         *)

\* What the review can approve; its other rules may reject any of them.
Reviewable == {w \in launched : result[w] \in Finished}

Review ==
    /\ teamPc = "reviewing"
    /\ approved' \in SUBSET Reviewable
    /\ teamPc' = "integrating"
    /\ UNCHANGED <<outcome, plan, reserved, expired, launched, worker, spaces, signals,
                   integrated, teamSaved>>

\* integrate: nothing approved, or nothing committed, ends in FAILED; what is
\* committed has passed the central verification.
Integrate ==
    /\ teamPc = "integrating"
    /\ \/ /\ End("FAILED") /\ Cleanup /\ UNCHANGED integrated
       \/ /\ \E who \in SUBSET approved \ {{}} : integrated' = who
          /\ teamPc' = "completing"
          /\ UNCHANGED <<outcome, reserved, spaces>>
    /\ UNCHANGED <<plan, expired, launched, worker, signals, approved, teamSaved>>

\* A patch that does not apply raises through run_collaboration.
IntegrateRaises ==
    /\ teamPc = "integrating" /\ approved # {}
    /\ End("raised")
    /\ UNCHANGED <<plan, reserved, expired, launched, worker, spaces, signals, verdict,
                   teamSaved>>

Complete ==
    /\ teamPc = "completing"
    /\ End("COMPLETED")
    /\ teamSaved' = "completed"
    /\ Cleanup
    /\ UNCHANGED <<plan, expired, launched, worker, signals, verdict>>

-----------------------------------------------------------------------------
(* The surroundings                                                        *)

\* cancel_all, from another coroutine: only while the run awaits its workers,
\* or before it starts.  Events exist for the workers launched so far.
CancelAll ==
    /\ teamPc \in {"analyzing", "gathering"} /\ ~cancelled
    /\ cancelled' = TRUE
    /\ events' = launched
    /\ UNCHANGED <<teamPc, outcome, plan, reserved, expired, launched, worker, spaces, verdict,
                   teamSaved>>

\* Ten minutes after the reservations were made.
Expire ==
    /\ teamPc \in {"running", "gathering"} /\ reserved # {} /\ ~expired
    /\ expired' = TRUE
    /\ UNCHANGED <<teamPc, outcome, plan, reserved, launched, worker, spaces, signals, verdict,
                   teamSaved>>

\* The process is killed.
Kill ==
    /\ teamPc # "done"
    /\ End("killed")
    /\ UNCHANGED <<plan, reserved, expired, launched, worker, spaces, signals, verdict,
                   teamSaved>>

Orchestrate ==
    \/ Decide \/ Register \/ Reserve \/ Prepare \/ Launch \/ LaunchFails \/ Gathered
    \/ WorkersDone \/ Review \/ Integrate \/ IntegrateRaises \/ Complete

TeamNext ==
    \/ Orchestrate
    \/ \E w \in Workers : (teamPc = "gathering" /\ Work(w)) \/ (outcome # "killed" /\ OrphanEnds(w))
    \/ CancelAll \/ Expire \/ Kill

\* The event loop runs every ready coroutine; every await of a worker ends by
\* its answer or by the timeout.
Fairness ==
    /\ WF_teamVars(Orchestrate)
    /\ \A w \in Workers : WF_teamVars(teamPc = "gathering" /\ Work(w))

TeamSpec == TeamInit /\ [][TeamNext]_teamVars
FairTeam == TeamSpec /\ Fairness

-----------------------------------------------------------------------------
\* Type invariant of the run state and of the workers.
TeamTypeOK ==
    /\ teamPc \in {"analyzing", "registering", "reserving", "preparing", "running", "gathering",
               "reviewing", "integrating", "completing", "done"}
    /\ outcome \in {"none", "COMPLETED", "FAILED", "CANCELLED", "raised", "killed"}
    /\ UNION {registered, reserved, launched, orphans, spaces, events, approved, integrated}
           \subseteq Workers
    /\ \A w \in Workers :
          /\ wpc[w] \in {"none", "loop", "asking", "tools", "reading", "writing", "verifying", "ended"}
          /\ result[w] \in Statuses
          /\ calls[w] <= MaxCalls /\ tools[w] <= MaxTools + 1 /\ retries[w] <= MaxRetries + 1

\* A worker starts only when every assignment it depends on has returned
\* (find_parallel_groups runs topological levels one after the other).
DependenciesReturned ==
    \A w \in launched : \A d \in Deps[w] : wpc[d] = "ended"

\* Two workers never run mutating tools in overlapping scopes (the exclusive
\* reservations of ScopeReservationRegistry).
ScopesDisjoint ==
    \A v, w \in Mutates :
        v # w /\ {wpc[v], wpc[w]} = {"writing"} => scope[v] \cap scope[w] = {}

\* What reaches the lead workspace is exactly what a local verification saw:
\* no later mutation, none by an abandoned thread, nothing of a worker that
\* failed, timed out or was refused.
VerifiedIsIntegrated ==
    \A w \in integrated \cap Mutates :
        written[w] = checked[w] /\ changes[w] = checked[w] /\ checked[w] > 0

\* A run that was cancelled changes nothing and does not complete.
CancelledStaysOut == cancelled => integrated = {} /\ outcome # "COMPLETED"

\* What a team may rely on.
TeamSound == DependenciesReturned /\ ScopesDisjoint /\ VerifiedIsIntegrated /\ CancelledStaysOut

\* Every run returns, raises or is killed.
RunEnds == <>(teamPc = "done")
=============================================================================
