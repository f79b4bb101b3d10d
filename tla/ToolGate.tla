------------------------------- MODULE ToolGate -------------------------------
(***************************************************************************)
(* What a tool call passes before it runs (ToolExecutionController in      *)
(* nexus/tool_executor.py), and the approvals that the user gives          *)
(* (nexus/agent/core.py): the gates in their order, the queues of          *)
(* confirmations and of edits under review, the scope contract that edits  *)
(* consume.                                                                *)
(* A call is one of a few operations that differ in what the gates say of  *)
(* them.  One call runs at a time; between calls the user answers, changes *)
(* the mode, and edits the file that edits are shown against.              *)
(***************************************************************************)
EXTENDS Naturals, Sequences, FiniteSets, SequencesExt

CONSTANTS
    Operations,            \* the calls that the model makes
    Op,             \* what the gates know of each of them
    Allowed,        \* the files of the scope contract
    MaxChangedLines, MaxChangedFiles, ExpansionBudget,
    MaxToolCalls,   \* bound: calls by the model
    MaxAnswers,     \* bound: answers and edits by the user
    Modes           \* the modes that the user can choose

\* The gates of _execute_impl, in order.
GateOrder == <<"capability", "shell", "permission", "policy", "network", "scope", "outside",
               "package", "review", "hooks", "safety">>
GateSet == ToSet(GateOrder)

ASSUME GateAssumption ==
    /\ Op \in [Operations ->
                 [edit : BOOLEAN, file : STRING, lines : Nat, evidence : BOOLEAN,
                  asks : SUBSET GateSet, blocks : SUBSET GateSet,
                  denied : BOOLEAN, extensionAsks : BOOLEAN, fails : BOOLEAN]]
    /\ Allowed \subseteq STRING
    /\ Modes \subseteq {"autonomous", "review", "plan"}
    /\ {MaxChangedLines, MaxChangedFiles, ExpansionBudget, MaxToolCalls, MaxAnswers} \subseteq Nat

VARIABLES
    mode,           \* mode_policy, as the session was started
    permission,     \* permission_mode, as the user sees and sets it
    confirmations,  \* _pending_confirmations: id -> [op, editOk]
    edits,          \* _pending_edits: id -> [op, hash of the diff first shown]
    ids,            \* ids given so far
    text,           \* the version of the file that edits are shown against
    contract,       \* allowed files, changed files and lines, expansions used
    ran,            \* bookkeeping: how often each operation ran, in review mode, and typed
    given,          \* bookkeeping: confirmations and reviews that the user gave each operation
    toolCalls, answers

gateVars == <<mode, permission, confirmations, edits, ids, text, contract, ran, given, toolCalls,
              answers>>

GateInit ==
    /\ mode \in Modes /\ permission = mode
    /\ confirmations = <<>> /\ edits = <<>> /\ ids = 0 /\ text = 0
    /\ contract = [allowed |-> Allowed, files |-> {}, lines |-> 0, expansions |-> 0]
    /\ ran = [o \in Operations |-> [total |-> 0, inReview |-> 0, typed |-> 0]]
    /\ given = [o \in Operations |-> [confirmed |-> 0, reviewed |-> 0]]
    /\ toolCalls = 0 /\ answers = 0

Without(f, x) == [y \in DOMAIN f \ {x} |-> f[y]]
With(f, x, v) == [y \in DOMAIN f \union {x} |-> IF y = x THEN v ELSE f[y]]

-----------------------------------------------------------------------------
(* The gates.  By is what the call comes with: whether the user confirmed  *)
(* it, typed it, or reviewed its diff.                                     *)

Model == [confirmed |-> FALSE, initiated |-> FALSE, editOk |-> FALSE]

\* Faulty variant: only the files are counted.
InBudgetFiles(o) == Cardinality(contract.files \union {Op[o].file}) <= MaxChangedFiles

\* The file and line budgets of the contract.
InBudget(o) ==
    /\ Cardinality(contract.files \union {Op[o].file}) <= MaxChangedFiles
    /\ contract.lines + Op[o].lines <= MaxChangedLines

\* SurgicalScopeGuard.authorize: a file of the contract, or an expansion with evidence.
NeedsExpansion(o) == Op[o].file \notin contract.allowed
Expandable(o) == contract.expansions < ExpansionBudget /\ Op[o].evidence
InScope(o) == Op[o].edit => InBudget(o) /\ (NeedsExpansion(o) => Expandable(o))

\* Policy.decide and then the extensions, each of which replaces the decision.
PolicyDecision(o) == IF Op[o].extensionAsks THEN "ask"
                     ELSE IF Op[o].denied THEN "deny"
                     ELSE IF "policy" \in Op[o].asks THEN "ask" ELSE "allow"

\* The mode may not edit, and the user did not type the call.
ReadOnly(by) == mode = "plan" /\ ~by.initiated

Blocks(o, g, by) ==
    \/ g \in Op[o].blocks
    \/ g = "permission" /\ ReadOnly(by)
    \/ g = "policy" /\ PolicyDecision(o) = "deny"
    \/ g = "scope" /\ ~InScope(o)
    \/ g = "shell" /\ mode = "autonomous" /\ "shell" \in Op[o].asks

Asks(o, g, by) ==
    \/ g = "policy" /\ PolicyDecision(o) = "ask" /\ ~by.confirmed /\ ~by.initiated
    \/ g = "network" /\ g \in Op[o].asks /\ ~by.confirmed /\ ~by.initiated
    \/ g \in {"capability", "outside", "package", "safety"} /\ g \in Op[o].asks /\ ~by.confirmed
    \/ g = "review" /\ Op[o].edit /\ mode = "review" /\ ~by.editOk

\* The gate at which the call stops, or "none".
Position == [g \in GateSet |-> CHOOSE i \in DOMAIN GateOrder : GateOrder[i] = g]
StopsAt(o, by) ==
    LET stops == {g \in GateSet : Blocks(o, g, by) \/ Asks(o, g, by)}
    IN IF stops = {} THEN "none" ELSE CHOOSE g \in stops : \A h \in stops : Position[g] <= Position[h]

-----------------------------------------------------------------------------
(* One call. *)

Diff(o) == <<o, text>>

\* _queue_confirmation: the same call is queued once, as it was queued first.
QueueConfirmation(o, by, queue) ==
    IF \E i \in DOMAIN queue : queue[i].op = o
    THEN confirmations' = queue /\ UNCHANGED ids
    ELSE /\ ids' = ids + 1
         /\ confirmations' = With(queue, ids + 1, [op |-> o, editOk |-> by.editOk])

\* _queue_edit: the same call, or the same diff, is queued once; its diff is shown in any case.
QueueEdit(o, queue) ==
    LET same == {i \in DOMAIN queue : queue[i].op = o \/ queue[i].hash = Diff(o)}
        id == IF same = {} THEN ids + 1 ELSE CHOOSE i \in same : \A j \in same : i <= j
    IN /\ edits' = IF same = {} THEN With(queue, id, [op |-> o, hash |-> Diff(o)]) ELSE queue
       /\ ids' = IF same = {} THEN id ELSE ids

\* An expansion is spent at the gate, whatever the later gates say.
Expanded(o, stop) ==
    IF Op[o].edit /\ NeedsExpansion(o) /\ (stop = "none" \/ Position["scope"] < Position[stop])
    THEN [allowed |-> contract.allowed \union {Op[o].file}, files |-> contract.files,
          lines |-> contract.lines, expansions |-> contract.expansions + 1]
    ELSE contract

\* register_change after a successful edit.
Registered(o, c) ==
    IF Op[o].edit
    THEN [allowed |-> c.allowed, files |-> c.files \union {Op[o].file},
          lines |-> c.lines + Op[o].lines, expansions |-> c.expansions]
    ELSE c

\* The call runs; a failing edit is undone.
Run(o, by) ==
    /\ ran' = [ran EXCEPT ![o] =
                  [total |-> @.total + 1,
                   inReview |-> IF mode = "review" THEN @.inReview + 1 ELSE @.inReview,
                   typed |-> IF by.initiated THEN @.typed + 1 ELSE @.typed]]
    /\ contract' = IF Op[o].fails THEN Expanded(o, "none") ELSE Registered(o, Expanded(o, "none"))
    /\ text' = IF Op[o].edit /\ ~Op[o].fails THEN text + 1 ELSE text

\* _execute_impl, on the queues cs and es of confirmations and edits.
Execute(o, by, cs, es) ==
    \E stop \in {StopsAt(o, by)} :
       LET asks == stop # "none" /\ ~Blocks(o, stop, by) IN
       /\ stop = "none" => Run(o, by)
       /\ stop # "none" => contract' = Expanded(o, stop) /\ UNCHANGED <<ran, text>>
       /\ IF ~asks THEN confirmations' = cs /\ edits' = es /\ UNCHANGED ids
          ELSE IF stop = "review" THEN QueueEdit(o, es) /\ confirmations' = cs
          ELSE QueueConfirmation(o, by, cs) /\ edits' = es

ModelCalls(o) ==
    /\ toolCalls < MaxToolCalls /\ toolCalls' = toolCalls + 1
    /\ Execute(o, Model, confirmations, edits)
    /\ UNCHANGED <<mode, permission, given, answers>>

\* A command that the user types.
UserCalls(o) ==
    /\ toolCalls < MaxToolCalls /\ toolCalls' = toolCalls + 1
    /\ ~Op[o].edit
    /\ Execute(o, [Model EXCEPT !.initiated = TRUE], confirmations, edits)
    /\ UNCHANGED <<mode, permission, given, answers>>

-----------------------------------------------------------------------------
(* The user. *)

Answer == answers < MaxAnswers /\ answers' = answers + 1 /\ UNCHANGED toolCalls

\* pop: an id is good for one answer.
Take(queue, id) == Without(queue, id)

\* The call is executed again from its first gate.
ConfirmPendingOperation(id) ==
    LET o == confirmations[id].op
        by == [Model EXCEPT !.confirmed = TRUE, !.editOk = confirmations[id].editOk]
    IN /\ Answer
       /\ given' = [given EXCEPT ![o].confirmed = @ + 1]
       /\ Execute(o, by, Take(confirmations, id), edits)
       /\ UNCHANGED <<mode, permission>>

ApplyPendingEdit(id) ==
    LET o == edits[id].op
    IN /\ Answer
       /\ given' = [given EXCEPT ![o].reviewed = @ + 1]
       /\ Execute(o, [Model EXCEPT !.editOk = TRUE], confirmations, Take(edits, id))
       /\ UNCHANGED <<mode, permission>>

CancelPendingOperation(id) ==
    /\ Answer
    /\ confirmations' = Take(confirmations, id)
    /\ UNCHANGED <<mode, permission, edits, ids, text, contract, ran, given>>

RejectPendingEdit(id) ==
    /\ Answer
    /\ edits' = Take(edits, id)
    /\ UNCHANGED <<mode, permission, confirmations, ids, text, contract, ran, given>>

\* The edit becomes another one of the same file; the hash of its first diff stays.
ReplacePendingEdit(id, o) ==
    /\ Answer
    /\ Op[o].edit /\ Op[o].file = Op[edits[id].op].file
    /\ edits' = [edits EXCEPT ![id].op = o]
    /\ UNCHANGED <<mode, permission, confirmations, ids, text, contract, ran, given>>

\* /plan, /permissions: the gates do not look at what they set.
ChangeMode(m) ==
    /\ Answer
    /\ m # permission /\ permission' = m
    /\ UNCHANGED <<mode, confirmations, edits, ids, text, contract, ran, given>>

\* The user edits the file outside of the program.
UserEditsFile ==
    /\ Answer
    /\ text' = text + 1
    /\ UNCHANGED <<mode, permission, confirmations, edits, ids, contract, ran, given>>

GateNext ==
    \/ \E o \in Operations : ModelCalls(o) \/ UserCalls(o)
    \/ \E id \in DOMAIN confirmations : ConfirmPendingOperation(id) \/ CancelPendingOperation(id)
    \/ \E id \in DOMAIN edits : ApplyPendingEdit(id) \/ RejectPendingEdit(id)
    \/ \E id \in DOMAIN edits, o \in Operations : ReplacePendingEdit(id, o)
    \/ \E m \in Modes : ChangeMode(m)
    \/ UserEditsFile

GateSpec == GateInit /\ [][GateNext]_gateVars

-----------------------------------------------------------------------------
(* What the gates promise. *)

GateIds == 1..(MaxToolCalls + MaxAnswers)

\* The queues, the contract and the counts have the shapes the code gives them.
GateTypeOK ==
    /\ mode \in Modes /\ permission \in Modes /\ ids \in 0..(MaxToolCalls + MaxAnswers)
    /\ DOMAIN confirmations \subseteq GateIds /\ DOMAIN edits \subseteq GateIds
    /\ \A i \in DOMAIN confirmations :
           i <= ids /\ confirmations[i] \in [op : Operations, editOk : BOOLEAN]
    /\ \A i \in DOMAIN edits : i <= ids /\ Op[edits[i].op].edit
    /\ contract.allowed \subseteq STRING /\ contract.expansions \in Nat
    /\ \A o \in Operations : ran[o].inReview <= ran[o].total /\ ran[o].typed <= ran[o].total
    /\ text \in Nat /\ toolCalls \in 0..MaxToolCalls /\ answers \in 0..MaxAnswers

MustConfirm == {o \in Operations :
    Op[o].asks \intersect {"capability", "outside", "package", "safety"} # {}}
MustAgree == {o \in Operations : "policy" \in Op[o].asks \/ Op[o].extensionAsks}
MustReview == {o \in Operations : Op[o].edit}

\* Dangerous actions need an exact, one-shot confirmation, and edits in review mode a review of
\* their own: however calls are repeated, queued twice, replaced and answered in whatever order,
\* an operation never runs more often than the user agreed to it.
OneShot ==
    /\ \A o \in MustConfirm : ran[o].total <= given[o].confirmed
    /\ \A o \in MustAgree : ran[o].total <= given[o].confirmed + ran[o].typed
    /\ \A o \in MustReview : ran[o].inReview <= given[o].reviewed

\* The surgical scope: over the whole turn, whichever calls were refused, queued, approved later or
\* failed, edits stay in files that the contract allows or that evidence admitted within the
\* expansion budget, and within the budgets of files and lines.
ScopeKept ==
    /\ contract.files \subseteq contract.allowed
    /\ Cardinality(contract.files) <= MaxChangedFiles /\ contract.lines <= MaxChangedLines
    /\ Cardinality(contract.allowed \ Allowed) <= contract.expansions
    /\ contract.expansions <= ExpansionBudget
    /\ \A f \in contract.allowed \ Allowed : \E o \in Operations : Op[o].file = f /\ Op[o].evidence

\* What the gates promise.
GatesHold == OneShot /\ ScopeKept

\* SECURITY.md puts the project's policy before an approval: what repository policy denies does not
\* run. (It does when a policy extension asks about it and the user confirms.)
DenyStays == \A o \in Operations : Op[o].denied => ran[o].total = 0

\* /plan tells the user "Entered read-only plan mode.": from then on nothing runs that the user did
\* not type. (It does: the gates read the mode that the session was started in.)
PlanIsReadOnly ==
    [][permission = "plan" => \A o \in Operations : ran[o].total - ran[o].typed
                                             = ran'[o].total - ran'[o].typed]_gateVars

=============================================================================
