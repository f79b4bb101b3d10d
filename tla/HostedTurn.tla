----------------------------- MODULE HostedTurn -----------------------------
(***************************************************************************)
(* One conversation with a hosted model: ExecutionKernel.run_interactive   *)
(* (nexus/runtime/kernel.py), Agent._run_hosted_turn and the approval      *)
(* commands around it (nexus/agent/core.py, nexus/tool_executor.py), and   *)
(* compact_messages (nexus/memory.py).                                     *)
(*                                                                         *)
(* Messages keep their role and their tool call identifiers; texts,        *)
(* events, model call records and reflection are left out.  The model and  *)
(* the tools answer anything they can answer.  The local Nova fallback and *)
(* plan steps are left out; the session never sets a wall-clock deadline.  *)
(***************************************************************************)
EXTENDS Naturals, Sequences

CONSTANTS
    Ops,            \* tool name and arguments of a call that needs a review
    MaxTurns,       \* max_turns of the kernel
    MaxEmptyRetries,\* _max_empty_retries
    CompactAbove,   \* message count that triggers a compaction (100)
    KeepKernel,     \* keep_recent of the kernel's compaction (10)
    KeepAgent,      \* keep_recent of the agent's compaction (12)
    MaxInputs,      \* bound: messages and reviews of the user
    MaxCalls        \* bound: tool calls of one response

ASSUME TurnAssumption ==
    /\ MaxTurns \in Nat
    /\ MaxEmptyRetries \in Nat \ {0}
    /\ CompactAbove \in Nat /\ KeepKernel \in Nat \ {0} /\ KeepAgent \in Nat \ {0}
    /\ MaxInputs \in Nat /\ MaxCalls \in Nat

Plain == "plain"          \* a call that needs no review
Gates == {"edit", "command"}
Unbound == 0              \* queued, not bound to a tool call

System == [role |-> "system"]
User == [role |-> "user"]
Text == [role |-> "assistant", calls |-> <<>>]
Assistant(ids) == [role |-> "assistant", calls |-> ids]
Tool(id) == [role |-> "tool", call |-> id]
IsTool(msg) == msg.role = "tool"

VARIABLES
    messages,  \* Agent.messages
    current,   \* current_messages of the kernel
    pc,        \* where the turn is
    runState,  \* StateMachine state of the turn's kernel
    iteration, \* iteration
    empties,   \* _empty_response_retries
    calls,     \* tool calls of the last response not yet executed: [id, op]
    last,      \* Agent._last_turn_assistant_msg
    results,   \* identifiers of the tool calls completed in this turn
    pending,   \* keys of _pending_edits and _pending_confirmations
    callOf,    \* tool_call_id each of them is bound to, or Unbound
    nextId,    \* identifier of the next tool call
    inputs,    \* messages and reviews of the user so far
    requests,  \* history: model requests of this turn
    paused     \* history: a call of this conversation has paused for a review

kernel == <<current, runState, iteration, empties, calls, last, results, requests>>
vars == <<messages, current, pc, runState, iteration, empties, calls, last,
          results, pending, callOf, nextId, inputs, requests, paused>>

Init ==
    /\ messages = <<>> /\ current = <<>> /\ pc = "idle" /\ runState = "idle"
    /\ iteration = 0 /\ empties = 0 /\ calls = <<>> /\ last = <<>>
    /\ results = <<>>
    /\ pending = {} /\ callOf = [g \in Gates \X Ops |-> Unbound]
    /\ nextId = 1 /\ inputs = 0 /\ requests = 0 /\ paused = FALSE

-----------------------------------------------------------------------------
(* compact_messages                                                        *)

\* Faulty variant: the cut ignores what it separates.
CutAnywhere(msgs, keep) == Len(msgs) - keep + 1

\* The first message kept: a tool result never comes first.
Cut(msgs, keep) ==
    CHOOSE i \in 1..(Len(msgs) - keep + 1) :
        /\ i = 1 \/ ~IsTool(msgs[i])
        /\ \A j \in (i + 1)..(Len(msgs) - keep + 1) : IsTool(msgs[j])

\* A summary and an acknowledgement, then the recent messages.
CompactMessages(msgs, keep) ==
    IF Len(msgs) <= keep + 2 THEN msgs
    ELSE <<User, Text>> \o SubSeq(msgs, Cut(msgs, keep), Len(msgs))

Compacted(msgs, keep) ==
    IF Len(msgs) > CompactAbove THEN CompactMessages(msgs, keep) ELSE msgs

-----------------------------------------------------------------------------
(* _run_hosted_turn starts a session and its kernel.                       *)

Begin(history) ==
    LET kept == Compacted(history, KeepAgent) IN
    /\ messages' = kept
    /\ current' = <<System>> \o kept
    /\ runState' = "executing"
    /\ iteration' = 0 /\ empties' = 0 /\ requests' = 0
    /\ calls' = <<>> /\ results' = <<>>
    /\ UNCHANGED <<last, pending, callOf, nextId, paused>>

UserMessage ==
    /\ pc = "idle" /\ pc' = "loop"
    /\ inputs < MaxInputs
    /\ inputs' = inputs + 1
    /\ Begin(Append(messages, User))

\* /apply, /reject, /confirm and /cancel that succeeded go on with the turn.
ResumeAfterApproval ==
    /\ pc = "resolved" /\ pc' = "loop"
    /\ UNCHANGED inputs
    /\ Begin(messages)

\* The run ends; the agent keeps nothing of it.
Fails ==
    /\ pc' = "idle"
    /\ runState' = "failed"
    /\ UNCHANGED <<messages, pending, callOf, inputs, paused>>

\* Faulty variant: one turn more than max_turns.
LoopTopOffByOne ==
    /\ pc = "loop" /\ iteration <= MaxTurns
    /\ pc' = "requesting"
    /\ current' = Compacted(current, KeepKernel)
    /\ iteration' = iteration + 1
    /\ requests' = requests + 1
    /\ UNCHANGED <<messages, runState, empties, calls, last, results, pending, callOf,
                   nextId, inputs, paused>>

LoopTop ==
    /\ pc = "loop" /\ iteration < MaxTurns
    /\ pc' = "requesting"
    /\ current' = Compacted(current, KeepKernel)
    /\ iteration' = iteration + 1
    /\ requests' = requests + 1
    /\ UNCHANGED <<messages, runState, empties, calls, last, results, pending, callOf,
                   nextId, inputs, paused>>

\* The else branch of the while: max_turns requests were useful.
TurnsExhausted ==
    /\ pc = "loop" /\ iteration >= MaxTurns
    /\ Fails
    /\ UNCHANGED <<current, iteration, empties, calls, last, results, nextId,
                   requests>>

\* provider.chat raises, or the stream raises OSError or ValueError.
ProviderFails ==
    /\ pc = "requesting"
    /\ Fails
    /\ UNCHANGED <<current, iteration, empties, calls, last, results, nextId,
                   requests>>

\* Any other exception of the stream leaves the kernel executing.
StreamEscapes ==
    /\ pc = "requesting" /\ pc' = "idle"
    /\ UNCHANGED <<messages, kernel, pending, callOf, nextId, inputs, paused>>

\* Faulty variant: empty responses are not counted.
RespondEmptyUncounted ==
    /\ pc = "requesting"
    /\ pc' = "loop"
    /\ iteration' = iteration - 1
    /\ last' = <<Text>>
    /\ UNCHANGED <<messages, current, runState, empties, calls, results, pending, callOf,
                   nextId, inputs, requests, paused>>

\* No text and no call: the message is popped and the turn not counted.
RespondEmpty ==
    /\ pc = "requesting" /\ empties + 1 < MaxEmptyRetries
    /\ pc' = "loop"
    /\ empties' = empties + 1
    /\ iteration' = iteration - 1
    /\ last' = <<Text>>
    /\ UNCHANGED <<messages, current, runState, calls, results, pending, callOf, nextId,
                   inputs, requests, paused>>

EmptyGivesUp ==
    /\ pc = "requesting" /\ empties + 1 >= MaxEmptyRetries
    /\ Fails
    /\ empties' = empties + 1
    /\ current' = Append(current, Text)
    /\ last' = <<Text>>
    /\ UNCHANGED <<iteration, calls, results, nextId, requests>>

\* A text without calls completes the run; its text joins the conversation.
RespondText ==
    /\ pc = "requesting" /\ pc' = "idle"
    /\ empties' = 0
    /\ runState' = "completed"
    /\ current' = Append(current, Text)
    /\ last' = <<Text>>
    /\ messages' = Append(messages, Text)
    /\ UNCHANGED <<iteration, calls, results, pending, callOf, nextId, inputs, requests, paused>>

Ids(n) == [i \in 1..n |-> nextId + i - 1]

RespondCalls ==
    /\ pc = "requesting" /\ pc' = "tools"
    /\ \E n \in 1..MaxCalls : \E op \in [1..n -> Ops \cup {Plain}] :
          /\ current' = Append(current, Assistant(Ids(n)))
          /\ last' = <<Assistant(Ids(n))>>
          /\ calls' = [i \in 1..n |-> [id |-> nextId + i - 1, op |-> op[i]]]
          /\ nextId' = nextId + n
    /\ UNCHANGED <<messages, runState, iteration, empties, results, pending, callOf,
                   inputs, requests, paused>>

-----------------------------------------------------------------------------
(* The tools of one response, in order.                                    *)

\* Success, failure, refusal or exception: the result is a message.
ToolReturns ==
    /\ pc = "tools" /\ calls # <<>>
    /\ current' = Append(current, Tool(Head(calls).id))
    /\ results' = Append(results, Head(calls).id)
    /\ calls' = Tail(calls)
    /\ pc' = IF Tail(calls) = <<>> THEN "loop" ELSE "tools"
    /\ UNCHANGED <<messages, runState, iteration, empties, last, pending, callOf,
                   nextId, inputs, requests, paused>>

\* _handle_tool_calls_interactive, then RUN_AWAITING_*: the last assistant
\* message and the results of the turn join the conversation, the queued
\* operation is bound to the call, and the notice is appended as a text.
\* ToolCallCompleted carries the identifier only for a confirmation.
ToolPauses(gate) ==
    /\ pc = "tools" /\ calls # <<>> /\ Head(calls).op \in Ops
    /\ LET id == Head(calls).id
           completed == IF gate = "command" THEN Append(results, id) ELSE results
       IN /\ results' = completed
          /\ messages' = messages \o last
                         \o [i \in DOMAIN completed |-> Tool(completed[i])]
                         \o <<Text>>
          /\ pending' = pending \cup {<<gate, Head(calls).op>>}
          /\ callOf' = [callOf EXCEPT ![<<gate, Head(calls).op>>] = id]
    /\ last' = <<>>
    /\ pc' = "idle"
    /\ runState' = "completed"
    /\ paused' = TRUE
    /\ UNCHANGED <<current, iteration, empties, calls, nextId, inputs, requests>>

\* The user cancels: the generator is abandoned at the next event.
Cancel ==
    /\ pc \in {"loop", "requesting", "tools"}
    /\ pc' = "idle"
    /\ UNCHANGED <<messages, kernel, pending, callOf, nextId, inputs, paused>>

-----------------------------------------------------------------------------
(* The queue of reviews.                                                   *)

\* Executing a reviewed operation may meet the other gate, which queues it
\* again (without a call) and counts as a failure; a failure does not resume.
Resolve(gate, op) ==
    /\ pc = "idle"
    /\ inputs < MaxInputs
    /\ inputs' = inputs + 1
    /\ <<gate, op>> \in pending
    /\ LET id == callOf[<<gate, op>>]
           other == CHOOSE g \in Gates : g # gate
       IN /\ messages' = IF id = Unbound THEN messages ELSE Append(messages, Tool(id))
          /\ \/ pc' \in {"resolved", "idle"} /\ pending' = pending \ {<<gate, op>>}
             \/ pc' = "idle" /\ pending' = (pending \ {<<gate, op>>}) \cup {<<other, op>>}
    /\ callOf' = [callOf EXCEPT ![<<gate, op>>] = Unbound]
    /\ UNCHANGED <<kernel, nextId, paused>>

\* Steps of the kernel once the turn runs.
KernelStep ==
    \/ LoopTop \/ TurnsExhausted
    \/ ProviderFails \/ StreamEscapes
    \/ RespondEmpty \/ EmptyGivesUp \/ RespondText \/ RespondCalls
    \/ ToolReturns \/ \E gate \in Gates : ToolPauses(gate)

Next ==
    \/ UserMessage \/ ResumeAfterApproval
    \/ KernelStep
    \/ Cancel
    \/ \E gate \in Gates, op \in Ops : Resolve(gate, op)

Spec == Init /\ [][Next]_vars
\* The generator is consumed as long as it yields; every call returns.
FairSpec == Spec /\ WF_vars(KernelStep) /\ WF_vars(ResumeAfterApproval)

-----------------------------------------------------------------------------
PcValues == {"idle", "resolved", "loop", "requesting", "tools"}
RunStates == {"idle", "executing", "completed", "failed"}

\* Type invariant of the turn's control state.
TypeOK ==
    /\ pc \in PcValues
    /\ runState \in RunStates
    /\ iteration \in 0..MaxTurns
    /\ empties \in 0..MaxEmptyRetries
    /\ requests \in Nat
    /\ paused \in BOOLEAN
    /\ nextId \in Nat \ {0}
    /\ inputs \in 0..MaxInputs
    /\ pending \subseteq Gates \X Ops
    /\ \A g \in Gates \X Ops : callOf[g] < nextId

\* Message i of msgs is followed by the results of its calls, in order.
Answered(msgs, i) ==
    msgs[i].role = "assistant" =>
        \A k \in DOMAIN msgs[i].calls :
            i + k <= Len(msgs) /\ msgs[i + k] = Tool(msgs[i].calls[k])

\* A tool result belongs to the assistant message it follows.
Owned(msgs, j) ==
    IsTool(msgs[j]) =>
        \E i \in 1..(j - 1) :
            /\ msgs[i].role = "assistant"
            /\ j - i \in DOMAIN msgs[i].calls
            /\ msgs[i].calls[j - i] = msgs[j].call

FollowsProtocol(msgs) ==
    \A i \in DOMAIN msgs : Answered(msgs, i) /\ Owned(msgs, i)

\* The kernel, its retries after empty responses and both compactions never
\* damage a conversation that was in order when the turn began.
KernelKeepsProtocol ==
    pc = "requesting" /\ FollowsProtocol(messages) => FollowsProtocol(current)

\* A run never asks the model more often than max_turns plus the empty
\* responses it forgives, although a forgiven response gives its turn back.
RequestsBounded == requests <= MaxTurns + MaxEmptyRetries - 1

\* Until a call of it pauses for a review, the conversation the agent keeps
\* holds no half of a tool exchange, whatever is compacted, fails or is
\* cancelled in between.
HistoryFollowsProtocol == ~paused => FollowsProtocol(messages)

\* What the providers are sent and what the agent keeps follow the protocol of tool calls.
ProtocolKept == HistoryFollowsProtocol /\ KernelKeepsProtocol

\* Every turn comes to its end.
TurnTerminates == pc = "loop" ~> pc = "idle"
=============================================================================
