---------------------------- MODULE ModelBudget ----------------------------
(***************************************************************************)
(* The budget of the hosted model calls of one agent: BudgetController and *)
(* BudgetedClient of nexus/budget.py.  A call is authorised from the byte  *)
(* length of its messages, the provider spends tokens, and what it reports *)
(* (or an estimate at four bytes per token) is added to the usage.         *)
(*                                                                         *)
(* An agent makes one call at a time (Agent._run_lock).  Money is counted  *)
(* in price units: one prompt token costs InPrice.  Which provider serves  *)
(* the call, and how often it is tried, is module Failover.                *)
(***************************************************************************)
EXTENDS Integers

CONSTANTS
    NoLimit,        \* None
    CallLimit, PromptLimit, CompletionLimit, CostLimit,  \* BudgetLimits
    InPrice, OutPrice,
    Requests,       \* max_tokens a caller may ask for
    Sizes,          \* UTF-8 length of the messages of a call
    TokenBytes,     \* bytes of text one token stands for
    MaxReports,     \* chunks of one stream that carry (cumulative) usage
    MaxTotal        \* bound: calls of the behaviour, whatever is reset

Limits == Nat \cup {NoLimit}

ASSUME BudgetAssumption ==
    /\ NoLimit \notin Int
    /\ CallLimit \in Limits /\ PromptLimit \in Limits
    /\ CompletionLimit \in Limits /\ CostLimit \in Limits
    /\ InPrice \in Nat /\ OutPrice \in Nat
    /\ Requests \subseteq Nat /\ Sizes \subseteq Nat
    /\ TokenBytes \in Nat \ {0}
    /\ MaxReports \in Nat \ {0}
    /\ MaxTotal \in Nat

VARIABLES
    pc,         \* "idle" or "calling"
    calls,      \* usage.hosted_calls
    prompt,     \* usage.prompt_tokens
    completion, \* usage.completion_tokens
    size,       \* length of the messages of the call in progress
    allowed,    \* max_tokens it was authorised with
    spentPrompt, spentCompletion,  \* history: tokens the provider spent
    reported,   \* history: tokens the provider reported
    irregular,  \* history: a response came without usage, or with it twice
    total       \* history: authorised calls

vars == <<pc, calls, prompt, completion, size, allowed, spentPrompt,
          spentCompletion, reported, irregular, total>>

Init ==
    /\ pc = "idle"
    /\ calls = 0 /\ prompt = 0 /\ completion = 0
    /\ size = 0 /\ allowed = 0
    /\ spentPrompt = 0 /\ spentCompletion = 0
    /\ reported = [prompt |-> 0, completion |-> 0] /\ irregular = FALSE
    /\ total = 0

\* _estimate_cost
Cost(p, c) == p * InPrice + c * OutPrice

\* A limit that is None allows everything.
Within(value, limit) == limit # NoLimit => value <= limit

\* _check_token_and_cost_limits
UsageWithin(p, c) ==
    /\ Within(p, PromptLimit)
    /\ Within(c, CompletionLimit)
    /\ Within(Cost(p, c), CostLimit)

\* _estimate_text: four bytes per token, rounded up.
Estimate(bytes) == (bytes + 3) \div 4

\* Tokens of a text of that many bytes.
Tokens(bytes) == (bytes + TokenBytes - 1) \div TokenBytes

-----------------------------------------------------------------------------
(* before_hosted_call                                                      *)

Remaining(bytes) == CostLimit - Cost(prompt, completion) - bytes * InPrice

\* The completion tokens left, and those the rest of the money can buy.
Ceilings(requested, bytes) ==
    {requested}
        \cup (IF CompletionLimit = NoLimit THEN {} ELSE {CompletionLimit - completion})
        \cup (IF CostLimit = NoLimit \/ OutPrice = 0 THEN {}
              ELSE {Remaining(bytes) \div OutPrice})

\* The call is refused (BudgetExceeded) unless every check succeeds.
Authorise(requested, bytes) ==
    /\ pc = "idle" /\ pc' = "calling"
    /\ Within(calls + 1, CallLimit)
    /\ UsageWithin(prompt, completion)
    /\ Within(prompt + bytes, PromptLimit)
    /\ CostLimit # NoLimit => Remaining(bytes) > 0
    /\ \E most \in Ceilings(requested, bytes) :
          /\ \A other \in Ceilings(requested, bytes) : most <= other
          /\ most > 0
          /\ allowed' = most
    /\ calls' = calls + 1
    /\ total < MaxTotal /\ total' = total + 1
    /\ size' = bytes
    /\ UNCHANGED <<prompt, completion, spentPrompt, spentCompletion, reported, irregular>>

-----------------------------------------------------------------------------
(* The response.  The provider honours max_tokens.                         *)

Spend(used) ==
    /\ pc = "calling" /\ pc' = "idle"
    /\ spentPrompt' = spentPrompt + Tokens(size)
    /\ spentCompletion' = spentCompletion + used
    /\ UNCHANGED <<calls, size, allowed, total>>

\* _wrap_stream records every chunk with usage; a report that exceeds a
\* limit raises before usage_recorded is set, so that the finally clause
\* adds the estimate as well; nothing of the stream is read after it.
Reported(used, reports) ==
    /\ Spend(used)
    /\ reports > 1 =>
          UsageWithin(prompt + (reports - 1) * Tokens(size), completion + (reports - 1) * used)
    /\ LET p == prompt + reports * Tokens(size)
           c == completion + reports * used
           raised == ~UsageWithin(p, c)
       IN /\ prompt' = p + (IF raised THEN Estimate(size) ELSE 0)
          /\ completion' = c + (IF raised THEN Estimate(used * TokenBytes) ELSE 0)
    /\ reported' = [prompt |-> reported.prompt + Tokens(size),
                    completion |-> reported.completion + used]
    /\ irregular' = (irregular \/ reports > 1)

\* Faulty variant: nothing is recorded when the provider reports nothing.
NotReportedIgnored(used) ==
    /\ Spend(used)
    /\ irregular' = TRUE
    /\ UNCHANGED <<prompt, completion, reported>>

\* The usage is missing, or the stream broke off before it: the estimate.
NotReported(used) ==
    /\ Spend(used)
    /\ prompt' = prompt + Estimate(size)
    /\ completion' = completion + Estimate(used * TokenBytes)
    /\ irregular' = TRUE
    /\ UNCHANGED reported

\* The provider refuses the call before it spends anything.
Refused ==
    /\ pc = "calling" /\ pc' = "idle"
    /\ UNCHANGED <<calls, prompt, completion, size, allowed, spentPrompt,
                   spentCompletion, reported, irregular, total>>

\* reset: the accounting window of the next run.
Reset ==
    /\ pc = "idle" /\ total > 0
    /\ calls' = 0 /\ prompt' = 0 /\ completion' = 0
    /\ spentPrompt' = 0 /\ spentCompletion' = 0
    /\ reported' = [prompt |-> 0, completion |-> 0] /\ irregular' = FALSE
    /\ UNCHANGED <<pc, size, allowed, total>>

Next ==
    \/ \E requested \in Requests, bytes \in Sizes : Authorise(requested, bytes)
    \/ \E used \in 0..allowed, reports \in 1..MaxReports : Reported(used, reports)
    \/ \E used \in 0..allowed : NotReported(used)
    \/ Refused
    \/ Reset

Spec == Init /\ [][Next]_vars

-----------------------------------------------------------------------------
\* budget.py:304: "records conservative local estimates so currency and
\* token budgets do not silently become ineffective."  What the provider
\* really spent in a run stays within every configured limit.
SpentWithinLimits ==
    /\ Within(calls, CallLimit)
    /\ UsageWithin(spentPrompt, spentCompletion)

\* budget.py:97: "Provider-reported usage replaces estimates in the persisted
\* accounting after the call."  When every response reported its usage once,
\* the accounting is what was reported.
AccountedIsReported ==
    pc = "idle" /\ ~irregular =>
        prompt = reported.prompt /\ completion = reported.completion
=============================================================================
