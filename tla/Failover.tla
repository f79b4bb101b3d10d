------------------------------ MODULE Failover ------------------------------
(***************************************************************************)
(* How NvidiaClient.chat (nexus/api.py) serves a model call: a custom      *)
(* endpoint, then up to three NVIDIA keys, then two fallback models on     *)
(* every key, then Groq, then OpenRouter.  Every physical attempt asks the *)
(* budget first (BudgetController.before_provider_attempt); a refused      *)
(* attempt is one more failure to the loops.  A key that is rate limited   *)
(* rests for a minute.                                                     *)
(*                                                                         *)
(* Payloads, model names and client caching are left out.  Clock time is   *)
(* abstracted: a phase reads the clock once, and any resting key may have  *)
(* rested enough when a phase starts.                                      *)
(***************************************************************************)
EXTENDS Naturals, Sequences, FiniteSets

CONSTANTS
    KeyCount,       \* NVIDIA keys
    GroqRoutes,     \* Groq candidate models times Groq keys
    HasCustom,      \* custom endpoint configured
    HasOpenRouter,  \* OPENROUTER_API_KEY set
    Fallbacks,      \* fallback models other than the requested one (1 or 2)
    MaxPhysical,    \* MAX_PHYSICAL_ATTEMPTS
    SdkRetries,     \* max_retries of the SDK client (2)
    AttemptLimit,   \* max_provider_attempts of the budget
    MaxServed       \* bound: model calls

ConstantsOK ==
    /\ KeyCount \in Nat /\ GroqRoutes \in Nat /\ Fallbacks \in Nat
    /\ HasCustom \in BOOLEAN /\ HasOpenRouter \in BOOLEAN
    /\ MaxPhysical \in Nat /\ SdkRetries \in Nat /\ AttemptLimit \in Nat
    /\ MaxServed \in Nat

Keys == 0..(KeyCount - 1)

\* "os": OSError or ValueError; "api": an exception of the SDK's own, among
\* them "rate" (429), "refused" (host unreachable) and "timeout".
Failures == {"os", "api", "rate", "refused", "timeout"}
Phases == {"custom", "keys", "models", "groq", "openrouter"}

VARIABLES
    strict,      \* STRICT_MODEL_MODE, read once when the module is imported
    pc,          \* the phase, "idle" between calls
    todo,        \* routes the phase has still to try: [model, key]
    errors,      \* len(errors) of this call
    unreachable, \* connection_timed_out
    resting,     \* keys in key_cooldowns whose minute is not over
    keyIdx,      \* current_key_idx
    poolIdx,     \* current_idx of nvidia_pool
    attempts,    \* usage.provider_attempts
    http,        \* history: HTTP requests of this call
    tried,       \* history: phases of this call that made an attempt
    served,      \* history: model calls so far
    outcome      \* of the last call

vars == <<strict, pc, todo, errors, unreachable, resting, keyIdx, poolIdx, attempts,
          http, tried, served, outcome>>

Init ==
    /\ strict \in BOOLEAN
    /\ pc = "idle" /\ todo = <<>> /\ errors = 0 /\ unreachable = FALSE
    /\ resting = {} /\ keyIdx = 0 /\ poolIdx = 0
    /\ attempts = 0 /\ http = 0 /\ tried = {} /\ served = 0 /\ outcome = "none"

\* The keys from current_key_idx on that do not rest.
AwakeRoutes(asleep) ==
    LET NotResting(route) == route.key \notin asleep
    IN SelectSeq([i \in 1..KeyCount |->
                    [model |-> 0, key |-> (keyIdx + i - 1) % KeyCount]], NotResting)

\* At most three of them.
KeyRoutes(asleep) ==
    LET awake == AwakeRoutes(asleep)
    IN IF Len(awake) > 3 THEN SubSeq(awake, 1, 3) ELSE awake

\* Every fallback model on every key.
ModelRoutes ==
    [i \in 1..(Fallbacks * KeyCount) |->
        [model |-> (i - 1) \div KeyCount + 1, key |-> (i - 1) % KeyCount]]

Single == <<[model |-> 0, key |-> 0]>>

\* A phase starts: some resting keys have rested enough.
Enter(phase) ==
    /\ pc' = phase
    /\ IF phase \in {"keys", "models"}
         THEN \E rested \in SUBSET resting : resting' = resting \ rested
         ELSE resting' = resting
    /\ todo' = CASE phase = "keys" -> KeyRoutes(resting')
                 [] phase = "models" -> ModelRoutes
                 [] phase = "groq" -> [i \in 1..GroqRoutes |-> [model |-> i, key |-> 0]]
                 [] phase = "custom" -> IF HasCustom THEN Single ELSE <<>>
                 [] OTHER -> IF HasOpenRouter THEN Single ELSE <<>>

Chat ==
    /\ pc = "idle" /\ served < MaxServed
    /\ served' = served + 1
    /\ errors' = 0 /\ unreachable' = FALSE /\ http' = 0 /\ tried' = {}
    /\ Enter("custom")
    /\ outcome' = "none"
    /\ UNCHANGED <<keyIdx, poolIdx, attempts>>

Finish(result) == pc' = "idle" /\ todo' = <<>> /\ outcome' = result

\* before_provider_attempt, then the request with the SDK's own retries.
Reserve(sent) ==
    /\ attempts < AttemptLimit
    /\ attempts' = attempts + 1
    /\ http' = http + sent
    /\ tried' = tried \cup {pc}

\* Faulty variant: the next key is not wrapped around.
SucceedsUnwrapped ==
    /\ pc \in Phases /\ todo # <<>>
    /\ pc = "models" => Head(todo).key \notin resting
    /\ \E sent \in 1..(SdkRetries + 1) : Reserve(sent)
    /\ keyIdx' = IF pc \in {"keys", "models"} THEN Head(todo).key + 1 ELSE keyIdx
    /\ Finish("served")
    /\ UNCHANGED <<errors, unreachable, resting, poolIdx, served>>

\* The route answers.
Succeeds ==
    /\ pc \in Phases /\ todo # <<>>
    /\ pc = "models" => Head(todo).key \notin resting
    /\ \E sent \in 1..(SdkRetries + 1) : Reserve(sent)
    /\ keyIdx' = IF pc \in {"keys", "models"} THEN (Head(todo).key + 1) % KeyCount ELSE keyIdx
    /\ Finish("served")
    /\ UNCHANGED <<errors, unreachable, resting, poolIdx, served>>

\* What a failed attempt of a phase does to the routes left.
AfterFailure(failure) ==
    CASE pc = "keys" /\ failure = "refused" -> <<>>
      [] pc = "models" /\ failure \in {"refused", "timeout"} -> <<>>
      [] OTHER -> Tail(todo)

\* The attempt fails: sent and answered with an error, or refused by the
\* budget.  switch_to_fallback rotates the pool and current_key_idx.
Fail(failure) ==
    /\ errors' = errors + 1
    /\ todo' = AfterFailure(failure)
    /\ unreachable' = (unreachable \/ (pc = "keys" /\ failure = "refused")
                                   \/ (pc = "models" /\ failure \in {"refused", "timeout"}))
    /\ resting' = IF pc \in {"keys", "models"} /\ failure = "rate"
                  THEN resting \cup {Head(todo).key} ELSE resting
    /\ IF pc = "keys" /\ failure # "refused" /\ KeyCount > 1
         THEN keyIdx' = poolIdx /\ poolIdx' = (poolIdx + 1) % KeyCount
         ELSE UNCHANGED <<keyIdx, poolIdx>>
    /\ UNCHANGED <<pc, served, outcome>>

\* The custom endpoint fails over only on OSError and ValueError.
Fails ==
    /\ pc \in Phases /\ todo # <<>>
    /\ pc = "models" => Head(todo).key \notin resting
    /\ \E failure \in Failures :
          /\ pc = "custom" => failure = "os"
          /\ \E sent \in 1..(SdkRetries + 1) : Reserve(sent)
          /\ Fail(failure)

Refused ==
    /\ pc \in Phases \ {"custom"} /\ todo # <<>>
    /\ pc = "models" => Head(todo).key \notin resting
    /\ attempts >= AttemptLimit
    /\ Fail("api")
    /\ UNCHANGED <<attempts, http, tried>>

\* Any other exception at the custom endpoint leaves chat.
Escapes ==
    /\ pc = "custom" /\ todo # <<>>
    /\ \/ \E sent \in 1..(SdkRetries + 1) : Reserve(sent)
       \/ attempts >= AttemptLimit /\ UNCHANGED <<attempts, http, tried>>
    /\ Finish("escaped")
    /\ UNCHANGED <<errors, unreachable, resting, keyIdx, poolIdx, served>>

\* A resting key is skipped.
Skip ==
    /\ pc = "models" /\ todo # <<>>
    /\ Head(todo).key \in resting
    /\ todo' = Tail(todo)
    /\ UNCHANGED <<pc, errors, unreachable, resting, keyIdx, poolIdx, attempts,
                   http, tried, served, outcome>>

Following == [custom |-> "keys", keys |-> "models", models |-> "groq", groq |-> "openrouter"]

\* The next phase; strict mode and the cap end the call on the way.
NextPhase ==
    /\ pc \in Phases /\ todo = <<>>
    /\ IF \/ pc = "openrouter"
          \/ pc = "keys" /\ strict
          \/ pc = "models" /\ errors >= MaxPhysical
         THEN Finish("failed") /\ UNCHANGED resting
         ELSE Enter(Following[pc]) /\ UNCHANGED outcome
    /\ UNCHANGED <<errors, unreachable, keyIdx, poolIdx, attempts, http, tried, served>>

\* The loop over the models stops at the next model when the host of an
\* earlier phase was unreachable.
AtNextModel ==
    pc = "models" /\ unreachable /\ todo # <<>> /\ Head(todo).model > 1 /\ Head(todo).key = 0

SkipModel ==
    /\ AtNextModel
    /\ todo' = <<>>
    /\ UNCHANGED <<pc, errors, unreachable, resting, keyIdx, poolIdx, attempts,
                   http, tried, served, outcome>>

Working ==
    \/ SkipModel
    \/ ~AtNextModel /\ (Succeeds \/ Fails \/ Refused \/ Escapes \/ Skip)
    \/ NextPhase

Next == (Chat \/ Working) /\ UNCHANGED strict

Spec == Init /\ [][Next]_vars
\* Every request returns or times out.
FairSpec == Spec /\ WF_vars(Working /\ UNCHANGED strict)

-----------------------------------------------------------------------------
\* Type invariant of the client.
TypeOK ==
    /\ strict \in BOOLEAN
    /\ pc \in Phases \cup {"idle"}
    /\ todo \in Seq([model : Nat, key : Nat])
    /\ errors \in Nat /\ unreachable \in BOOLEAN
    /\ resting \subseteq Keys
    /\ keyIdx \in Keys \cup {0} /\ poolIdx \in Keys \cup {0}
    /\ attempts \in 0..AttemptLimit
    /\ tried \subseteq Phases
    /\ outcome \in {"none", "served", "failed", "escaped"}

\* A call ends, whatever the providers answer.
CallTerminates == pc = "custom" ~> pc = "idle"

\* What a call may cost, whatever fails: one attempt for the custom endpoint,
\* three keys and every fallback model on every key; Groq and OpenRouter only
\* add to fewer than MaxPhysical failures; and the SDK multiplies each attempt.
BeforeGroq == (IF HasCustom THEN 1 ELSE 0) + (IF KeyCount < 3 THEN KeyCount ELSE 3) + Fallbacks * KeyCount
AfterCap == MaxPhysical + GroqRoutes + 1
AttemptsBounded ==
    /\ pc \in {"custom", "keys", "models"} => errors <= BeforeGroq
    /\ pc \in {"groq", "openrouter"} => errors < AfterCap
    /\ http <= (SdkRetries + 1) * (IF BeforeGroq > AfterCap THEN BeforeGroq ELSE AfterCap)
=============================================================================
